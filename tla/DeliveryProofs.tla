---------------------------- MODULE DeliveryProofs ---------------------------
(* Where a connection belongs to one task and savepoints end innermost       *)
(* first, for any number of tasks, connections, transactions and callbacks:  *)
(* what the registry's records are, and what becomes of the callbacks.       *)
EXTENDS TransactionsProofs

-----------------------------------------------------------------------------
(* The records of a connection are the chain of its open transactions, from  *)
(* the root to the innermost savepoint.                                      *)

\* Nothing is open on a connection that was closed.
Shut == \A t \in Txs : active[t] => conn[home[t]] # "closed"

\* Of the open transactions only the root and the innermost one are ended.
Top == \A p \in Tasks : pc[p] \in {"commit", "rollback"} /\ active[arg[p].tx] =>
    arg[p].tx \in {root[home[arg[p].tx]], Innermost(home[arg[p].tx])}

\* The transaction a savepoint began in.
Below(t) == IF prev[t] # NoTx THEN prev[t] ELSE root[home[t]]

(* Records form a chain from the root to the innermost transaction, and an   *)
(* open transaction of an open connection has one.                           *)
Records ==
    /\ \A t \in recorded : active[t] /\ root[home[t]] \in recorded /\ t <= Innermost(home[t])
    /\ \A t \in recorded : up[t] = {u \in recorded : home[u] = home[t] /\ u < t}
    /\ \A t \in Txs, u \in recorded : home[t] = home[u] /\ u < t => u <= Below(t)
    /\ \A t \in recorded : t # root[home[t]] =>
         Below(t) \in recorded /\ Below(t) < t /\ home[Below(t)] = home[t]
    /\ \A t \in Txs : active[t] /\ InTransaction(home[t]) /\ conn[home[t]] = "open"
         /\ ~Closing(home[t]) => t \in recorded

\* A task that awaits a savepoint knows the transaction it begins in.
Nests == \A p \in Tasks : pc[p] = "savepoint" =>
    /\ arg[p].tx # NoTx
    /\ conn[arg[p].conn] = "closed" \/ arg[p].tx = Innermost(arg[p].conn)

ChainInv == AloneInv /\ HeldByTransaction /\ Shut /\ Top /\ Nests /\ Records

LEMMA TxsAreNumbers == \A t \in Txs : t \in Nat /\ t # NoTx /\ t > 0
BY SessionAssumption DEF NoTx

(* What _detach takes: the whole chain for a root, one record for the top.   *)
LEMMA DetachedRoot ==
    ASSUME ChainInv, NEW t \in Txs, NEW c \in Conns, home[t] = c, root[c] = t
    PROVE  Detached(t) = recorded \cap OnConn(c) /\ Heir(t) = NoTx
<1>0. recorded \subseteq Txs
  BY DEF ChainInv, AloneInv, Begun, TypeInv, TypeOK
<1>1. ASSUME NEW u \in recorded, home[u] = c PROVE t \in recorded /\ (u = t \/ t \in up[u])
  <2>1. t \in recorded /\ t <= u
    BY <1>1 DEF ChainInv, Records, AloneInv, NoSurvivors
  <2>2. u # t => t < u
    BY <1>0, <2>1, TxsAreNumbers
  <2> QED BY <1>1, <2>1, <2>2 DEF ChainInv, Records
<1>2. \A u \in recorded : t \in recorded /\ t \in up[u] => home[u] = c
  BY DEF ChainInv, Records
<1>3. Detached(t) = recorded \cap OnConn(c)
  BY <1>0, <1>1, <1>2 DEF Detached, OnConn
<1>4. t \in recorded => up[t] = {}
  <2> SUFFICES ASSUME t \in recorded, NEW u \in up[t] PROVE FALSE
    OBVIOUS
  <2>1. u \in recorded /\ home[u] = c /\ u < t
    BY DEF ChainInv, Records
  <2>2. t <= u
    BY <2>1 DEF ChainInv, AloneInv, NoSurvivors
  <2> QED BY <1>0, <2>1, <2>2, TxsAreNumbers
<1> QED BY <1>3, <1>4 DEF Heir

LEMMA DetachedTop ==
    ASSUME ChainInv, NEW t \in Txs, NEW c \in Conns, home[t] = c, root[c] # t,
           active[t] => nested[c] = t
    PROVE  /\ Detached(t) = {t} \cap recorded
           /\ \A u \in recorded : home[u] = c /\ t \in recorded => u <= t
           /\ t \in recorded => /\ Heir(t) = Below(t) /\ Below(t) \in recorded /\ home[Below(t)] = c
                                /\ Below(t) < t /\ Below(t) \in Txs
           /\ t \notin recorded => Heir(t) = NoTx
<1>0. recorded \subseteq Txs
  BY DEF ChainInv, AloneInv, Begun, TypeInv, TypeOK
<1>1. t \in recorded => Innermost(c) = t
  BY TxsAreNumbers DEF ChainInv, Records, Innermost
<1>2. \A u \in recorded : home[u] = c /\ t \in recorded => u <= t
  BY <1>1 DEF ChainInv, Records
<1>3. \A u \in recorded : t \in recorded => t \notin up[u]
  <2> SUFFICES ASSUME NEW u \in recorded, t \in recorded, t \in up[u] PROVE FALSE
    OBVIOUS
  <2>1. home[u] = c /\ t < u
    BY DEF ChainInv, Records
  <2> QED BY <1>0, <1>2, <2>1, TxsAreNumbers
<1>4. Detached(t) = {t} \cap recorded
  BY <1>3 DEF Detached
<1>5. ASSUME t \in recorded
      PROVE  /\ Heir(t) = Below(t) /\ Below(t) \in recorded /\ home[Below(t)] = c
             /\ Below(t) < t /\ Below(t) \in Txs
  <2>1. Below(t) \in recorded /\ Below(t) < t /\ home[Below(t)] = c /\ Below(t) \in Txs
    BY <1>0, <1>5 DEF ChainInv, Records
  <2>2. up[t] = {u \in recorded : home[u] = c /\ u < t}
    BY <1>5 DEF ChainInv, Records
  <2>3. Below(t) \in up[t] /\ \A u \in up[t] : u <= Below(t) /\ u \in Nat
    BY <1>0, <2>1, <2>2, TxsAreNumbers DEF ChainInv, Records
  <2>4. Greatest(up[t]) = Below(t)
    <3>1. \E x \in up[t] : \A y \in up[t] : x >= y
      BY <2>3
    <3>2. Greatest(up[t]) \in up[t] /\ \A y \in up[t] : Greatest(up[t]) >= y
      BY <3>1 DEF Greatest
    <3> QED BY <2>3, <3>2
  <2> QED BY <1>5, <2>1, <2>3, <2>4 DEF Heir
<1> QED BY <1>2, <1>4, <1>5 DEF Heir

-----------------------------------------------------------------------------
(* What the end of a transaction does to the session: a root's end leaves no *)
(* transaction, a savepoint's end takes that savepoint alone.                *)
LEMMA RootEnds ==
    ASSUME SessionTypeOK, NEW t \in Txs, NEW c \in Conns, home[t] = c, root[c] = t,
           CommitOk(t) \/ CommitFails(t) \/ RollbackOk(t) \/ RollbackFails(t)
    PROVE  ~InTransaction(c)'
<1>1. CommitOk(t) => root'[c] = NoTx
  BY DEF CommitOk, EndRoot, SessionTypeOK
<1>2. CommitFails(t) => root'[c] = t /\ ~active'[t]
  BY DEF CommitFails, Deactivate, OnConn, SessionTypeOK
<1>3. RollbackOk(t) => root'[c] = NoTx
  BY DEF RollbackOk, EndRoot, SessionTypeOK
<1>4. RollbackFails(t) => root'[c] = NoTx
  BY DEF RollbackFails, SessionTypeOK
<1> QED BY <1>1, <1>2, <1>3, <1>4 DEF InTransaction

LEMMA TopEnds ==
    ASSUME SessionTypeOK, NEW t \in Txs, NEW c \in Conns, home[t] = c, root[c] # t,
           CommitOk(t) \/ CommitFails(t) \/ RollbackOk(t) \/ RollbackFails(t)
    PROVE  /\ root' = root
           /\ \A u \in Txs : active'[u] <=> active[u] /\ u # t
           /\ nested'[c] = nested[c] \/ (nested[c] = t /\ nested'[c] = prev[t])
<1>1. root' = root /\ Deactivate({t}) /\ (UNCHANGED nested \/ nested' = Popped(t))
  BY DEF CommitOk, CommitFails, RollbackOk, RollbackFails
<1>2. nested'[c] = nested[c] \/ (nested[c] = t /\ nested'[c] = prev[t])
  BY <1>1 DEF Popped, SessionTypeOK
<1> QED BY <1>1, <1>2 DEF Deactivate

(* What it does to the registry: the records of a root's connection go, or   *)
(* the record of the savepoint, whose callbacks a commit hands down.         *)
Drops(S) == Keep(recorded \ S) /\ UNCHANGED up
HandsDown(t) ==
    /\ recorded' = recorded \ {t} /\ UNCHANGED up
    /\ \A u \in Txs : cbs'[u] = IF u \notin recorded' THEN {}
                                ELSE cbs[u] \cup (IF t \in recorded /\ u = Below(t) THEN cbs[t] ELSE {})

LEMMA RootLeaves ==
    ASSUME ChainInv, NEW t \in Txs, NEW c \in Conns, home[t] = c, root[c] = t
    PROVE  /\ \A f : ManagerCommit(c, t, f) => Drops(OnConn(c))
           /\ \A f : ManagerRollback(c, t, f) => Drops(OnConn(c))
           /\ \A k : k \in Collected(t) <=> \E u \in recorded : home[u] = c /\ k \in cbs[u]
           /\ Batch(t) = Collected(t)
<1>0. recorded \subseteq Txs /\ NoTx \notin Txs /\ cbs \in [Txs -> SUBSET Callbacks]
  BY SessionAssumption DEF ChainInv, AloneInv, Begun, TypeInv, TypeOK
<1>1. Detached(t) = recorded \cap OnConn(c) /\ Heir(t) = NoTx
  BY DetachedRoot
<1>2. ASSUME NEW f, ManagerCommit(c, t, f) PROVE Drops(OnConn(c))
  <2>1. recorded' = recorded \ OnConn(c) /\ UNCHANGED up
    <3>1. f \/ (t \in recorded /\ up[t] = {}) => recorded' = recorded \ OnConn(c)
      BY <1>1, <1>2 DEF ManagerCommit
    <3>2. ~(f \/ (t \in recorded /\ up[t] = {})) => recorded' = recorded \ OnConn(c)
      BY <1>1, <1>2 DEF ManagerCommit
    <3> QED BY <1>2, <3>1, <3>2 DEF ManagerCommit
  <2>2. cbs' = [u \in Txs |-> IF u \in recorded' THEN cbs[u] ELSE {}]
    BY <1>0, <1>1, <1>2 DEF ManagerCommit
  <2> QED BY <2>1, <2>2 DEF Drops, Keep
<1>3. ASSUME NEW f, ManagerRollback(c, t, f) PROVE Drops(OnConn(c))
  BY <1>1, <1>3 DEF ManagerRollback, Keep, Drops
<1>4. \A k : k \in Collected(t) <=> \E u \in recorded : home[u] = c /\ k \in cbs[u]
  BY <1>0, <1>1 DEF Collected, OnConn
<1> QED BY <1>1, <1>2, <1>3, <1>4 DEF Batch

LEMMA TopLeaves ==
    ASSUME ChainInv, NEW t \in Txs, NEW c \in Conns, home[t] = c, root[c] # t,
           active[t] => nested[c] = t,
           NEW f, f => ~InTransaction(c)
    PROVE  /\ ManagerCommit(c, t, f) => HandsDown(t)
           /\ ManagerRollback(c, t, f) => Drops({t})
           /\ Collected(t) = IF t \in recorded THEN cbs[t] ELSE {}
           /\ Batch(t) = {}
<1>0. recorded \subseteq Txs /\ NoTx \notin Txs /\ cbs \in [Txs -> SUBSET Callbacks]
  BY SessionAssumption DEF ChainInv, AloneInv, Begun, TypeInv, TypeOK
<1>1. /\ Detached(t) = {t} \cap recorded
      /\ t \in recorded => Heir(t) = Below(t) /\ Below(t) \in recorded /\ Below(t) # t
                           /\ Below(t) \in Txs /\ home[Below(t)] = c /\ Below(t) < t
      /\ t \notin recorded => Heir(t) = NoTx
  BY <1>0, DetachedTop, TxsAreNumbers
<1>2. f => recorded \ OnConn(c) = recorded /\ t \notin recorded
  <2>1. \A u \in recorded : home[u] = c => InTransaction(c)
    BY <1>0 DEF ChainInv, Records, InTransaction, AloneInv, NoSurvivors
  <2> QED BY <2>1 DEF OnConn
<1>3. t \in recorded => up[t] # {}
  BY <1>0, <1>1 DEF ChainInv, Records
<1>4. Collected(t) = IF t \in recorded THEN cbs[t] ELSE {}
  BY <1>1 DEF Collected
<1>5. ASSUME ManagerCommit(c, t, f) PROVE HandsDown(t)
  <2>1. recorded' = recorded \ {t} /\ UNCHANGED up
    BY <1>1, <1>2, <1>3, <1>5 DEF ManagerCommit
  <2>2. ASSUME NEW u \in Txs
        PROVE  cbs'[u] = IF u \notin recorded' THEN {}
                         ELSE cbs[u] \cup (IF t \in recorded /\ u = Below(t) THEN cbs[t] ELSE {})
    BY <1>0, <1>1, <1>4, <1>5 DEF ManagerCommit
  <2> QED BY <2>1, <2>2 DEF HandsDown
<1>6. ASSUME ManagerRollback(c, t, f) PROVE Drops({t})
  <2>1. recorded \ (Detached(t) \cup (IF f THEN OnConn(c) ELSE {})) = recorded \ {t}
    BY <1>1, <1>2
  <2> QED BY <1>6, <2>1 DEF ManagerRollback, Drops
<1>7. Batch(t) = {}
  BY <1>0, <1>1, <1>4 DEF Batch
<1> QED BY <1>4, <1>5, <1>6, <1>7

Ending(p) == FinishCommit(p) \/ FailCommit(p) \/ FinishRollback(p) \/ FailRollback(p)

LEMMA Ended ==
    ASSUME ChainInv, NEW p \in Tasks, Ending(p), NEW t, t = arg[p].tx, NEW c, c = home[t]
    PROVE  /\ t \in Txs /\ c \in Conns /\ Winds(c) /\ Names(p, c)
           /\ conn[c] # "closed" => ~Closing(c)
           /\ root[c] = t => ~InTransaction(c)' /\ Drops(OnConn(c))
           /\ root[c] # t => /\ active[t] => nested[c] = t
                             /\ root' = root
                             /\ \A u \in Txs : active'[u] <=> active[u] /\ u # t
                             /\ nested'[c] = nested[c] \/ (nested[c] = t /\ nested'[c] = prev[t])
                             /\ FinishCommit(p) => HandsDown(t)
                             /\ ~FinishCommit(p) => Drops({t})
<1>1. c \in Conns /\ Winds(c) /\ Names(p, c)
  BY EndsReleased DEF Ending, ChainInv, AloneInv
<1>2. t \in Txs /\ pc[p] \in {"commit", "rollback"} /\ SessionTypeOK
  BY Works DEF Ending, FinishCommit, FailCommit, FinishRollback, FailRollback, ChainInv, AloneInv, Begun,
               TypeInv, TypeOK
<1>3. CommitOk(t) \/ CommitFails(t) \/ RollbackOk(t) \/ RollbackFails(t)
  BY DEF Ending, FinishCommit, FailCommit, FinishRollback, FailRollback
<1>4. FinishCommit(p) => ManagerCommit(c, t, ~StaysIn(c))
  BY DEF FinishCommit
<1>5. Ending(p) => FinishCommit(p) \/ ManagerRollback(c, t, FALSE) \/ ManagerRollback(c, t, ~StaysIn(c))
  BY DEF Ending, FailCommit, FinishRollback, FailRollback, AfterRollback
<1>6. root[c] = t => ~InTransaction(c)' /\ Drops(OnConn(c))
  BY <1>1, <1>2, <1>3, <1>4, <1>5, RootEnds, RootLeaves
<1>7. ASSUME root[c] # t
      PROVE  /\ active[t] => nested[c] = t
             /\ root' = root
             /\ \A u \in Txs : active'[u] <=> active[u] /\ u # t
             /\ nested'[c] = nested[c] \/ (nested[c] = t /\ nested'[c] = prev[t])
             /\ FinishCommit(p) => HandsDown(t)
             /\ ~FinishCommit(p) => Drops({t})
  <2>1. active[t] => nested[c] = t
    BY <1>2, <1>7 DEF ChainInv, Top, Innermost
  <2>2. /\ root' = root
        /\ \A u \in Txs : active'[u] <=> active[u] /\ u # t
        /\ nested'[c] = nested[c] \/ (nested[c] = t /\ nested'[c] = prev[t])
    BY <1>1, <1>2, <1>3, <1>7, TopEnds
  <2>3. ~StaysIn(c) => ~InTransaction(c)
    BY <1>1, <1>2, <1>7, <2>2 DEF StaysIn, InTransaction, SessionTypeOK
  <2>4. FinishCommit(p) => HandsDown(t)
    BY <1>1, <1>2, <1>4, <1>7, <2>1, <2>3, TopLeaves
  <2>5. ~FinishCommit(p) => Drops({t})
    BY <1>1, <1>2, <1>5, <1>7, <2>1, <2>3, TopLeaves
  <2> QED BY <2>1, <2>2, <2>4, <2>5
<1>8. conn[c] # "closed" => ~Closing(c)
  BY <1>1, <1>2 DEF Closing, Names, ChainInv, AloneInv, Apart
<1> QED BY <1>1, <1>2, <1>6, <1>7, <1>8

-----------------------------------------------------------------------------
(* A step that takes records off connection c: all of them with the last use *)
(* of the connection, or the one of its innermost savepoint x.               *)
Sheds(c, x) ==
    /\ UNCHANGED <<home, prev, up>>
    /\ \A u \in Txs : active'[u] => active[u]
    /\ \A d \in Conns \ {c} : conn'[d] = conn[d] /\ root'[d] = root[d] /\ nested'[d] = nested[d]
    /\ \A u \in Txs : home[u] # c => active'[u] = active[u]
    /\ \A d \in Conns \ {c} : Closing(d) => Closing(d)'
    /\ conn'[c] = "closed" => conn[c] = "closed" \/ \A u \in OnConn(c) : ~active'[u]
    /\ \/ /\ recorded' = recorded \ OnConn(c)
          /\ conn'[c] # "open" \/ ~InTransaction(c)' \/ Closing(c)'
       \/ /\ recorded' = recorded \ {x}
          /\ x \in Txs /\ home[x] = c /\ root[c] # x /\ (active[x] => nested[c] = x)
          /\ root'[c] = root[c]
          /\ \A u \in Txs : active'[u] <=> active[u] /\ u # x
          /\ nested'[c] = nested[c] \/ (nested[c] = x /\ nested'[c] = prev[x])
          /\ conn'[c] = "open" => conn[c] = "open"
          /\ Closing(c) => Closing(c)'

LEMMA RecordsShed ==
    ASSUME ChainInv, SessionTypeOK', NEW c \in Conns, NEW x, Sheds(c, x)
    PROVE  Records'
<1>0. /\ recorded \subseteq Txs /\ NoTx \notin Txs /\ SessionTypeOK /\ recorded' \subseteq recorded
      /\ \A u \in recorded : home[u] \in Conns
  <2>1. recorded \subseteq Txs /\ NoTx \notin Txs /\ SessionTypeOK
    BY SessionAssumption DEF ChainInv, AloneInv, Begun, TypeInv, TypeOK
  <2>2. recorded' \subseteq recorded
    BY DEF Sheds
  <2>3. \A u \in recorded : home[u] \in Conns
    BY <2>1 DEF ChainInv, AloneInv, Begun, Named, SessionTypeOK
  <2> QED BY <2>1, <2>2, <2>3
<1>a. UNCHANGED <<home, prev, up>>
  BY DEF Sheds
<1>b. /\ \A t \in recorded : active[t] /\ root[home[t]] \in recorded /\ t <= Innermost(home[t])
      /\ \A t \in recorded : up[t] = {u \in recorded : home[u] = home[t] /\ u < t}
      /\ \A t \in Txs, u \in recorded : home[t] = home[u] /\ u < t => u <= Below(t)
      /\ \A t \in recorded : t # root[home[t]] =>
           Below(t) \in recorded /\ Below(t) < t /\ home[Below(t)] = home[t]
      /\ \A t \in Txs : active[t] /\ InTransaction(home[t]) /\ conn[home[t]] = "open"
           /\ ~Closing(home[t]) => t \in recorded
  BY DEF ChainInv, Records
<1>c. \A t \in Txs : active[t] => home[t] \in Conns
  BY <1>0 DEF ChainInv, AloneInv, Begun, Placed, SessionTypeOK
<1>d. \A d \in Conns \ {c} : /\ conn'[d] = conn[d] /\ root'[d] = root[d] /\ nested'[d] = nested[d]
                             /\ Closing(d) => Closing(d)'
  BY DEF Sheds
<1>e. \A u \in Txs : active'[u] => active[u]
  BY DEF Sheds
<1>f. \A d \in Conns \ {c} : InTransaction(d)' => InTransaction(d)
  BY <1>0, <1>d, <1>e DEF InTransaction, SessionTypeOK
<1>g. \A u \in Txs : home[u] # c => active'[u] = active[u]
  BY DEF Sheds
<1>1. CASE recorded' = recorded \ OnConn(c) /\ (conn'[c] # "open" \/ ~InTransaction(c)' \/ Closing(c)')
  <2>1. \A t \in recorded' : t \in recorded /\ home[t] # c /\ root'[home[t]] = root[home[t]]
                             /\ nested'[home[t]] = nested[home[t]]
    BY <1>0, <1>1, <1>d DEF OnConn
  <2>2. \A t \in recorded, u \in recorded' : home[t] = home[u] => t \in recorded'
    BY <1>0, <1>1 DEF OnConn
  <2>3. \A t \in recorded : home[root[home[t]]] = home[t]
    BY <1>0 DEF ChainInv, AloneInv, NoSurvivors, Begun, Placed
  <2>4. \A t \in recorded' : active'[t] /\ root'[home'[t]] \in recorded' /\ t <= Innermost(home[t])'
    BY <1>0, <1>a, <1>b, <1>g, <2>1, <2>2, <2>3 DEF Innermost
  <2>5. \A t \in recorded' : up'[t] = {u \in recorded' : home'[u] = home'[t] /\ u < t}
    BY <1>0, <1>a, <1>b, <2>1, <2>2
  <2>6. \A t \in Txs, u \in recorded' : home'[t] = home'[u] /\ u < t => u <= Below(t)'
    BY <1>a, <1>b, <2>1 DEF Below
  <2>7. \A t \in recorded' : t # root'[home'[t]] =>
          Below(t)' \in recorded' /\ Below(t)' < t /\ home'[Below(t)'] = home'[t]
    BY <1>a, <1>b, <2>1, <2>2 DEF Below
  <2>8. \A t \in Txs : active'[t] /\ InTransaction(home[t])' /\ conn'[home'[t]] = "open"
           /\ ~Closing(home[t])' => t \in recorded'
    <3> SUFFICES ASSUME NEW t \in Txs, NEW d \in Conns, d = home[t], active'[t], InTransaction(d)',
                        conn'[d] = "open", ~Closing(d)'
                 PROVE  t \in recorded'
      BY <1>a, <1>c, <1>e
    <3>1. d # c
      BY <1>1
    <3>2. t \in recorded
      BY <1>b, <1>d, <1>e, <1>f, <3>1
    <3> QED BY <1>1, <3>1, <3>2 DEF OnConn
  <2> QED BY <1>a, <2>4, <2>5, <2>6, <2>7, <2>8 DEF Records
<1>2. CASE /\ recorded' = recorded \ {x}
           /\ x \in Txs /\ home[x] = c /\ root[c] # x /\ (active[x] => nested[c] = x)
           /\ root'[c] = root[c]
           /\ \A u \in Txs : active'[u] <=> active[u] /\ u # x
           /\ nested'[c] = nested[c] \/ (nested[c] = x /\ nested'[c] = prev[x])
           /\ conn'[c] = "open" => conn[c] = "open"
           /\ Closing(c) => Closing(c)'
  <2>0. \A d \in Conns : root'[d] = root[d]
    BY <1>2, <1>d
  <2>1. \A u \in recorded : home[u] = c /\ x \in recorded => u <= x
    BY <1>0, <1>2, DetachedTop
  <2>2. \A t \in Txs : home[t] \in Conns => Below(t)' = Below(t)
    BY <1>0, <1>a, <2>0 DEF Below
  <2>3. \A t \in recorded' : root[home[t]] # x
    <3>1. home[x] = c /\ root[c] # x
      BY <1>2
    <3>2. \A t \in recorded : root[home[t]] # NoTx => home[root[home[t]]] = home[t]
      BY <1>0 DEF ChainInv, AloneInv, Begun, Placed
    <3> QED BY <1>0, <1>2, <3>1, <3>2
  <2>4. \A t \in recorded' : t <= Innermost(home[t])'
    <3> TAKE t \in recorded'
    <3>1. t <= Innermost(home[t]) /\ t # x
      BY <1>0, <1>2, <1>b
    <3>2. CASE nested'[home[t]] = nested[home[t]]
      BY <1>0, <2>0, <1>a, <3>1, <3>2 DEF Innermost
    <3>3. CASE home[t] = c /\ nested[c] = x /\ nested'[c] = prev[x]
      <4>1. Innermost(c) = x
        BY <1>0, <1>2, <3>3 DEF Innermost
      <4>2. t < x
        BY <1>0, <1>2, <3>1, <3>3, <4>1, TxsAreNumbers
      <4>3. t <= Below(x)
        BY <1>0, <1>2, <1>b, <3>3, <4>2
      <4>4. Innermost(c)' = Below(x)
        BY <1>2, <2>0, <3>3 DEF Innermost, Below
      <4> QED BY <1>a, <3>3, <4>3, <4>4
    <3> QED BY <1>0, <1>2, <1>d, <3>2, <3>3
  <2>5. \A t \in recorded' : active'[t] /\ root'[home'[t]] \in recorded'
    BY <1>0, <1>2, <1>a, <1>b, <2>0, <2>3
  <2>6. \A t \in recorded' : up'[t] = {u \in recorded' : home'[u] = home'[t] /\ u < t}
    <3> TAKE t \in recorded'
    <3>1. x \in recorded /\ home[x] = home[t] => ~(x < t)
      BY <1>0, <1>2, <2>1, TxsAreNumbers
    <3> QED BY <1>0, <1>2, <1>a, <1>b, <3>1
  <2>7. \A t \in Txs, u \in recorded' : home'[t] = home'[u] /\ u < t => u <= Below(t)'
    BY <1>0, <1>a, <1>b, <2>2
  <2>8. \A t \in recorded' : t # root'[home'[t]] =>
          Below(t)' \in recorded' /\ Below(t)' < t /\ home'[Below(t)'] = home'[t]
    <3> SUFFICES ASSUME NEW t \in recorded', t # root[home[t]]
                 PROVE  Below(t) \in recorded' /\ Below(t) < t /\ home[Below(t)] = home[t]
      BY <1>0, <1>a, <2>0, <2>2
    <3>1. Below(t) \in recorded /\ Below(t) < t /\ home[Below(t)] = home[t]
      BY <1>0, <1>b
    <3>2. Below(t) # x
      BY <1>0, <1>2, <2>1, <3>1, TxsAreNumbers
    <3> QED BY <1>2, <3>1, <3>2
  <2>9. \A t \in Txs : active'[t] /\ InTransaction(home[t])' /\ conn'[home'[t]] = "open"
           /\ ~Closing(home[t])' => t \in recorded'
    <3> SUFFICES ASSUME NEW t \in Txs, NEW d \in Conns, d = home[t], active'[t], InTransaction(d)',
                        conn'[d] = "open", ~Closing(d)'
                 PROVE  t \in recorded'
      BY <1>a, <1>c, <1>e
    <3>1. InTransaction(d) /\ conn[d] = "open" /\ ~Closing(d)
      BY <1>0, <1>2, <1>d, <1>e, <2>0 DEF InTransaction, SessionTypeOK
    <3> QED BY <1>2, <1>b, <3>1
  <2> QED BY <1>a, <2>4, <2>5, <2>6, <2>7, <2>8, <2>9 DEF Records
<1> QED BY <1>1, <1>2 DEF Sheds

(* A step that begins a root, or a savepoint in the innermost transaction.   *)
StartsRoot(c, t) ==
    /\ Begins(c, t) /\ UNCHANGED prev
    /\ root[c] = NoTx /\ root'[c] = t /\ nested[c] = NoTx /\ nested'[c] = NoTx /\ active'[t]
    /\ recorded' = {t} \cup (recorded \ OnConn(c))
    /\ up'[t] = {} /\ \A u \in Txs \ {t} : up'[u] = up[u]
    /\ conn[c] = "free" \/ conn'[c] # "open"
    /\ conn'[c] # "closed"
    /\ \A d \in Conns : Closing(d) => Closing(d)'

StartsNested(c, t) ==
    /\ Begins(c, t) /\ UNCHANGED <<conn, root>>
    /\ conn[c] = "open" /\ Usable(c) /\ ~Closing(c)
    /\ nested'[c] = t /\ prev'[t] = nested[c] /\ active'[t]
    /\ recorded' = {t} \cup recorded
    /\ up'[t] = (IF Innermost(c) \in recorded THEN {Innermost(c)} \cup up[Innermost(c)] ELSE {})
    /\ \A u \in Txs \ {t} : up'[u] = up[u]
    /\ \A d \in Conns : Closing(d) => Closing(d)'

LEMMA Newest ==
    ASSUME Begun, NEW c \in Conns, NEW t \in Txs, Begins(c, t)
    PROVE  /\ \A u \in Txs : home[u] # NoConn => u # t /\ u < t /\ ~(t < u) /\ home'[u] = home[u]
           /\ \A u \in Txs \ {t} : /\ home'[u] = home[u] /\ active'[u] = active[u]
                                   /\ fate'[u] = fate[u] /\ prev'[u] = prev[u]
           /\ home[t] = NoConn /\ home'[t] = c /\ c # NoConn /\ t \notin recorded /\ ~active[t]
           /\ \A u \in recorded : u \in Txs /\ home[u] \in Conns /\ u < t /\ u # t
           /\ \A d \in Conns : root[d] # t /\ nested[d] # t
<1>0. SessionTypeOK /\ recorded \subseteq Txs /\ \A u \in Txs : u \in Nat /\ u # NoTx
  BY TxsAreNumbers DEF Begun, TypeInv, TypeOK
<1>1. home[t] = NoConn /\ home'[t] = c /\ c # NoConn
  BY SessionAssumption DEF Begins
<1>2. \A u \in Txs : home[u] # NoConn => u < t
  BY <1>1 DEF Begun, Placed
<1>3. \A u \in Txs \ {t} : /\ home'[u] = home[u] /\ active'[u] = active[u]
                           /\ fate'[u] = fate[u] /\ prev'[u] = prev[u]
  BY DEF Begins
<1>4. \A u \in recorded : home[u] # NoConn
  BY DEF Begun, Named
<1>5. ~active[t] /\ \A d \in Conns : root[d] # t /\ nested[d] # t
  BY <1>0, <1>1, SessionAssumption DEF Begun, Placed
<1>6. \A u \in Txs : home[u] # NoConn => u # t /\ u < t /\ ~(t < u) /\ home'[u] = home[u]
  BY <1>0, <1>1, <1>2, <1>3
<1>7. \A u \in recorded : u \in Txs /\ home[u] \in Conns /\ u < t /\ u # t
  BY <1>0, <1>4, <1>6 DEF SessionTypeOK
<1> QED BY <1>1, <1>3, <1>4, <1>5, <1>6, <1>7

LEMMA RecordsRoot ==
    ASSUME ChainInv, SessionTypeOK', NEW c \in Conns, NEW t \in Txs, StartsRoot(c, t)
    PROVE  Records'
<1>a. /\ \A u \in Txs : home[u] # NoConn => u # t /\ u < t /\ ~(t < u) /\ home'[u] = home[u]
      /\ \A u \in Txs \ {t} : /\ home'[u] = home[u] /\ active'[u] = active[u] /\ prev'[u] = prev[u]
      /\ home[t] = NoConn /\ home'[t] = c /\ c # NoConn /\ t \notin recorded /\ ~active[t]
      /\ \A u \in recorded : u \in Txs /\ home[u] \in Conns /\ u < t /\ u # t
      /\ \A d \in Conns : root[d] # t /\ nested[d] # t
  BY Newest DEF StartsRoot, ChainInv, AloneInv
<1>b. /\ \A u \in recorded : active[u] /\ root[home[u]] \in recorded /\ u <= Innermost(home[u])
      /\ \A u \in recorded : up[u] = {v \in recorded : home[v] = home[u] /\ v < u}
      /\ \A u \in Txs, v \in recorded : home[u] = home[v] /\ v < u => v <= Below(u)
      /\ \A u \in recorded : u # root[home[u]] =>
           Below(u) \in recorded /\ Below(u) < u /\ home[Below(u)] = home[u]
      /\ \A u \in Txs : active[u] /\ InTransaction(home[u]) /\ conn[home[u]] = "open"
           /\ ~Closing(home[u]) => u \in recorded
  BY DEF ChainInv, Records
<1>c. \A u \in recorded : home[u] # c
  BY DEF ChainInv, AloneInv, NoSurvivors, StartsRoot
<1>d. recorded' = {t} \cup recorded
  BY <1>a, <1>c DEF StartsRoot, OnConn
<1>e. \A d \in Conns \ {c} : root'[d] = root[d] /\ nested'[d] = nested[d] /\ conn'[d] = conn[d]
  BY DEF StartsRoot, Begins
<1>f. root'[c] = t /\ nested'[c] = NoTx /\ active'[t] /\ up'[t] = {} /\ UNCHANGED prev
      /\ \A u \in Txs \ {t} : up'[u] = up[u]
  BY DEF StartsRoot
<1>g. t \in Nat /\ \A u \in Txs : u \in Nat
  BY TxsAreNumbers
<1>h. \A u \in recorded' : u = t \/ (u \in recorded /\ u # t /\ home'[u] = home[u] /\ home[u] \in Conns \ {c})
  BY <1>a, <1>c, <1>d
<1>i. prev[t] = NoTx
  BY <1>a DEF ChainInv, AloneInv, Begun, Placed
<1>j. \A u \in Txs : home'[u] \in Conns \ {c} => u # t /\ home'[u] = home[u] /\ Below(u)' = Below(u)
  BY <1>a, <1>e, <1>f DEF Below
<1>1. \A u \in recorded' : active'[u] /\ root'[home'[u]] \in recorded' /\ u <= Innermost(home[u])'
  <2> TAKE u \in recorded'
  <2>1. CASE u = t
    BY <1>a, <1>d, <1>f, <1>g, <2>1 DEF Innermost
  <2>2. CASE u # t
    BY <1>a, <1>b, <1>d, <1>e, <1>h, <2>2 DEF Innermost
  <2> QED BY <2>1, <2>2
<1>2. \A u \in recorded' : up'[u] = {v \in recorded' : home'[v] = home'[u] /\ v < u}
  <2> TAKE u \in recorded'
  <2>1. CASE u = t
    <3>1. \A v \in recorded' : home'[v] = c => ~(v < t)
      BY <1>g, <1>h
    <3> QED BY <1>a, <1>f, <2>1, <3>1
  <2>2. CASE u # t
    <3>1. u \in recorded /\ home'[u] = home[u] /\ home[u] # c /\ u \in Txs
      BY <1>a, <1>h, <2>2
    <3>2. \A v : v \in recorded' /\ home'[v] = home[u] <=> v \in recorded /\ home[v] = home[u]
      BY <1>a, <1>d, <1>h, <3>1
    <3> QED BY <1>b, <1>f, <2>2, <3>1, <3>2
  <2> QED BY <2>1, <2>2
<1>3. \A u \in Txs, v \in recorded' : home'[u] = home'[v] /\ v < u => v <= Below(u)'
  <2> SUFFICES ASSUME NEW u \in Txs, NEW v \in recorded', home'[u] = home'[v], v < u PROVE v <= Below(u)'
    OBVIOUS
  <2>1. v # t
    <3>1. v = t => home'[u] = c /\ t < u
      BY <1>a
    <3>2. home'[u] = c /\ t < u => home[u] = c /\ u # t
      BY <1>a, <1>g
    <3> QED BY <1>a, <3>1, <3>2
  <2>2. v \in recorded /\ home[v] \in Conns \ {c} /\ home'[v] = home[v]
    BY <1>h, <2>1
  <2>3. home[u] = home[v] /\ Below(u)' = Below(u)
    BY <1>j, <2>2
  <2> QED BY <1>b, <2>2, <2>3
<1>4. \A u \in recorded' : u # root'[home'[u]] =>
        Below(u)' \in recorded' /\ Below(u)' < u /\ home'[Below(u)'] = home'[u]
  <2> SUFFICES ASSUME NEW u \in recorded', u # root'[home'[u]]
               PROVE  Below(u)' \in recorded' /\ Below(u)' < u /\ home'[Below(u)'] = home'[u]
    OBVIOUS
  <2>1. u # t
    BY <1>a, <1>f
  <2>2. u \in recorded /\ home[u] \in Conns \ {c} /\ home'[u] = home[u] /\ u \in Txs
    BY <1>a, <1>h, <2>1
  <2>3. Below(u)' = Below(u) /\ root'[home[u]] = root[home[u]]
    BY <1>e, <1>j, <2>2
  <2>4. Below(u) \in recorded /\ Below(u) < u /\ home[Below(u)] = home[u]
    BY <1>b, <2>2, <2>3
  <2> QED BY <1>a, <1>d, <2>2, <2>3, <2>4
<1>5. \A u \in Txs : active'[u] /\ InTransaction(home[u])' /\ conn'[home'[u]] = "open"
         /\ ~Closing(home[u])' => u \in recorded'
  <2> SUFFICES ASSUME NEW u \in Txs, NEW d, d = home'[u], active'[u], InTransaction(d)',
                      conn'[d] = "open", ~Closing(d)', u # t
               PROVE  u \in recorded
    BY <1>d
  <2>1. active[u] /\ home[u] = d
    BY <1>a
  <2>2. d \in Conns
    BY <2>1 DEF ChainInv, AloneInv, Begun, Placed, TypeInv, TypeOK, SessionTypeOK
  <2>3. d # c
    BY <1>a, <2>1, <2>2 DEF StartsRoot, ChainInv, AloneInv, Begun, Placed
  <2>4. root'[d] = root[d] /\ conn'[d] = conn[d] /\ ~Closing(d)
    BY <1>e, <2>2, <2>3 DEF StartsRoot
  <2>5. InTransaction(d)
    <3>1. root[d] # NoTx /\ active'[root[d]]
      BY <2>4 DEF InTransaction
    <3>2. root[d] \in Txs /\ root[d] # t
      BY <1>a, <2>2, <3>1 DEF ChainInv, AloneInv, Begun, TypeInv, TypeOK, SessionTypeOK
    <3> QED BY <1>a, <3>1, <3>2 DEF InTransaction
  <2> QED BY <1>b, <2>1, <2>4, <2>5
<1> QED BY <1>1, <1>2, <1>3, <1>4, <1>5 DEF Records

LEMMA RecordsNested ==
    ASSUME ChainInv, SessionTypeOK', NEW c \in Conns, NEW t \in Txs, StartsNested(c, t)
    PROVE  Records'
<1> DEFINE i == Innermost(c)
<1>a. /\ \A u \in Txs : home[u] # NoConn => u # t /\ u < t /\ ~(t < u) /\ home'[u] = home[u]
      /\ \A u \in Txs \ {t} : /\ home'[u] = home[u] /\ active'[u] = active[u] /\ prev'[u] = prev[u]
      /\ home[t] = NoConn /\ home'[t] = c /\ c # NoConn /\ t \notin recorded /\ ~active[t]
      /\ \A u \in recorded : u \in Txs /\ home[u] \in Conns /\ u < t /\ u # t
      /\ \A d \in Conns : root[d] # t /\ nested[d] # t
  BY Newest DEF StartsNested, ChainInv, AloneInv
<1>b. /\ \A u \in recorded : active[u] /\ root[home[u]] \in recorded /\ u <= Innermost(home[u])
      /\ \A u \in recorded : up[u] = {v \in recorded : home[v] = home[u] /\ v < u}
      /\ \A u \in Txs, v \in recorded : home[u] = home[v] /\ v < u => v <= Below(u)
      /\ \A u \in recorded : u # root[home[u]] =>
           Below(u) \in recorded /\ Below(u) < u /\ home[Below(u)] = home[u]
      /\ \A u \in Txs : active[u] /\ InTransaction(home[u]) /\ conn[home[u]] = "open"
           /\ ~Closing(home[u]) => u \in recorded
  BY DEF ChainInv, Records
<1>c. /\ UNCHANGED <<conn, root>> /\ recorded' = {t} \cup recorded /\ nested'[c] = t /\ active'[t]
      /\ \A u \in Txs \ {t} : up'[u] = up[u]
      /\ \A d \in Conns \ {c} : nested'[d] = nested[d]
  BY DEF StartsNested, Begins
<1>d. SessionTypeOK /\ t \in Nat /\ t # NoTx /\ \A u \in Txs : u \in Nat
  BY TxsAreNumbers DEF ChainInv, AloneInv, Begun, TypeInv, TypeOK
<1>e. i \in recorded /\ home[i] = c /\ i < t /\ i # t /\ i \in Txs
  <2>1. i \in Txs /\ active[i] /\ home[i] = c
    BY <1>d DEF StartsNested, Usable, InTransaction, Innermost, SessionTypeOK, ChainInv, AloneInv, Begun, Placed
  <2>2. i \in recorded
    BY <1>b, <2>1 DEF StartsNested, Usable
  <2> QED BY <1>a, <2>1, <2>2
<1>f. Below(t)' = i
  BY <1>a, <1>c DEF Below, Innermost, StartsNested
<1>g. \A u \in Txs \ {t} : Below(u)' = Below(u)
  BY <1>a, <1>c DEF Below
<1>h. up'[t] = {i} \cup up[i]
  BY <1>e DEF StartsNested
<1>j. \A d \in Conns : Innermost(d)' = IF d = c THEN t ELSE Innermost(d)
  BY <1>c, <1>d DEF Innermost
<1> HIDE DEF i
<1>1. \A u \in recorded' : active'[u] /\ root'[home'[u]] \in recorded' /\ u <= Innermost(home[u])'
  <2> TAKE u \in recorded'
  <2>1. CASE u = t
    <3>1. root[c] \in recorded
      BY <1>b, <1>e
    <3>2. home'[t] = c /\ u = t
      BY <1>a, <2>1
    <3>3. Innermost(home[u])' = t
      BY <1>j, <3>2
    <3> QED BY <1>c, <1>d, <3>1, <3>2, <3>3
  <2>2. CASE u # t
    <3>1. u \in recorded /\ u \in Txs /\ home'[u] = home[u] /\ home[u] \in Conns /\ u < t
      BY <1>a, <1>c, <2>2
    <3>2. Innermost(home[u])' = IF home[u] = c THEN t ELSE Innermost(home[u])
      BY <1>j, <3>1
    <3>3. u <= Innermost(home[u])'
      BY <1>b, <1>d, <3>1, <3>2
    <3> QED BY <1>a, <1>b, <1>c, <2>2, <3>1, <3>3
  <2> QED BY <2>1, <2>2
<1>2. \A u \in recorded' : up'[u] = {v \in recorded' : home'[v] = home'[u] /\ v < u}
  <2> TAKE u \in recorded'
  <2>1. CASE u = t
    <3>1. up[i] = {v \in recorded : home[v] = c /\ v < i}
      BY <1>b, <1>e
    <3>2. \A v \in recorded : home[v] = c => v <= i
      BY <1>b DEF i
    <3>3. \A v \in recorded : home[v] = c => v = i \/ v < i
      BY <1>a, <1>d, <1>e, <3>2
    <3>4. \A v : v \in recorded' /\ home'[v] = c /\ v < t <=> v \in recorded /\ home[v] = c
      <4>1. ~(t < t)
        BY <1>d
      <4>2. \A v \in recorded : v # t /\ v < t /\ home'[v] = home[v]
        BY <1>a
      <4> QED BY <1>c, <4>1, <4>2
    <3>5. \A v : v \in up'[t] <=> v \in recorded /\ home[v] = c
      BY <1>e, <1>h, <3>1, <3>3
    <3> QED BY <1>a, <2>1, <3>4, <3>5, <1>h, <3>1
  <2>2. CASE u # t
    <3>1. u \in recorded /\ u \in Txs /\ home'[u] = home[u] /\ u < t
      BY <1>a, <1>c, <2>2
    <3>2. \A v : v \in recorded' /\ home'[v] = home[u] /\ v < u <=> v \in recorded /\ home[v] = home[u] /\ v < u
      BY <1>a, <1>c, <1>d, <3>1
    <3> QED BY <1>b, <1>c, <2>2, <3>1, <3>2
  <2> QED BY <2>1, <2>2
<1>3. \A u \in Txs, v \in recorded' : home'[u] = home'[v] /\ v < u => v <= Below(u)'
  <2> SUFFICES ASSUME NEW u \in Txs, NEW v \in recorded', home'[u] = home'[v], v < u PROVE v <= Below(u)'
    OBVIOUS
  <2>1. CASE u = t
    <3>1. v \in recorded /\ home[v] = c
      BY <1>a, <1>c, <1>d, <2>1
    <3> QED BY <1>b, <1>f, <2>1, <3>1 DEF i
  <2>2. CASE u # t
    <3>1. v # t
      <4>1. v = t => home'[u] = c /\ home'[u] = home[u] /\ t < u
        BY <1>a, <2>2
      <4> QED BY <1>a, <4>1
    <3> QED BY <1>a, <1>b, <1>c, <1>g, <2>2, <3>1
  <2> QED BY <2>1, <2>2
<1>4. \A u \in recorded' : u # root'[home'[u]] =>
        Below(u)' \in recorded' /\ Below(u)' < u /\ home'[Below(u)'] = home'[u]
  <2> SUFFICES ASSUME NEW u \in recorded', u # root'[home'[u]]
               PROVE  Below(u)' \in recorded' /\ Below(u)' < u /\ home'[Below(u)'] = home'[u]
    OBVIOUS
  <2>1. CASE u = t
    <3>1. home'[i] = c
      BY <1>a, <1>e
    <3> QED BY <1>a, <1>c, <1>e, <1>f, <2>1, <3>1
  <2>2. CASE u # t
    <3>1. u \in recorded /\ u \in Txs /\ home'[u] = home[u] /\ Below(u)' = Below(u)
      BY <1>a, <1>c, <1>g, <2>2
    <3>2. Below(u) \in recorded /\ Below(u) < u /\ home[Below(u)] = home[u]
      BY <1>b, <1>c, <3>1
    <3> QED BY <1>a, <1>c, <3>1, <3>2
  <2> QED BY <2>1, <2>2
<1>5. \A u \in Txs : active'[u] /\ InTransaction(home[u])' /\ conn'[home'[u]] = "open"
         /\ ~Closing(home[u])' => u \in recorded'
  <2> SUFFICES ASSUME NEW u \in Txs, NEW d, d = home'[u], active'[u], InTransaction(d)',
                      conn'[d] = "open", ~Closing(d)', u # t
               PROVE  u \in recorded
    BY <1>c
  <2>1. active[u] /\ home[u] = d
    BY <1>a
  <2>2. d \in Conns
    BY <2>1 DEF ChainInv, AloneInv, Begun, Placed, TypeInv, TypeOK, SessionTypeOK
  <2>4. root'[d] = root[d] /\ conn'[d] = conn[d] /\ ~Closing(d)
    BY <1>c, <2>2 DEF StartsNested
  <2>5. InTransaction(d)
    <3>1. root[d] # NoTx /\ active'[root[d]]
      BY <2>4 DEF InTransaction
    <3>2. root[d] \in Txs /\ root[d] # t
      BY <1>a, <1>d, <2>2, <3>1 DEF SessionTypeOK
    <3> QED BY <1>a, <3>1, <3>2 DEF InTransaction
  <2> QED BY <1>b, <2>1, <2>4, <2>5
<1> QED BY <1>1, <1>2, <1>3, <1>4, <1>5 DEF Records

-----------------------------------------------------------------------------
(* A step that neither begins nor ends a transaction, nor forgets records.   *)
Rests ==
    /\ UNCHANGED <<home, root, nested, prev, active, recorded, up>>
    /\ \A d \in Conns : Closing(d) => Closing(d)'
    /\ \A d \in Conns : /\ conn'[d] = "open" => conn[d] \in {"open", "free"}
                        /\ conn'[d] = "closed" => conn[d] = "closed"

Shaped == \/ Rests
          \/ \E c \in Conns, t \in Txs : StartsRoot(c, t) \/ StartsNested(c, t)
          \/ \E c \in Conns, x \in Txs \cup {NoTx} : Sheds(c, x)

LEMMA Starts ==
    ASSUME ChainInv, NEW p \in Tasks, Step(p), FinishConnect(p) \/ BeginOnConnection(p) \/ FinishSavepoint(p)
    PROVE  \E c \in Conns, t \in Txs : StartsRoot(c, t) \/ StartsNested(c, t)
<1>0. /\ SessionTypeOK /\ recorded \subseteq Txs /\ up \in [Txs -> SUBSET Txs] /\ NoTx \notin Txs
      /\ \A d \in Conns : root[d] \in Txs \cup {NoTx} /\ nested[d] \in Txs \cup {NoTx}
  BY SessionAssumption DEF ChainInv, AloneInv, Begun, TypeInv, TypeOK, SessionTypeOK
<1>1. ~(FinishClose(p) \/ FailClose(p)) /\ \A d \in Conns : Closing(d) => Closing(d)'
  <2>1. pc[p] # "close"
    BY DEF FinishConnect, BeginOnConnection, FinishSavepoint, Idle
  <2>2. ~(FinishClose(p) \/ FailClose(p))
    BY <2>1 DEF FinishClose, FailClose
  <2> QED BY <2>2, ClosingStays DEF ChainInv, AloneInv
<1>2. ASSUME NEW c \in Conns, NEW t \in Txs, NEW parent, ManagerBegin(c, t, parent)
      PROVE  /\ up'[t] = IF parent \in recorded THEN {parent} \cup up[parent] ELSE {}
             /\ \A u \in Txs \ {t} : up'[u] = up[u]
             /\ recorded' = {t} \cup (IF parent = NoTx THEN recorded \ OnConn(c) ELSE recorded)
  BY <1>0, <1>2 DEF ManagerBegin, Keep
<1>3. ASSUME NEW c \in Conns, NEW t \in Txs, ManagerBegin(c, t, NoTx), Begins(c, t), root'[c] = t,
             BeginRoot(c, t), nested[c] = NoTx, conn[c] = "free" \/ conn'[c] # "open", conn'[c] # "closed"
      PROVE  StartsRoot(c, t)
  <2>1. active'[t] /\ UNCHANGED <<prev, nested>> /\ root[c] = NoTx
    BY <1>0, <1>3 DEF BeginRoot, Start, SessionTypeOK
  <2>2. /\ up'[t] = {} /\ \A u \in Txs \ {t} : up'[u] = up[u]
        /\ recorded' = {t} \cup (recorded \ OnConn(c))
    <3>1. NoTx \notin recorded
      BY <1>0
    <3> QED BY <1>2, <1>3, <3>1
  <2> QED BY <1>1, <1>3, <2>1, <2>2 DEF StartsRoot
<1>4. CASE FinishConnect(p)
  <2> PICK c \in Conns, t \in Txs : Connect(c) /\ BeginRoot(c, t) /\ ManagerBegin(c, t, NoTx)
    BY <1>4 DEF FinishConnect
  <2>1. Begins(c, t) /\ conn[c] = "free" /\ root'[c] = t /\ conn'[c] = "open"
    BY <1>0, BeginsOps DEF Connect, SessionTypeOK
  <2>2. nested[c] = NoTx
    <3> SUFFICES ASSUME nested[c] # NoTx PROVE FALSE
      OBVIOUS
    <3>1. home[nested[c]] = c /\ nested[c] \in Txs
      BY <1>0 DEF ChainInv, AloneInv, Begun, Placed
    <3> QED BY <2>1, <3>1, SessionAssumption DEF ChainInv, AloneInv, Begun, Placed
  <2> QED BY <1>3, <2>1, <2>2
<1>5. CASE BeginOnConnection(p)
  <2> PICK c \in Conns : c = Current(p) /\ Names(p, c) /\ conn[c] \notin {"free", "closed"}
    BY <1>5, Works, SessionAssumption DEF BeginOnConnection, Named, ChainInv, AloneInv, Begun, Current
  <2> PICK t \in Txs : BeginRoot(c, t) /\ UNCHANGED conn /\ ManagerBegin(c, t, NoTx)
    BY <1>5 DEF BeginOnConnection
  <2>1. Begins(c, t) /\ root'[c] = t
    BY <1>0, BeginsOps
  <2>2. nested[c] = NoTx /\ root[c] = NoTx
    BY <1>5, SessionAssumption DEF BeginOnConnection, CurrentTx, Innermost
  <2>3. conn[c] # "open"
    <3> SUFFICES ASSUME conn[c] = "open" PROVE FALSE
      OBVIOUS
    <3> PICK q \in Tasks : pc[q] = "close" /\ arg[q].conn = c
      BY <2>2 DEF ChainInv, HeldByTransaction
    <3>1. q = p
      BY DEF Names, ChainInv, AloneInv, Apart
    <3> QED BY <1>5, <3>1 DEF BeginOnConnection, Idle
  <2> QED BY <1>3, <2>1, <2>2, <2>3
<1>6. CASE FinishSavepoint(p)
  <2>0. arg[p].conn \in Conns /\ Names(p, arg[p].conn) /\ pc[p] = "savepoint"
    BY <1>6, Works DEF FinishSavepoint, ChainInv, AloneInv, Begun
  <2> PICK c \in Conns : c = arg[p].conn
    BY <2>0
  <2> PICK t \in Txs : BeginNested(c, t) /\ ManagerBegin(c, t, arg[p].tx)
    BY <1>6 DEF FinishSavepoint
  <2>1. Begins(c, t) /\ UNCHANGED <<conn, root>>
    BY <1>0, BeginsOps
  <2>2. conn[c] = "open" /\ Usable(c) /\ nested'[c] = t /\ prev'[t] = nested[c] /\ active'[t]
    BY <1>0 DEF BeginNested, Start, SessionTypeOK
  <2>3. arg[p].tx = Innermost(c) /\ arg[p].tx # NoTx
    BY <2>0, <2>2 DEF ChainInv, Nests
  <2>4. ~Closing(c)
    <3> SUFFICES ASSUME NEW q \in Tasks, pc[q] = "close", arg[q].conn = c PROVE FALSE
      BY DEF Closing
    <3>1. q = p
      BY <2>0, <2>2 DEF Names, ChainInv, AloneInv, Apart
    <3> QED BY <2>0, <3>1
  <2>5. /\ recorded' = {t} \cup recorded
        /\ up'[t] = (IF Innermost(c) \in recorded THEN {Innermost(c)} \cup up[Innermost(c)] ELSE {})
        /\ \A u \in Txs \ {t} : up'[u] = up[u]
    <3>1. PICK a : a = arg[p].tx
      OBVIOUS
    <3>2. ManagerBegin(c, t, a) /\ a # NoTx /\ a = Innermost(c)
      BY <2>3, <3>1
    <3> QED BY <1>2, <3>2
  <2> QED BY <1>1, <2>1, <2>2, <2>4, <2>5 DEF StartsNested
<1> QED BY <1>4, <1>5, <1>6

LEMMA Ends ==
    ASSUME ChainInv, NEW p \in Tasks, Step(p), Ending(p)
    PROVE  \E c \in Conns, x \in Txs \cup {NoTx} : Sheds(c, x)
<1> PICK t, c : t = arg[p].tx /\ c = home[t]
  OBVIOUS
<1>1. /\ t \in Txs /\ c \in Conns /\ Winds(c)
      /\ root[c] = t => ~InTransaction(c)' /\ Drops(OnConn(c))
      /\ root[c] # t => /\ active[t] => nested[c] = t
                        /\ root' = root
                        /\ \A u \in Txs : active'[u] <=> active[u] /\ u # t
                        /\ nested'[c] = nested[c] \/ (nested[c] = t /\ nested'[c] = prev[t])
                        /\ HandsDown(t) \/ Drops({t})
  BY Ended
<1>2. UNCHANGED <<home, prev>>
  BY <1>1 DEF Winds
<1>3. UNCHANGED up /\ (root[c] = t => recorded' = recorded \ OnConn(c)) /\ (root[c] # t => recorded' = recorded \ {t})
  BY <1>1 DEF Drops, HandsDown, Keep
<1>4. /\ \A u \in Txs : active'[u] => active[u]
      /\ \A d \in Conns \ {c} : conn'[d] = conn[d] /\ root'[d] = root[d] /\ nested'[d] = nested[d]
      /\ \A u \in Txs : home[u] # c => active'[u] = active[u]
  BY <1>1 DEF Winds
<1>5. ~(FinishClose(p) \/ FailClose(p))
  BY DEF Ending, FinishCommit, FailCommit, FinishRollback, FailRollback, FinishClose, FailClose
<1>6. \A d \in Conns : Closing(d) => Closing(d)'
  BY <1>5, ClosingStays DEF ChainInv, AloneInv
<1>7. conn'[c] = "open" => conn[c] = "open"
  BY <1>1 DEF Winds
<1>10. conn'[c] # "closed" \/ conn'[c] = conn[c]
  <2>1. CommitOk(t) \/ CommitFails(t) \/ RollbackOk(t) \/ RollbackFails(t)
    BY DEF Ending, FinishCommit, FailCommit, FinishRollback, FailRollback
  <2>2. UNCHANGED conn \/ \E f : Drop(c, f)
    BY <2>1 DEF CommitOk, CommitFails, RollbackOk, RollbackFails
  <2> QED BY <1>1, <2>2 DEF Drop, ChainInv, AloneInv, Begun, TypeInv, TypeOK, SessionTypeOK
<1>8. CASE root[c] = t
  <2>1. recorded' = recorded \ OnConn(c) /\ ~InTransaction(c)'
    BY <1>1, <1>3, <1>8
  <2>2. Sheds(c, t)
    BY <1>2, <1>3, <1>4, <1>6, <1>10, <2>1 DEF Sheds
  <2> QED BY <1>1, <2>2
<1>9. CASE root[c] # t
  <2>1. Sheds(c, t)
    BY <1>1, <1>2, <1>3, <1>4, <1>6, <1>7, <1>9, <1>10 DEF Sheds
  <2> QED BY <1>1, <2>1
<1> QED BY <1>8, <1>9

LEMMA Forgets ==
    ASSUME ChainInv, NEW p \in Tasks, Step(p), pc[p] # "close", NEW c \in Conns,
           ManagerForget(c), Closing(c)',
           UNCHANGED <<home, root, nested, prev, active>>, \A d \in Conns \ {c} : conn'[d] = conn[d],
           conn'[c] \in {conn[c], "open"}
    PROVE  Sheds(c, NoTx)
<1>1. ~(FinishClose(p) \/ FailClose(p))
  BY DEF FinishClose, FailClose
<1>2. \A d \in Conns : Closing(d) => Closing(d)'
  BY <1>1, ClosingStays DEF ChainInv, AloneInv
<1>3. recorded' = recorded \ OnConn(c) /\ UNCHANGED up
  BY DEF ManagerForget, Keep
<1> QED BY <1>2, <1>3 DEF Sheds

LEMMA Shapes == ASSUME ChainInv, NEW p \in Tasks, Step(p) PROVE Shaped
<1>0. SessionTypeOK /\ recorded \subseteq Txs
  BY DEF ChainInv, AloneInv, Begun, TypeInv, TypeOK
<1>a. \A where, a : Suspend(p, where, a) => pc'[p] = where /\ arg'[p] = a
  BY DEF Suspend, ChainInv, AloneInv, Begun, TypeInv, TypeOK
<1>b. \A c, batch : Release(p, c, batch) => Closing(c)'
  <2> SUFFICES ASSUME NEW c, NEW batch, Release(p, c, batch) PROVE Closing(c)'
    OBVIOUS
  <2>1. pc'[p] = "close" /\ arg'[p].conn = c
    BY <1>a DEF Release
  <2> QED BY <2>1 DEF Closing
<1>1. CASE FinishConnect(p) \/ BeginOnConnection(p) \/ FinishSavepoint(p)
  BY <1>1, Starts DEF Shaped
<1>2. CASE Ending(p)
  BY <1>2, Ends DEF Shaped
<1>3. CASE BeginFails(p)
  <2> PICK c \in Conns : Connect(c) /\ ManagerForget(c) /\ Suspend(p, "close", [Nothing EXCEPT !.conn = c])
    BY <1>3 DEF BeginFails
  <2>1. pc'[p] = "close" /\ arg'[p].conn = c
    BY <1>a DEF Nothing
  <2>2. Closing(c)'
    BY <2>1 DEF Closing
  <2>3. UNCHANGED <<home, root, nested, prev, active>> /\ pc[p] # "close"
    BY <1>3 DEF BeginFails
  <2>4. conn'[c] = "open" /\ \A d \in Conns \ {c} : conn'[d] = conn[d]
    BY <1>0 DEF Connect, SessionTypeOK
  <2> QED BY <2>2, <2>3, <2>4, Forgets DEF Shaped
<1>4. CASE Exit(p) /\ ~UNCHANGED registry
  <2> PICK t \in entered[p] : ManagerForget(home[t]) /\ Release(p, home[t], {})
    BY <1>4 DEF Exit
  <2> PICK c : c = home[t]
    OBVIOUS
  <2>1. c \in Conns
    BY Works DEF Object, ChainInv, AloneInv, Begun, TypeInv, TypeOK
  <2>2. Closing(c)' /\ pc[p] # "close" /\ UNCHANGED session
    BY <1>b, <1>4 DEF Exit, Idle
  <2>3. Sheds(c, NoTx)
    BY <2>1, <2>2, Forgets DEF session
  <2> QED BY <2>1, <2>3 DEF Shaped
<1>5. CASE Close(p)
  <2> PICK c \in Conns : c = Current(p)
    BY <1>5, Works DEF Close, ChainInv, AloneInv, Begun
  <2>1. ManagerForget(c) /\ Release(p, c, {}) /\ pc[p] # "close" /\ UNCHANGED session
    BY <1>5 DEF Close, Idle
  <2>2. Sheds(c, NoTx)
    BY <1>b, <2>1, Forgets DEF session
  <2> QED BY <2>2 DEF Shaped
<1>6. CASE FinishClose(p) \/ FailClose(p)
  <2> PICK c : c = arg[p].conn
    OBVIOUS
  <2>1. c \in Conns /\ Winds(c) /\ conn'[c] # "open" /\ pc[p] = "close" /\ UNCHANGED registry
    BY <1>6, ClosesConn DEF ChainInv, AloneInv, FinishClose, FailClose
  <2>2. recorded' = recorded \ OnConn(c) /\ UNCHANGED up
    <3>1. Closing(c)
      BY <2>1 DEF Closing
    <3>2. \A u \in recorded : u \notin OnConn(c)
      BY <3>1 DEF OnConn, ChainInv, AloneInv, CloseClean
    <3> QED BY <2>1, <3>2 DEF registry
  <2>3. \A d \in Conns \ {c} : Closing(d) => Closing(d)'
    BY ClosingStays DEF ChainInv, AloneInv
  <2>4. conn'[c] = "closed" => \A u \in OnConn(c) : ~active'[u]
    <3>1. CloseOk(c) \/ CloseFails(c)
      BY <1>6 DEF FinishClose, FailClose
    <3>2. CloseFails(c) => conn'[c] # "closed"
      BY <2>1 DEF CloseFails, Drop, ChainInv, AloneInv, Begun, TypeInv, TypeOK, SessionTypeOK
    <3>3. CloseOk(c) => \A u \in OnConn(c) : ~active'[u]
      BY DEF CloseOk, EndRoot, Deactivate, OnConn
    <3> QED BY <3>1, <3>2, <3>3
  <2>5. Sheds(c, NoTx)
    BY <2>1, <2>2, <2>3, <2>4 DEF Sheds, Winds
  <2> QED BY <2>1, <2>5 DEF Shaped
<1>7. CASE \/ StartConnect(p) \/ StartSavepoint(p) \/ Commit(p) \/ Rollback(p) \/ (Exit(p) /\ UNCHANGED registry)
           \/ AfterCommit(p) \/ EndCallback(p) \/ Spawn(p) \/ FailConnect(p) \/ Invoke(p) \/ FailSavepoint(p)
  <2>1. pc[p] # "close"
    BY <1>7 DEF StartConnect, StartSavepoint, Commit, Rollback, Exit, AfterCommit, EndCallback,
                CallbackReturns, CallbackRaises, Spawn, FailConnect, Invoke, FailSavepoint, Idle, InCallback
  <2>2. \A d \in Conns : Closing(d) => Closing(d)'
    BY <2>1, ClosingStays DEF ChainInv, AloneInv, FinishClose, FailClose
  <2>3. UNCHANGED <<recorded, up>>
    BY <1>7 DEF StartConnect, StartSavepoint, Commit, Rollback, Exit, AfterCommit, EndCallback,
                CallbackReturns, CallbackRaises, Spawn, FailConnect, Invoke, FailSavepoint, registry
  <2>4. UNCHANGED session \/ FailSavepoint(p)
    BY <1>7 DEF StartConnect, StartSavepoint, Commit, Rollback, Exit, AfterCommit, EndCallback,
                CallbackReturns, CallbackRaises, Spawn, FailConnect, Invoke
  <2>5. /\ UNCHANGED <<home, root, nested, prev, active>>
        /\ \A d \in Conns : /\ conn'[d] = "open" => conn[d] \in {"open", "free"}
                            /\ conn'[d] = "closed" => conn[d] = "closed"
    BY <1>0, <2>4 DEF session, FailSavepoint, Drop, SessionTypeOK
  <2> QED BY <2>2, <2>3, <2>5 DEF Rests, Shaped
<1>8. CASE Exit(p)
  BY <1>4, <1>7, <1>8
<1> QED BY <1>1, <1>2, <1>3, <1>5, <1>6, <1>7, <1>8 DEF Step, Begin, Continue, Ending

LEMMA RecordsStep == ASSUME ChainInv, NEW p \in Tasks, Step(p) PROVE Records'
<1>1. Shaped
  BY Shapes
<1>2. SessionTypeOK'
  BY TypeInvStep DEF Next, ChainInv, AloneInv, Begun, TypeInv, TypeOK
<1>3. ASSUME Rests PROVE Records'
  <2>1. UNCHANGED <<home, root, nested, prev, active, recorded, up>>
    BY <1>3 DEF Rests
  <2>2. \A t \in Txs : /\ Below(t)' = Below(t) /\ Innermost(home[t])' = Innermost(home[t])
                        /\ InTransaction(home[t])' = InTransaction(home[t])
    BY <2>1 DEF Below, Innermost, InTransaction
  <2>3. recorded \subseteq Txs
    BY DEF ChainInv, AloneInv, Begun, TypeInv, TypeOK
  <2>4. \A t \in Txs : active[t] => home[t] \in Conns /\ conn[home[t]] # "free"
    BY DEF ChainInv, AloneInv, Begun, Placed, TypeInv, TypeOK, SessionTypeOK
  <2>5. \A t \in Txs : active'[t] /\ InTransaction(home[t])' /\ conn'[home'[t]] = "open"
          /\ ~Closing(home[t])' => t \in recorded'
    <3> SUFFICES ASSUME NEW t \in Txs, NEW d, d = home[t], active[t], InTransaction(d)', conn'[d] = "open",
                        ~Closing(d)'
                 PROVE  t \in recorded
      BY <2>1
    <3>0. d \in Conns /\ conn[d] # "free"
      BY <2>4
    <3>1. conn[d] = "open" /\ ~Closing(d)
      <4>1. Closing(d) => Closing(d)'
        BY <1>3, <3>0 DEF Rests
      <4> QED BY <1>3, <3>0, <4>1 DEF Rests
    <3>2. InTransaction(d)
      BY <2>1 DEF InTransaction
    <3> QED BY <3>0, <3>1, <3>2 DEF ChainInv, Records
  <2>6. \A t \in recorded : t \in Txs
    BY <2>3
  <2> QED BY <2>1, <2>2, <2>5, <2>6 DEF ChainInv, Records
<1>4. ASSUME NEW c \in Conns, NEW t \in Txs, StartsRoot(c, t) \/ StartsNested(c, t) PROVE Records'
  BY <1>2, <1>4, RecordsRoot, RecordsNested
<1>5. ASSUME NEW c \in Conns, NEW x, Sheds(c, x) PROVE Records'
  BY <1>2, <1>5, RecordsShed
<1> QED BY <1>1, <1>3, <1>4, <1>5 DEF Shaped

-----------------------------------------------------------------------------
(* What a task names on a connection that is not closed, no other changes.   *)
LEMMA Undisturbed ==
    ASSUME AloneInv, NEW p \in Tasks, Step(p), NEW q \in Tasks \ {p}, NEW c \in Conns,
           Names(q, c), conn[c] # "closed"
    PROVE  /\ conn'[c] = conn[c] /\ root'[c] = root[c] /\ nested'[c] = nested[c]
           /\ \A t \in Txs : home[t] = c => home'[t] = c /\ active'[t] = active[t] /\ fate'[t] = fate[t]
<1>0. Moves(p) /\ conn[c] # "free" /\ c # NoConn
  BY SessionMoves, SessionAssumption DEF AloneInv, Begun, Named
<1>1. CASE UNCHANGED session
  BY <1>1 DEF session
<1>2. ASSUME NEW d \in Conns, Winds(d), Names(p, d)
      PROVE  /\ conn'[c] = conn[c] /\ root'[c] = root[c] /\ nested'[c] = nested[c]
             /\ \A t \in Txs : home[t] = c => home'[t] = c /\ active'[t] = active[t] /\ fate'[t] = fate[t]
  <2>1. d # c
    BY <1>2 DEF AloneInv, Apart
  <2> QED BY <1>2, <2>1 DEF Winds
<1>3. ASSUME NEW d \in Conns, NEW u \in Txs, Begins(d, u), Names(p, d) \/ conn[d] = "free"
      PROVE  /\ conn'[c] = conn[c] /\ root'[c] = root[c] /\ nested'[c] = nested[c]
             /\ \A t \in Txs : home[t] = c => home'[t] = c /\ active'[t] = active[t] /\ fate'[t] = fate[t]
  <2>1. d # c
    BY <1>0, <1>3 DEF AloneInv, Apart
  <2> QED BY <1>0, <1>3, <2>1, Newest DEF Begins, AloneInv
<1>4. ASSUME NEW d \in Conns, Connect(d), UNCHANGED <<home, root, nested, prev, active, fate>>
      PROVE  /\ conn'[c] = conn[c] /\ root'[c] = root[c] /\ nested'[c] = nested[c]
             /\ \A t \in Txs : home[t] = c => home'[t] = c /\ active'[t] = active[t] /\ fate'[t] = fate[t]
  BY <1>0, <1>4 DEF Connect, AloneInv, Begun, TypeInv, TypeOK, SessionTypeOK
<1> QED BY <1>0, <1>1, <1>2, <1>3, <1>4 DEF Moves

LEMMA ShutStep == ASSUME ChainInv, NEW p \in Tasks, Step(p) PROVE Shut'
<1> SUFFICES ASSUME NEW t \in Txs, active'[t], conn'[home'[t]] = "closed" PROVE FALSE
  BY DEF Shut
<1>0. \A u \in Txs : active[u] => home[u] \in Conns
  BY DEF ChainInv, AloneInv, Begun, Placed, TypeInv, TypeOK, SessionTypeOK
<1>1. Shaped
  BY Shapes
<1>2. CASE Rests
  BY <1>0, <1>2 DEF Rests, ChainInv, Shut
<1>3. ASSUME NEW c \in Conns, NEW u \in Txs, StartsRoot(c, u) \/ StartsNested(c, u) PROVE FALSE
  <2>1. Begins(c, u) /\ conn'[c] # "closed"
    BY <1>3 DEF StartsRoot, StartsNested
  <2>2. t # u
    BY <2>1 DEF Begins
  <2>3. active[t] /\ home'[t] = home[t] /\ home[t] \in Conns
    BY <1>0, <2>1, <2>2 DEF Begins
  <2>4. home[t] # c
    BY <2>1, <2>3
  <2>5. conn'[home[t]] = conn[home[t]]
    BY <2>1, <2>3, <2>4 DEF Begins
  <2> QED BY <2>3, <2>5 DEF ChainInv, Shut
<1>4. ASSUME NEW c \in Conns, NEW x, Sheds(c, x) PROVE FALSE
  <2>1. active[t] /\ home'[t] = home[t] /\ home[t] \in Conns
    BY <1>0, <1>4 DEF Sheds
  <2>2. conn[home[t]] # "closed"
    BY <2>1 DEF ChainInv, Shut
  <2>3. home[t] = c
    BY <1>4, <2>1, <2>2 DEF Sheds
  <2> QED BY <1>4, <2>1, <2>2, <2>3 DEF Sheds, OnConn
<1> QED BY <1>1, <1>2, <1>3, <1>4 DEF Shaped

(* A task that starts to end a transaction was allowed to.                   *)
LEMMA EndsInOrder ==
    ASSUME Begun, NEW p \in Tasks, Step(p), pc'[p] \in {"commit", "rollback"}
    PROVE  UNCHANGED session /\ InOrder(arg'[p].tx) /\ arg'[p].tx \in Txs
<1>a. \A where, a : Suspend(p, where, a) => pc'[p] = where /\ arg'[p] = a
  BY DEF Suspend, Begun, TypeInv, TypeOK
<1>b. \A batch : Execute(p, batch) => pc'[p] \in {"idle", "callbacks"}
  BY <1>a DEF Execute, Resume
<1>c. \A c, batch : Release(p, c, batch) => pc'[p] = "close"
  BY <1>a DEF Release
<1>d. \A t, how : End(p, t, how) => arg'[p].tx = t
  BY <1>a DEF End, Nothing
<1>1. CASE Commit(p) \/ Rollback(p)
  <2> PICK t \in Given(p), how \in {"commit", "rollback"} : InOrder(t) /\ End(p, t, how)
    BY <1>1 DEF Commit, Rollback
  <2> QED BY <1>d, <1>1, CurrentType DEF Commit, Rollback, Begun
<1>2. CASE Exit(p)
  <2> PICK t \in entered[p] \ Outer(p) :
         \/ InOrder(t) /\ (End(p, t, "commit") \/ End(p, t, "rollback"))
         \/ UNCHANGED <<pc, arg>>
         \/ Release(p, home[t], {})
    BY <1>2 DEF Exit
  <2>1. pc[p] = "idle" /\ t \in Txs
    BY <1>2 DEF Exit, Idle, Begun, TypeInv, TypeOK
  <2> QED BY <1>c, <1>d, <1>2, <2>1 DEF Exit
<1>3. CASE \/ StartConnect(p) \/ FinishConnect(p) \/ BeginFails(p) \/ FailConnect(p) \/ StartSavepoint(p)
           \/ FinishSavepoint(p) \/ FailSavepoint(p)
  <2>1. pc'[p] \in {"connect", "idle", "close", "savepoint"}
    BY <1>a, <1>3 DEF StartConnect, FinishConnect, BeginFails, FailConnect, StartSavepoint,
                      FinishSavepoint, FailSavepoint, Resume
  <2> QED BY <2>1
<1>4. CASE FinishCommit(p) \/ FailCommit(p) \/ FinishRollback(p) \/ FailRollback(p)
  <2>1. pc'[p] \in {"idle", "close", "callbacks"}
    BY <1>a, <1>b, <1>c, <1>4 DEF FinishCommit, FailCommit, FinishRollback, FailRollback, AfterRollback, Resume
  <2> QED BY <2>1
<1>5. CASE FinishClose(p) \/ FailClose(p) \/ Invoke(p) \/ Close(p)
  <2>1. pc'[p] \in {"idle", "close", "callbacks"}
    BY <1>a, <1>b, <1>c, <1>5 DEF FinishClose, FailClose, Invoke, Close, Resume
  <2> QED BY <2>1
<1>6. CASE BeginOnConnection(p) \/ AfterCommit(p) \/ Spawn(p) \/ EndCallback(p)
  <2>1. pc'[p] \in {"idle", "callbacks"}
    BY <1>a, <1>6 DEF BeginOnConnection, AfterCommit, Spawn, EndCallback, CallbackReturns, CallbackRaises,
                      InCallback, Idle, tasks
  <2> QED BY <2>1
<1> QED BY <1>1, <1>2, <1>3, <1>4, <1>5, <1>6 DEF Step, Begin, Continue

LEMMA TopStep == ASSUME ~AnyOrder, ChainInv, NEW p \in Tasks, Step(p) PROVE Top'
<1> SUFFICES ASSUME NEW q \in Tasks, NEW t, NEW c, t = arg'[q].tx, c = home'[t],
                    pc'[q] \in {"commit", "rollback"}, active'[t]
             PROVE  t \in {root'[c], Innermost(c)'}
  BY DEF Top
<1>1. CASE q = p
  <2>1. UNCHANGED session /\ InOrder(t)
    BY <1>1, EndsInOrder DEF ChainInv, AloneInv
  <2> QED BY <2>1 DEF InOrder, Innermost, session
<1>2. CASE q # p
  <2>1. t = arg[q].tx /\ pc[q] \in {"commit", "rollback"}
    BY <1>2, OthersStay DEF Others, ChainInv, AloneInv, Begun
  <2>2. t \in Txs /\ home[t] \in Conns /\ Names(q, home[t])
    BY <2>1, Works DEF ChainInv, AloneInv, Begun
  <2>3. c = home[t]
    BY <2>2, KeepsStep, SessionAssumption DEF Keeps, ChainInv, AloneInv, Begun
  <2>4. active[t]
    <3>1. Shaped
      BY Shapes
    <3>2. \A d \in Conns, u \in Txs : Begins(d, u) => u # t
      BY <2>2, SessionAssumption DEF Begins
    <3>3. CASE Rests
      BY <3>3 DEF Rests
    <3>4. ASSUME NEW d \in Conns, NEW u \in Txs, Begins(d, u) PROVE active[t]
      BY <2>2, <3>2, <3>4 DEF Begins
    <3>5. ASSUME NEW d \in Conns, NEW x, Sheds(d, x) PROVE active[t]
      BY <2>2, <3>5 DEF Sheds
    <3> QED BY <3>1, <3>3, <3>4, <3>5 DEF Shaped, StartsRoot, StartsNested
  <2>5. conn[c] # "closed" /\ t \in {root[c], Innermost(c)}
    BY <2>1, <2>2, <2>3, <2>4 DEF ChainInv, Shut, Top
  <2>6. root'[c] = root[c] /\ nested'[c] = nested[c]
    BY <1>2, <2>2, <2>3, <2>5, Undisturbed DEF ChainInv
  <2> QED BY <2>5, <2>6 DEF Innermost
<1> QED BY <1>1, <1>2

LEMMA NestsStep == ASSUME ChainInv, NEW p \in Tasks, Step(p) PROVE Nests'
<1> SUFFICES ASSUME NEW q \in Tasks, NEW t, NEW c, t = arg'[q].tx, c = arg'[q].conn, pc'[q] = "savepoint"
             PROVE  t # NoTx /\ (conn'[c] = "closed" \/ t = Innermost(c)')
  BY DEF Nests
<1>a. \A where, a : Suspend(p, where, a) => pc'[p] = where /\ arg'[p] = a
  BY DEF Suspend, ChainInv, AloneInv, Begun, TypeInv, TypeOK
<1>b. \A batch : Execute(p, batch) => pc'[p] \in {"idle", "callbacks"}
  BY <1>a DEF Execute, Resume
<1>c. \A d, batch : Release(p, d, batch) => pc'[p] = "close"
  BY <1>a DEF Release
<1>1. CASE q = p /\ StartSavepoint(p)
  <2>1. arg'[p] = [Nothing EXCEPT !.conn = Current(p), !.tx = CurrentTx(p)] /\ CurrentTx(p) # NoTx
    BY <1>a, <1>1 DEF StartSavepoint
  <2>2. t = CurrentTx(p) /\ c = Current(p)
    BY <1>1, <2>1 DEF Nothing
  <2>3. t = Innermost(c)
    BY <2>1, <2>2 DEF CurrentTx
  <2>4. UNCHANGED <<root, nested>>
    BY <1>1 DEF StartSavepoint, session
  <2> QED BY <2>1, <2>2, <2>3, <2>4 DEF Innermost
<1>2. CASE q = p /\ ~StartSavepoint(p)
  <2> SUFFICES pc'[p] # "savepoint"
    BY <1>2
  <2>1. CASE \/ StartConnect(p) \/ FinishConnect(p) \/ BeginFails(p) \/ FailConnect(p)
             \/ FinishSavepoint(p) \/ FailSavepoint(p)
    <3>1. pc'[p] \in {"connect", "idle", "close"}
      BY <1>a, <2>1 DEF StartConnect, FinishConnect, BeginFails, FailConnect, FinishSavepoint, FailSavepoint, Resume
    <3> QED BY <3>1
  <2>2. CASE Ending(p)
    <3>1. pc'[p] \in {"idle", "close", "callbacks"}
      BY <1>a, <1>b, <1>c, <2>2 DEF Ending, FinishCommit, FailCommit, FinishRollback, FailRollback, AfterRollback, Resume
    <3> QED BY <3>1
  <2>3. CASE FinishClose(p) \/ FailClose(p) \/ Invoke(p) \/ Close(p)
    <3>1. pc'[p] \in {"idle", "close", "callbacks"}
      BY <1>a, <1>b, <1>c, <2>3 DEF FinishClose, FailClose, Invoke, Close, Resume
    <3> QED BY <3>1
  <2>4. CASE BeginOnConnection(p) \/ AfterCommit(p) \/ Spawn(p) \/ EndCallback(p)
    <3>1. pc'[p] \in {"idle", "callbacks"}
      BY <1>a, <2>4 DEF BeginOnConnection, AfterCommit, Spawn, EndCallback, CallbackReturns, CallbackRaises,
                        InCallback, Idle, tasks
    <3> QED BY <3>1
  <2>5. CASE Commit(p) \/ Rollback(p)
    <3> PICK u \in Given(p), how \in {"commit", "rollback"} : End(p, u, how)
      BY <2>5 DEF Commit, Rollback
    <3>1. pc'[p] = how
      BY <1>a DEF End
    <3> QED BY <3>1
  <2>6. CASE Exit(p)
    <3> PICK u \in entered[p] \ Outer(p) :
           \/ End(p, u, "commit") \/ End(p, u, "rollback")
           \/ UNCHANGED pc
           \/ Release(p, home[u], {})
      BY <2>6 DEF Exit
    <3>1. pc[p] = "idle"
      BY <2>6 DEF Exit, Idle
    <3>2. pc'[p] \in {"commit", "rollback", "idle", "close"}
      BY <1>a, <1>c, <3>1 DEF End
    <3> QED BY <3>2
  <2> QED BY <1>2, <2>1, <2>2, <2>3, <2>4, <2>5, <2>6 DEF Step, Begin, Continue, Ending
<1>3. CASE q # p
  <2>1. t = arg[q].tx /\ c = arg[q].conn /\ pc[q] = "savepoint"
    BY <1>3, OthersStay DEF Others, ChainInv, AloneInv, Begun
  <2>2. c \in Conns /\ Names(q, c)
    BY <2>1, Works DEF ChainInv, AloneInv, Begun
  <2>3. t # NoTx /\ (conn[c] = "closed" \/ t = Innermost(c))
    BY <2>1 DEF ChainInv, Nests
  <2>4. conn[c] = "closed" => conn'[c] = "closed"
    BY <2>2, KeepsStep DEF Keeps, ChainInv, AloneInv, Begun
  <2>5. conn[c] # "closed" => root'[c] = root[c] /\ nested'[c] = nested[c]
    BY <1>3, <2>2, Undisturbed DEF ChainInv
  <2> QED BY <2>3, <2>4, <2>5 DEF Innermost
<1> QED BY <1>1, <1>2, <1>3

LEMMA ChainStep == ASSUME ~Inherit, ~AnyOrder, ChainInv, [Next]_vars PROVE ChainInv'
<1>1. AloneInv'
  BY AloneStep DEF ChainInv
<1>2. ASSUME NEW p \in Tasks, Step(p) PROVE ChainInv'
  BY <1>1, <1>2, HeldStep, ShutStep, TopStep, NestsStep, RecordsStep DEF ChainInv, AloneInv
<1>3. ASSUME UNCHANGED vars PROVE ChainInv'
  <2>1. UNCHANGED <<conn, home, root, nested, prev, active, pc, arg, recorded, up>>
    BY <1>3 DEF vars, session, tasks, registry
  <2>2. HeldByTransaction' /\ Shut' /\ Top' /\ Nests'
    BY <2>1 DEF ChainInv, HeldByTransaction, Shut, Top, Nests, Innermost
  <2>3. Records'
    <3>1. \A t \in Txs : /\ Below(t)' = Below(t) /\ Innermost(home[t])' = Innermost(home[t])
                         /\ (InTransaction(home[t])' <=> InTransaction(home[t]))
                         /\ (Closing(home[t])' <=> Closing(home[t]))
      BY <2>1 DEF Below, Innermost, InTransaction, Closing
    <3>2. \A t \in recorded : t \in Txs
      BY DEF ChainInv, AloneInv, Begun, TypeInv, TypeOK
    <3> QED BY <2>1, <3>1, <3>2 DEF ChainInv, Records
  <2> QED BY <1>1, <2>2, <2>3 DEF ChainInv
<1> QED BY <1>2, <1>3 DEF Next

LEMMA InitChain == Init => ChainInv
<1> SUFFICES ASSUME Init PROVE ChainInv
  OBVIOUS
<1>1. HeldByTransaction /\ Shut /\ Top /\ Nests
  BY DEF Init, SessionInit, HeldByTransaction, Shut, Top, Nests
<1>2. Records
  BY DEF Init, SessionInit, Records
<1> QED BY <1>1, <1>2, InitAlone DEF ChainInv

LEMMA Committed ==
    ASSUME ChainInv, NEW p \in Tasks, FinishCommit(p), NEW t, t = arg[p].tx, NEW c, c = home[t]
    PROVE  /\ t \in Txs /\ c \in Conns
           /\ root[c] = t => ~StaysIn(c)
           /\ root[c] # t => Batch(t) = {}
<1>1. Ending(p)
  BY DEF Ending
<1>2. c \in Conns /\ Winds(c)
  BY <1>1, EndsReleased DEF ChainInv, AloneInv
<1>3. t \in Txs /\ pc[p] = "commit" /\ SessionTypeOK
  BY Works DEF FinishCommit, ChainInv, AloneInv, Begun, TypeInv, TypeOK
<1>4. CommitOk(t) /\ ManagerCommit(c, t, ~StaysIn(c))
  BY DEF FinishCommit
<1>5. root[c] = t => ~StaysIn(c)
  BY <1>2, <1>3, <1>4, RootEnds DEF StaysIn, InTransaction
<1>6. ASSUME root[c] # t PROVE Batch(t) = {}
  <2>1. active[t] => nested[c] = t
    BY <1>3, <1>6 DEF ChainInv, Top, Innermost
  <2>2. ~StaysIn(c) => ~InTransaction(c)
    BY <1>2, <1>3, <1>4, <1>6, TopEnds DEF StaysIn, InTransaction, SessionTypeOK
  <2> QED BY <1>2, <1>3, <1>4, <1>6, <2>1, <2>2, TopLeaves
<1> QED BY <1>2, <1>3, <1>5, <1>6

(* Where the record of every open transaction is kept, the commit of a       *)
(* savepoint starts no callback loop, whatever the root's other records are. *)
THEOREM SavepointsDefer == ASSUME ~Inherit, ~AnyOrder PROVE Spec => NestedCommitDefers
<1> DEFINE Runs(p) == pc[p] = "commit" /\ frames'[p] # frames[p]
           Deferred(p) == Runs(p) => LET c == home[arg[p].tx] IN ~(StaysIn(c) /\ root[c] \in recorded)
<1>1. ASSUME ChainInv, NEW q \in Tasks, Step(q), NEW p \in Tasks, Runs(p),
             NEW t, NEW c, t = arg[p].tx, c = home[t], StaysIn(c)
      PROVE  FALSE
  <2>0. TypeInv /\ Begun
    BY <1>1 DEF ChainInv, AloneInv, Begun
  <2>1. p = q
    BY <1>1, <2>0, OthersStay DEF Others
  <2>2. FinishCommit(p) \/ FailCommit(p)
    BY <1>1, <2>1 DEF Step, Begin, Continue, EndCallback, StartConnect, BeginOnConnection, StartSavepoint,
           Commit, Rollback, Exit, Close, AfterCommit, CallbackReturns, CallbackRaises, Spawn, FinishConnect,
           BeginFails, FailConnect, FinishSavepoint, FailSavepoint, FinishRollback, FailRollback,
           FinishClose, FailClose, Invoke, InCallback, Idle
  <2>3. FinishCommit(p)
    BY <1>1, <2>2 DEF FailCommit
  <2>4. Batch(t) = {}
    BY <1>1, <2>3, Committed
  <2>5. UNCHANGED frames
    BY <1>1, <2>3, <2>4 DEF FinishCommit, Execute
  <2> QED BY <1>1, <2>5
<1>2. ChainInv /\ [Next]_vars => [\A p \in Tasks : Deferred(p)]_vars
  <2> SUFFICES ASSUME ChainInv, NEW q \in Tasks, Step(q), NEW p \in Tasks, Runs(p)
               PROVE  LET c == home[arg[p].tx] IN ~(StaysIn(c) /\ root[c] \in recorded)
    BY DEF Next
  <2> PICK t, c : t = arg[p].tx /\ c = home[t]
    OBVIOUS
  <2>1. ~StaysIn(c)
    <3> HIDE DEF Runs
    <3> QED BY <1>1
  <2> QED BY <2>1
<1>3. Init => ChainInv
  BY InitChain
<1>4. ChainInv /\ [Next]_vars => ChainInv'
  BY ChainStep
<1> QED BY <1>2, <1>3, <1>4, PTL DEF Spec, NestedCommitDefers

-----------------------------------------------------------------------------
(* A queued callback runs only after the writes it was queued for are        *)
(* durable, none whose writes are durable is lost silently, and the layer    *)
(* implements AfterCommit.                                                   *)

\* The database may still keep the transaction's writes or undo them.
Undecided(t) == fate[t] \in {"open", "merged"}
Durable(k) == reg[k] \in Txs /\ fate[reg[k]] = "durable"

\* Where a callback can be: on a record, in a loop, in a batch that is due.
Filed(k) == \E u \in recorded : k \in cbs[u]
Looped(p, k) == \E i \in DOMAIN frames[p] : k \in frames[p][i].left
Awaited(p, k) == k \in arg[p].batch \/ Looped(p, k)

Alive == \A t \in Txs : Undecided(t) => conn[home[t]] = "open"

(* The callbacks of a record were queued on its transaction or on a          *)
(* savepoint merged into it, never on one that a later record's rollback     *)
(* would undo.                                                               *)
Files ==
    /\ \A t \in Txs : t \notin recorded => cbs[t] = {}
    /\ \A t \in recorded : fate[t] # "durable" /\ (conn[home[t]] = "open" => Undecided(t))
    /\ \A t \in Txs, k \in Callbacks : k \in cbs[t] =>
         /\ reg[k] \in Txs /\ home[reg[k]] = home[t] /\ t <= reg[k]
         /\ conn[home[t]] = "open" => Undecided(reg[k])
         /\ \A w \in recorded : home[w] = home[t] /\ t < w => reg[k] < w
    /\ \A k \in Callbacks : reg[k] \in Txs => home[reg[k]] # NoConn

(* A callback is on a record while its writes are undecided, and once they   *)
(* are durable it is to be run, has run or was given up.                     *)
Kept == \A k \in Callbacks : reg[k] \in Txs =>
    /\ Undecided(reg[k]) /\ ~Closing(home[reg[k]]) => k \in reported \/ Filed(k)
    /\ Durable(k) => k \in reported \/ k \in ran \/ \E p \in Tasks : Awaited(p, k)

Due ==
    /\ \A k \in ran : Durable(k)
    /\ \A p \in Tasks, k \in Callbacks : Awaited(p, k) => Durable(k)
    /\ \A p \in Tasks : pc[p] # "close" => arg[p].batch = {}

DeliveryInv == ChainInv /\ Alive /\ Files /\ Kept /\ Due

-----------------------------------------------------------------------------
(* How callbacks move between loops.                                         *)
LEMMA Loops ==
    ASSUME TypeInv, NEW p \in Tasks, NEW k
    PROVE  /\ UNCHANGED frames => (Looped(p, k)' <=> Looped(p, k))
           /\ \A batch \in SUBSET Callbacks :
                Execute(p, batch) => (Looped(p, k)' <=> Looped(p, k) \/ k \in batch)
           /\ frames' = [frames EXCEPT ![p] = Tail(@)] /\ frames[p] # <<>>
                => (Looped(p, k) <=> Looped(p, k)' \/ k \in Head(frames[p]).left)
<1>0. frames[p] \in Seq(Frame) /\ DOMAIN frames[p] = 1 .. Len(frames[p]) /\ Len(frames[p]) \in Nat
  BY DEF TypeInv, TypeOK
<1>1. UNCHANGED frames => (Looped(p, k)' <=> Looped(p, k))
  BY DEF Looped
<1>2. ASSUME NEW batch \in SUBSET Callbacks, Execute(p, batch)
      PROVE  Looped(p, k)' <=> Looped(p, k) \/ k \in batch
  <2>1. CASE batch = {}
    BY <1>1, <1>2, <2>1 DEF Execute
  <2>2. CASE batch # {}
    <3> DEFINE top == [left |-> batch, outer |-> entered[p]]
    <3>1. top \in Frame /\ top.left = batch
      BY DEF Frame, TypeInv, TypeOK
    <3>2. frames'[p] = <<top>> \o frames[p]
      BY <1>2, <2>2 DEF Execute, TypeInv, TypeOK
    <3> HIDE DEF top
    <3>3. /\ DOMAIN frames'[p] = 1 .. Len(frames[p]) + 1
          /\ \A i \in DOMAIN frames'[p] : frames'[p][i] = IF i = 1 THEN top ELSE frames[p][i - 1]
      BY <1>0, <3>1, <3>2, Pushed
    <3>4. Looped(p, k)' => Looped(p, k) \/ k \in batch
      <4> SUFFICES ASSUME NEW i \in DOMAIN frames'[p], k \in frames'[p][i].left
                   PROVE  Looped(p, k) \/ k \in batch
        BY DEF Looped
      <4>1. i # 1 => i - 1 \in DOMAIN frames[p] /\ frames'[p][i] = frames[p][i - 1]
        BY <1>0, <3>3
      <4> QED BY <3>1, <3>3, <4>1 DEF Looped
    <3>5. k \in batch => Looped(p, k)'
      <4>1. 1 \in DOMAIN frames'[p] /\ frames'[p][1] = top
        BY <1>0, <3>3
      <4> QED BY <3>1, <4>1 DEF Looped
    <3>6. ASSUME NEW i \in DOMAIN frames[p], k \in frames[p][i].left PROVE Looped(p, k)'
      <4>1. i + 1 \in DOMAIN frames'[p] /\ frames'[p][i + 1] = frames[p][i]
        BY <1>0, <3>3
      <4> QED BY <3>6, <4>1 DEF Looped
    <3> QED BY <3>4, <3>5, <3>6 DEF Looped
  <2> QED BY <2>1, <2>2
<1>3. ASSUME frames' = [frames EXCEPT ![p] = Tail(@)], frames[p] # <<>>
      PROVE  Looped(p, k) <=> Looped(p, k)' \/ k \in Head(frames[p]).left
  <2>1. frames'[p] = Tail(frames[p])
    BY <1>3 DEF TypeInv, TypeOK
  <2>0. /\ Tail(frames[p]) \in Seq(Frame) /\ Len(Tail(frames[p])) = Len(frames[p]) - 1
        /\ \A i \in 1 .. Len(frames[p]) - 1 : Tail(frames[p])[i] = frames[p][i + 1] /\ i + 1 \in DOMAIN frames[p]
        /\ Head(frames[p]) = frames[p][1] /\ 1 \in DOMAIN frames[p]
        /\ DOMAIN Tail(frames[p]) = 1 .. Len(frames[p]) - 1
    BY <1>0, <1>3
  <2>2. /\ DOMAIN frames'[p] = 1 .. Len(frames[p]) - 1
        /\ \A i \in 1 .. Len(frames[p]) - 1 : frames'[p][i] = frames[p][i + 1] /\ i + 1 \in DOMAIN frames[p]
        /\ Head(frames[p]) = frames[p][1] /\ 1 \in DOMAIN frames[p]
    BY <2>0, <2>1
  <2>3. Looped(p, k)' \/ k \in Head(frames[p]).left => Looped(p, k)
    BY <2>2 DEF Looped
  <2>4. ASSUME NEW i \in DOMAIN frames[p], k \in frames[p][i].left
        PROVE  Looped(p, k)' \/ k \in Head(frames[p]).left
    <3>1. i # 1 => i - 1 \in DOMAIN frames'[p] /\ frames'[p][i - 1] = frames[p][i]
      <4>1. i # 1 => i - 1 \in 1 .. Len(frames[p]) - 1 /\ (i - 1) + 1 = i
        BY <1>0
      <4> QED BY <2>2, <4>1
    <3> QED BY <2>2, <2>4, <3>1 DEF Looped
  <2> QED BY <2>3, <2>4 DEF Looped
<1> QED BY <1>1, <1>2, <1>3

(* A loop that calls a callback loses that one and keeps the others.         *)
LEMMA InvokeLoop ==
    ASSUME TypeInv, NEW p \in Tasks, Invoke(p)
    PROVE  \E k \in Callbacks : /\ Looped(p, k) /\ ran' = ran \cup {k}
                                /\ \A j : Looped(p, j)' => Looped(p, j)
                                /\ \A j : Looped(p, j) => Looped(p, j)' \/ j = k
<1>0. frames[p] \in Seq(Frame) /\ frames[p] # <<>>
  BY DEF Invoke, TypeInv, TypeOK, AwaitOK
<1> PICK k \in First(Head(frames[p]).left) :
       ran' = ran \cup {k} /\ frames' = [frames EXCEPT ![p] = <<Without(Head(@), k)>> \o Tail(@)]
  BY DEF Invoke
<1> DEFINE top == Without(Head(frames[p]), k)
<1>1. /\ Head(frames[p]) = frames[p][1] /\ 1 \in DOMAIN frames[p] /\ Head(frames[p]) \in Frame
      /\ Tail(frames[p]) \in Seq(Frame) /\ Len(Tail(frames[p])) = Len(frames[p]) - 1
      /\ \A i \in 1 .. Len(frames[p]) - 1 : Tail(frames[p])[i] = frames[p][i + 1]
      /\ DOMAIN frames[p] = 1 .. Len(frames[p]) /\ Len(frames[p]) \in Nat
  BY <1>0
<1>2. /\ k \in Callbacks /\ k \in frames[p][1].left /\ top \in Frame
      /\ top.left = frames[p][1].left \ {k}
  BY <1>1 DEF First, Frame, Without
<1>3. frames'[p] = <<top>> \o Tail(frames[p])
  BY DEF TypeInv, TypeOK
<1> HIDE DEF top
<1>4. /\ DOMAIN frames'[p] = DOMAIN frames[p]
      /\ \A i \in DOMAIN frames[p] : frames'[p][i] = IF i = 1 THEN top ELSE frames[p][i]
  BY <1>1, <1>2, <1>3, Pushed
<1>5. \A i \in DOMAIN frames'[p] : frames'[p][i].left \subseteq frames[p][i].left /\ i \in DOMAIN frames[p]
  BY <1>2, <1>4
<1>6. \A i \in DOMAIN frames[p] : frames[p][i].left \subseteq frames'[p][i].left \cup {k} /\ i \in DOMAIN frames'[p]
  BY <1>2, <1>4
<1>7. \A j : Looped(p, j)' => Looped(p, j)
  BY <1>5 DEF Looped
<1>8. \A j : Looped(p, j) => Looped(p, j)' \/ j = k
  BY <1>6 DEF Looped
<1>9. Looped(p, k)
  BY <1>1, <1>2 DEF Looped
<1> QED BY <1>2, <1>7, <1>8, <1>9

(* A step of a task keeps what the task is to run, but for what it runs or   *)
(* gives up, and adds the batch M.                                           *)
Flows(p, M) ==
    /\ \A k \in Callbacks : Awaited(p, k)' => Awaited(p, k) \/ k \in M
    /\ \A k \in Callbacks : Awaited(p, k) => Awaited(p, k)' \/ k \in ran' \/ k \in reported'
    /\ \A k \in M : Awaited(p, k)'
    /\ \A k \in ran' : k \in ran \/ (k \in Callbacks /\ Awaited(p, k))
    /\ ran \subseteq ran' /\ reported \subseteq reported'
    /\ pc'[p] # "close" => arg'[p].batch = {}

\* The steps that push, take or shorten a batch.
Turns(p) == FinishCommit(p) \/ FinishClose(p) \/ FailClose(p) \/ Invoke(p) \/ EndCallback(p)

(* All other steps leave loops and batches alone.                            *)
LEMMA Quiets ==
    ASSUME TypeInv, Due, NEW p \in Tasks, Step(p), ~Turns(p)
    PROVE  /\ UNCHANGED <<frames, ran>> /\ reported \subseteq reported'
           /\ arg[p].batch = {} /\ arg'[p].batch = {}
<1>a. \A where, a : Suspend(p, where, a) => pc'[p] = where /\ arg'[p] = a
  BY DEF Suspend, TypeInv, TypeOK
<1>b. Nothing.batch = {} /\ (\A t : [Nothing EXCEPT !.tx = t].batch = {})
      /\ (\A c : [Nothing EXCEPT !.conn = c].batch = {})
      /\ (\A c, t : [Nothing EXCEPT !.conn = c, !.tx = t].batch = {})
  BY DEF Nothing
<1>c. Resume(p) => pc'[p] = "idle" /\ arg'[p].batch = {}
  BY <1>a, <1>b DEF Resume
<1>d. \A c, batch : Release(p, c, batch) => pc'[p] = "close" /\ arg'[p].batch = batch
  BY <1>a DEF Release
<1>e. \A t, how : End(p, t, how) => arg'[p].batch = {}
  BY <1>a, <1>b DEF End
<1>g. pc[p] # "close" => arg[p].batch = {}
  BY DEF Due
<1>7. \/ StartConnect(p) \/ StartSavepoint(p) \/ Commit(p) \/ Rollback(p) \/ AfterCommit(p)
      \/ FinishConnect(p) \/ BeginOnConnection(p) \/ FinishSavepoint(p)
      \/ Spawn(p) \/ FailConnect(p) \/ FailSavepoint(p) \/ BeginFails(p) \/ Exit(p) \/ Close(p)
      \/ FailCommit(p) \/ FinishRollback(p) \/ FailRollback(p)
  BY DEF Turns, Step, Begin, Continue
<1>8. UNCHANGED <<frames, ran>> /\ reported \subseteq reported'
  BY <1>7 DEF StartConnect, StartSavepoint, Commit, Rollback, AfterCommit, FinishConnect, BeginOnConnection,
         FinishSavepoint, Spawn, FailConnect, FailSavepoint, BeginFails, Exit, Close, FailCommit,
         FinishRollback, FailRollback, tasks, history
<1>9. pc[p] # "close" /\ pc[p] \in {"idle", "connect", "savepoint", "commit", "rollback"}
  BY <1>7 DEF StartConnect, StartSavepoint, Commit, Rollback, AfterCommit, FinishConnect, BeginOnConnection,
         FinishSavepoint, Spawn, FailConnect, FailSavepoint, BeginFails, Exit, Close, FailCommit,
         FinishRollback, FailRollback, Idle
<1>10. arg'[p].batch = {}
  <2>1. CASE StartConnect(p) \/ StartSavepoint(p) \/ FinishConnect(p) \/ FinishSavepoint(p) \/ FailConnect(p)
             \/ FailSavepoint(p) \/ BeginFails(p)
    BY <1>a, <1>b, <1>c, <2>1 DEF StartConnect, StartSavepoint, FinishConnect, FinishSavepoint, FailConnect,
                                  FailSavepoint, BeginFails
  <2>2. CASE AfterCommit(p) \/ BeginOnConnection(p) \/ Spawn(p)
    BY <1>g, <1>9, <2>2 DEF AfterCommit, BeginOnConnection, Spawn, tasks
  <2>3. CASE Commit(p) \/ Rollback(p) \/ Exit(p)
    BY <1>d, <1>e, <1>g, <1>9, <2>3 DEF Commit, Rollback, Exit
  <2>4. CASE Close(p) \/ FailCommit(p) \/ FinishRollback(p) \/ FailRollback(p)
    BY <1>c, <1>d, <2>4 DEF Close, FailCommit, FinishRollback, FailRollback, AfterRollback
  <2> QED BY <1>7, <2>1, <2>2, <2>3, <2>4
<1> QED BY <1>8, <1>9, <1>10, <1>g

(* Which callbacks a step adds to those a task awaits: the batch of a commit. *)
LEMMA Flow ==
    ASSUME TypeInv, Due, NEW p \in Tasks, Step(p)
    PROVE  /\ FinishCommit(p) => Flows(p, Batch(arg[p].tx))
           /\ ~FinishCommit(p) => Flows(p, {})
<1>0. /\ \A t : Batch(t) \in SUBSET Callbacks
      /\ arg[p].batch \in SUBSET Callbacks
  BY CollectedType, TypeOKParts DEF Batch, TypeInv, TypeOK, Arg
<1>a. \A where, a : Suspend(p, where, a) => pc'[p] = where /\ arg'[p] = a
  BY DEF Suspend, TypeInv, TypeOK
<1>b. Nothing.batch = {} /\ (\A t : [Nothing EXCEPT !.tx = t].batch = {})
      /\ (\A c : [Nothing EXCEPT !.conn = c].batch = {})
      /\ (\A c, t : [Nothing EXCEPT !.conn = c, !.tx = t].batch = {})
  BY DEF Nothing
<1>c. Resume(p) => pc'[p] = "idle" /\ arg'[p].batch = {}
  BY <1>a, <1>b DEF Resume
<1>d. \A c, batch : Release(p, c, batch) => pc'[p] = "close" /\ arg'[p].batch = batch
  BY <1>a DEF Release
<1>e. \A t, how : End(p, t, how) => arg'[p].batch = {}
  BY <1>a, <1>b DEF End
<1>f. \A batch : Execute(p, batch) => pc'[p] # "close" /\ arg'[p].batch = {}
  BY <1>a, <1>b, <1>c DEF Execute
<1>g. pc[p] # "close" => arg[p].batch = {}
  BY DEF Due
<1>1. ASSUME UNCHANGED <<frames, ran>>, reported \subseteq reported', arg[p].batch = {}, arg'[p].batch = {}
      PROVE  Flows(p, {})
  BY <1>1, Loops DEF Flows, Awaited
<1>2. CASE FinishCommit(p)
  <2> PICK M : M = Batch(arg[p].tx)
    OBVIOUS
  <2>1. M \in SUBSET Callbacks /\ UNCHANGED <<ran, reported>> /\ arg[p].batch = {}
    BY <1>0, <1>2, <1>g DEF FinishCommit, history
  <2>2. Execute(p, M) \/ \E c : Release(p, c, M) /\ UNCHANGED frames
    BY <1>2 DEF FinishCommit
  <2>3. ASSUME Execute(p, M) PROVE Flows(p, M)
    BY <1>f, <2>1, <2>3, Loops DEF Flows, Awaited
  <2>4. ASSUME \E c : Release(p, c, M) /\ UNCHANGED frames PROVE Flows(p, M)
    BY <1>d, <2>1, <2>4, Loops DEF Flows, Awaited
  <2>5. Flows(p, M)
    BY <2>2, <2>3, <2>4
  <2> QED BY <1>2, <2>5
<1>3. CASE FinishClose(p)
  <2>1. Execute(p, arg[p].batch) /\ UNCHANGED <<ran, reported>> /\ pc[p] = "close"
    BY <1>3 DEF FinishClose, history
  <2>2. Flows(p, {})
    BY <1>0, <1>f, <2>1, Loops DEF Flows, Awaited
  <2> QED BY <2>1, <2>2 DEF FinishCommit
<1>4. CASE FailClose(p)
  <2>1. Resume(p) /\ UNCHANGED <<ran, frames>> /\ reported' = reported \cup arg[p].batch /\ pc[p] = "close"
    BY <1>4 DEF FailClose
  <2>2. Flows(p, {})
    BY <1>c, <2>1, Loops DEF Flows, Awaited
  <2> QED BY <2>1, <2>2 DEF FinishCommit
<1>5. CASE Invoke(p)
  <2>1. PICK k \in Callbacks : /\ Looped(p, k) /\ ran' = ran \cup {k}
                               /\ \A j : Looped(p, j)' => Looped(p, j)
                               /\ \A j : Looped(p, j) => Looped(p, j)' \/ j = k
    BY <1>5, InvokeLoop
  <2>2. Suspend(p, "idle", Nothing) /\ UNCHANGED reported /\ pc[p] = "callbacks"
    BY <1>5 DEF Invoke
  <2>3. Flows(p, {})
    BY <1>a, <1>b, <1>g, <2>1, <2>2 DEF Flows, Awaited
  <2> QED BY <2>2, <2>3 DEF FinishCommit
<1>6. CASE EndCallback(p)
  <2>1. frames[p] # <<>> /\ pc[p] = "idle" /\ UNCHANGED ran
    BY <1>6 DEF EndCallback, CallbackReturns, CallbackRaises, InCallback, Idle, history
  <2>2. \/ UNCHANGED <<frames, reported>> /\ Suspend(p, "callbacks", Nothing)
        \/ /\ frames' = [frames EXCEPT ![p] = Tail(@)] /\ UNCHANGED <<pc, arg>>
           /\ reported' = reported \cup Head(frames[p]).left
    BY <1>6 DEF EndCallback, CallbackReturns, CallbackRaises, history
  <2>3. Flows(p, {})
    BY <1>a, <1>b, <1>g, <2>1, <2>2, Loops DEF Flows, Awaited
  <2> QED BY <2>1, <2>3 DEF FinishCommit
<1>7. CASE ~Turns(p)
  <2>1. Flows(p, {})
    BY <1>1, <1>7, Quiets
  <2>2. ~FinishCommit(p)
    BY <1>7 DEF Turns
  <2> QED BY <2>1, <2>2
<1> QED BY <1>2, <1>3, <1>4, <1>5, <1>6, <1>7 DEF Turns

-----------------------------------------------------------------------------
(* What the end of a transaction decides: with the root, all or nothing of   *)
(* the connection; with a savepoint, what was written since it began.        *)
LEMMA RootDecides ==
    ASSUME SessionTypeOK, NEW t \in Txs, NEW c \in Conns, home[t] = c, root[c] = t,
           CommitOk(t) \/ CommitFails(t) \/ RollbackOk(t) \/ RollbackFails(t)
    PROVE  \E L \in {{}, Live(c)} :
             /\ \A u \in Txs \ L : fate'[u] = fate[u]
             /\ \A u \in L : fate'[u] \in {"undone", "durable"}
             /\ RollbackOk(t) \/ RollbackFails(t) => \A u \in L : fate'[u] = "undone"
             /\ CommitOk(t) => conn[c] = "open"
<1>0. Live(c) \subseteq Txs /\ fate \in [Txs -> Fate]
  BY DEF Live, OnConn, SessionTypeOK
<1>1. \A f, S : S \subseteq Txs /\ Settle(S, f) => /\ \A u \in Txs \ S : fate'[u] = fate[u]
                                                  /\ \A u \in S : fate'[u] = f
  BY DEF Settle
<1>2. CASE CommitOk(t)
  <2>1. Settle(Live(c), "durable") /\ conn[c] = "open" /\ active[t] /\ ~active'[t] /\ root'[c] = NoTx
    BY <1>2 DEF CommitOk, EndRoot, Deactivate, OnConn, SessionTypeOK
  <2>2. UNCHANGED conn
    BY <1>2 DEF CommitOk
  <2>3. \A u \in Live(c) : fate'[u] = "durable"
    BY <1>0, <1>1, <2>1
  <2>4. CASE RollbackOk(t) \/ RollbackFails(t)
    <3>1. \E f \in {"undone"} : UNCHANGED fate \/ Settle(Live(c), f)
      BY <1>0, <2>4 DEF RollbackOk, RollbackFails, Settle, Drop
    <3>2. CASE UNCHANGED fate
      BY <2>1, <3>2
    <3>3. CASE Settle(Live(c), "undone")
      BY <1>0, <1>1, <2>1, <3>3
    <3> QED BY <3>1, <3>2, <3>3
  <2>5. CASE ~(RollbackOk(t) \/ RollbackFails(t))
    BY <1>0, <1>1, <2>1, <2>3, <2>5
  <2> QED BY <2>4, <2>5
<1>3. CASE ~CommitOk(t)
  <2>1. CASE RollbackOk(t) \/ RollbackFails(t)
    <3>1. UNCHANGED fate \/ Settle(Live(c), "undone")
      BY <1>0, <2>1 DEF RollbackOk, RollbackFails, Settle, Drop
    <3>2. CASE UNCHANGED fate
      BY <1>3, <3>2
    <3>3. CASE Settle(Live(c), "undone")
      BY <1>0, <1>1, <1>3, <3>3
    <3> QED BY <3>1, <3>2, <3>3
  <2>2. CASE ~(RollbackOk(t) \/ RollbackFails(t))
    <3>1. \/ UNCHANGED fate
          \/ Settle(Live(c), "undone")
          \/ Settle(Live(c), "durable")
      BY <1>3, <2>2 DEF CommitFails, Drop
    <3> QED BY <1>0, <1>1, <1>3, <2>2, <3>1
  <2> QED BY <2>1, <2>2
<1> QED BY <1>2, <1>3

(* The commit of a savepoint leaves its writes to the transaction around it. *)
LEMMA TopDecides ==
    ASSUME SessionTypeOK, NEW t \in Txs, NEW c \in Conns, home[t] = c, root[c] # t
    PROVE  /\ CommitOk(t) =>
                /\ conn[c] = "open" /\ UNCHANGED conn /\ Usable(c) /\ active[t]
                /\ \A u \in Txs : u \in Live(c) /\ u >= t => fate'[u] = "merged"
                /\ \A u \in Txs : ~(u \in Live(c) /\ u >= t) => fate'[u] = fate[u]
           /\ CommitFails(t) \/ RollbackFails(t) => UNCHANGED <<conn, fate>> \/ Drop(c, "undone")
           /\ RollbackOk(t) => UNCHANGED conn /\ (Sends(t) => Usable(c))
           /\ RollbackOk(t) /\ ~Sends(t) => UNCHANGED fate
           /\ RollbackOk(t) /\ Sends(t) =>
                /\ \A u \in Txs : u \in Live(c) /\ u >= t => fate'[u] = "undone"
                /\ \A u \in Txs : ~(u \in Live(c) /\ u >= t) => fate'[u] = fate[u]
<1>0. fate \in [Txs -> Fate]
  BY DEF SessionTypeOK
<1>1. CommitOk(t) =>
        /\ conn[c] = "open" /\ UNCHANGED conn /\ Usable(c) /\ active[t]
        /\ Settle({u \in Live(c) : u >= t}, "merged")
  BY DEF CommitOk
<1>2. \A f : Settle({u \in Live(c) : u >= t}, f) =>
        /\ \A u \in Txs : u \in Live(c) /\ u >= t => fate'[u] = f
        /\ \A u \in Txs : ~(u \in Live(c) /\ u >= t) => fate'[u] = fate[u]
  BY DEF Settle
<1>3. CommitFails(t) \/ RollbackFails(t) => UNCHANGED <<conn, fate>> \/ Drop(c, "undone")
  BY DEF CommitFails, RollbackFails
<1>4. RollbackOk(t) => UNCHANGED conn /\ (Sends(t) => Usable(c))
  BY DEF RollbackOk
<1>5. RollbackOk(t) /\ ~Sends(t) => UNCHANGED fate
  BY <1>0 DEF RollbackOk, Settle
<1>6. RollbackOk(t) /\ Sends(t) => Settle({u \in Live(c) : u >= t}, "undone")
  BY DEF RollbackOk
<1> QED BY <1>1, <1>2, <1>3, <1>4, <1>5, <1>6

(* What is decided stays so; no writes become undecided again.               *)
LEMMA Decided ==
    ASSUME Begun, NEW p \in Tasks, Step(p), NEW t \in Txs, home[t] # NoConn
    PROVE  /\ home'[t] = home[t]
           /\ fate[t] = "durable" => fate'[t] = "durable"
           /\ Undecided(t)' => Undecided(t)
           /\ fate'[t] # fate[t] => Undecided(t)
<1>1. Moves(p) /\ home'[t] = home[t]
  BY SessionMoves, KeepsStep DEF Begun, Keeps
<1>2. CASE UNCHANGED fate
  BY <1>1, <1>2 DEF Undecided
<1>3. ASSUME NEW c \in Conns, Winds(c)
      PROVE  /\ fate[t] = "durable" => fate'[t] = "durable"
             /\ Undecided(t)' => Undecided(t)
             /\ fate'[t] # fate[t] => Undecided(t)
  BY <1>3 DEF Winds, Undecided
<1>4. ASSUME NEW c \in Conns, NEW u \in Txs, Begins(c, u) PROVE fate'[t] = fate[t]
  BY <1>4, SessionAssumption DEF Begins
<1> QED BY <1>1, <1>2, <1>3, <1>4 DEF Moves, session, Undecided

\* A dropped or closed connection has nothing undecided left.
LEMMA Settles ==
    ASSUME SessionTypeOK, NEW c \in Conns, NEW f \in {"undone", "durable"}, Settle(Live(c), f)
    PROVE  \A t \in OnConn(c) : ~Undecided(t)'
BY DEF SessionTypeOK, Settle, Live, OnConn, Undecided

(* A connection that is lost or returned has no transaction left undecided. *)
LEMMA Lost ==
    ASSUME ChainInv, NEW p \in Tasks, Step(p), NEW c \in Conns
    PROVE  conn'[c] = conn[c] \/ conn'[c] = "open" \/ \A t \in OnConn(c) : ~Undecided(t)'
<1>0. SessionTypeOK
  BY DEF ChainInv, AloneInv, Begun, TypeInv, TypeOK
<1>1. ASSUME NEW d, NEW f \in {"undone", "durable"}, Drop(d, f)
      PROVE  conn'[c] = conn[c] \/ \A t \in OnConn(c) : ~Undecided(t)'
  <2>1. CASE d = c
    BY <1>0, <1>1, <2>1, Settles DEF Drop
  <2>2. CASE d # c
    BY <1>0, <1>1, <2>2 DEF Drop, SessionTypeOK
  <2> QED BY <2>1, <2>2
<1>2. CASE Ending(p)
  <2> PICK t : t = arg[p].tx
    OBVIOUS
  <2>1. CommitOk(t) \/ CommitFails(t) \/ RollbackOk(t) \/ RollbackFails(t)
    BY <1>2 DEF Ending, FinishCommit, FailCommit, FinishRollback, FailRollback
  <2>2. UNCHANGED conn \/ \E d : \E f \in {"undone", "durable"} : Drop(d, f)
    BY <2>1 DEF CommitOk, CommitFails, RollbackOk, RollbackFails
  <2> QED BY <1>1, <2>2
<1>3. CASE FinishClose(p) \/ FailClose(p)
  <2> PICK d : d = arg[p].conn
    OBVIOUS
  <2>1. d \in Conns /\ Winds(d) /\ (CloseOk(d) \/ CloseFails(d))
    BY <1>3, ClosesConn DEF ChainInv, AloneInv, FinishClose, FailClose
  <2>2. Settle(Live(d), "undone")
    BY <2>1 DEF CloseOk, CloseFails, Drop
  <2>3. d # c => conn'[c] = conn[c]
    BY <2>1 DEF Winds
  <2> QED BY <1>0, <2>2, <2>3, Settles
<1>4. CASE FailSavepoint(p)
  BY <1>1, <1>4 DEF FailSavepoint, session
<1>5. CASE FinishConnect(p) \/ BeginFails(p)
  BY <1>0, <1>5 DEF FinishConnect, BeginFails, Connect, SessionTypeOK
<1>6. CASE BeginOnConnection(p) \/ FinishSavepoint(p)
  BY <1>6 DEF BeginOnConnection, FinishSavepoint, BeginNested
<1>7. CASE \/ StartConnect(p) \/ StartSavepoint(p) \/ Commit(p) \/ Rollback(p) \/ Exit(p) \/ Close(p)
           \/ AfterCommit(p) \/ EndCallback(p) \/ Spawn(p) \/ FailConnect(p) \/ Invoke(p)
  <2>1. UNCHANGED session
    BY <1>7 DEF StartConnect, StartSavepoint, Commit, Rollback, Exit, Close, AfterCommit, EndCallback,
                CallbackReturns, CallbackRaises, Spawn, FailConnect, Invoke
  <2> QED BY <2>1 DEF session
<1> QED BY <1>2, <1>3, <1>4, <1>5, <1>6, <1>7 DEF Step, Begin, Continue, Ending

(* No writes are undecided on a connection that is not open.                 *)
LEMMA AliveStep == ASSUME ChainInv, Alive, NEW p \in Tasks, Step(p) PROVE Alive'
<1> SUFFICES ASSUME NEW t \in Txs, Undecided(t)' PROVE conn'[home'[t]] = "open"
  BY DEF Alive
<1>0. SessionTypeOK /\ Begun
  BY DEF ChainInv, AloneInv, Begun, TypeInv, TypeOK
<1>1. CASE home[t] # NoConn
  <2> PICK c \in Conns : c = home[t]
    BY <1>0, <1>1 DEF SessionTypeOK
  <2>1. home'[t] = c /\ Undecided(t)
    BY <1>0, <1>1, Decided
  <2>2. conn[c] = "open" /\ t \in OnConn(c)
    BY <2>1 DEF Alive, OnConn
  <2> QED BY <2>1, <2>2, Lost
<1>2. CASE home[t] = NoConn
  <2>0. fate[t] = "none" /\ home'[t] # NoConn
    <3>1. Begun'
      BY <1>0, BegunStep
    <3>2. fate[t] = "none"
      BY <1>0, <1>2 DEF Begun, Placed
    <3> QED BY <3>1, <3>2 DEF Begun, Placed, Undecided
  <2>1. CASE FinishConnect(p)
    <3> PICK c \in Conns, u \in Txs : Connect(c) /\ BeginRoot(c, u)
      BY <2>1 DEF FinishConnect
    <3>1. conn'[c] = "open" /\ home' = [home EXCEPT ![u] = c]
      BY <1>0 DEF Connect, BeginRoot, Start, SessionTypeOK
    <3> QED BY <1>0, <1>2, <2>0, <3>1 DEF SessionTypeOK
  <2>2. CASE BeginOnConnection(p)
    <3> PICK c \in Conns : c = Current(p) /\ Names(p, c) /\ conn[c] \notin {"free", "closed"}
      BY <2>2, Works, SessionAssumption DEF BeginOnConnection, Named, ChainInv, AloneInv, Begun, Current
    <3> PICK u \in Txs : BeginRoot(c, u) /\ UNCHANGED conn
      BY <2>2 DEF BeginOnConnection
    <3>1. t = u /\ home'[t] = c
      BY <1>0, <1>2, <2>0 DEF BeginRoot, Start, SessionTypeOK
    <3>2. fate'[t] = IF conn[c] = "lost" THEN "undone" ELSE "open"
      BY <1>0, <3>1 DEF BeginRoot, SessionTypeOK
    <3> QED BY <1>0, <3>1, <3>2 DEF SessionTypeOK, ConnState, Undecided
  <2>3. CASE FinishSavepoint(p)
    <3> PICK c : c = arg[p].conn
      OBVIOUS
    <3> PICK u \in Txs : BeginNested(c, u)
      BY <2>3 DEF FinishSavepoint
    <3>1. home' = [home EXCEPT ![u] = c] /\ conn'[c] = "open"
      BY DEF BeginNested, Start
    <3> QED BY <1>0, <1>2, <2>0, <3>1 DEF SessionTypeOK
  <2>4. CASE ~(FinishConnect(p) \/ BeginOnConnection(p) \/ FinishSavepoint(p))
    <3>1. UNCHANGED home
      <4>1. CASE Ending(p)
        <5>1. \A u : CommitOk(u) \/ CommitFails(u) \/ RollbackOk(u) \/ RollbackFails(u) => UNCHANGED home
          BY DEF CommitOk, CommitFails, RollbackOk, RollbackFails
        <5> QED BY <4>1, <5>1 DEF Ending, FinishCommit, FailCommit, FinishRollback, FailRollback
      <4>2. CASE FinishClose(p) \/ FailClose(p) \/ BeginFails(p) \/ FailSavepoint(p)
        BY <4>2 DEF FinishClose, FailClose, BeginFails, FailSavepoint, CloseOk, CloseFails, session
      <4>3. CASE \/ StartConnect(p) \/ StartSavepoint(p) \/ Commit(p) \/ Rollback(p) \/ Exit(p) \/ Close(p)
                 \/ AfterCommit(p) \/ EndCallback(p) \/ Spawn(p) \/ FailConnect(p) \/ Invoke(p)
        BY <4>3 DEF StartConnect, StartSavepoint, Commit, Rollback, Exit, Close, AfterCommit, EndCallback,
                    CallbackReturns, CallbackRaises, Spawn, FailConnect, Invoke, session
      <4> QED BY <2>4, <4>1, <4>2, <4>3 DEF Step, Begin, Continue, Ending
    <3> QED BY <1>2, <2>0, <3>1
  <2> QED BY <2>1, <2>2, <2>3, <2>4
<1> QED BY <1>1, <1>2

(* Nor is a callback that is to be run, has run or was given up forgotten.   *)
LEMMA Carried ==
    ASSUME TypeInv, Due, NEW p \in Tasks, Step(p), NEW k \in Callbacks
    PROVE  /\ k \in reported => k \in reported'
           /\ k \in ran \/ (\E q \in Tasks : Awaited(q, k))
                => k \in reported' \/ k \in ran' \/ \E q \in Tasks : Awaited(q, k)'
<1>1. \E M : Flows(p, M)
  BY Flow
<1>2. \A q \in Tasks \ {p} : Awaited(q, k)' <=> Awaited(q, k)
  BY OthersStay DEF Others, Awaited, Looped
<1> QED BY <1>1, <1>2 DEF Flows

\* A callback is queued once.
LEMMA Registered ==
    ASSUME TypeInv, NEW p \in Tasks, Step(p), NEW k \in Callbacks, reg[k] # Unused
    PROVE  reg'[k] = reg[k]
<1>1. CASE AfterCommit(p)
  <2> PICK j \in Callbacks : /\ reg[j] = Unused
                             /\ Queue(j, CurrentTx(p)) \/ RunAtOnce(j)
    BY <1>1, TransactionsAssumption DEF AfterCommit
  <2> QED BY DEF Queue, RunAtOnce, TypeInv, TypeOK
<1>2. CASE ~AfterCommit(p)
  <2>1. reg' = reg
    BY <1>2 DEF Step, Begin, Continue, EndCallback, StartConnect, BeginOnConnection, StartSavepoint, Commit,
           Rollback, Exit, Close, CallbackReturns, CallbackRaises, Spawn, FinishConnect, BeginFails, FailConnect,
           FinishSavepoint, FailSavepoint, FinishCommit, FailCommit, FinishRollback, FailRollback,
           FinishClose, FailClose, Invoke, history
  <2> QED BY <2>1
<1> QED BY <1>1, <1>2

-----------------------------------------------------------------------------
(* A step that takes records off connection c and decides transactions L.    *)
Falls(c, L) ==
    /\ UNCHANGED <<home, reg>> /\ L \subseteq OnConn(c)
    /\ \A t \in Txs \ L : fate'[t] = fate[t]
    /\ \A t \in L : fate'[t] \in {"undone", "durable"}
    /\ recorded' \subseteq recorded /\ \A u \in recorded : home[u] # c => u \in recorded'
    /\ \A u \in Txs : cbs'[u] = IF u \in recorded' THEN cbs[u] ELSE {}
    /\ \A d \in Conns : conn'[d] = "open" => conn[d] \in {"open", "free"} /\ (Closing(d) => Closing(d)')
    /\ \A u \in recorded' \cap L : conn'[c] # "open" /\ fate'[u] = "undone"
    /\ \A u \in recorded', k \in Callbacks : home[u] = c /\ k \in cbs[u] /\ conn'[c] = "open" => reg[k] \notin L
    /\ \A u \in recorded \ recorded', k \in Callbacks :
         k \in cbs[u] /\ conn'[c] = "open" /\ ~Closing(c)' => k \in reported' \/ reg[k] \in L
    /\ \A k \in Callbacks : reg[k] \in L /\ Undecided(reg[k]) /\ fate'[reg[k]] = "durable"
         => k \in reported' \/ \E p \in Tasks : Awaited(p, k)'

(* Lists that lose callbacks are still those of the transactions named in reg. *)
LEMMA FallsFiles ==
    ASSUME DeliveryInv, NEW p \in Tasks, Step(p), NEW c, NEW L, Falls(c, L)
    PROVE  Files'
<1>0. recorded \subseteq Txs /\ SessionTypeOK
  BY DEF DeliveryInv, ChainInv, AloneInv, Begun, TypeInv, TypeOK
<1>a. UNCHANGED <<home, reg>> /\ recorded' \subseteq recorded
  BY DEF Falls
<1>b. \A u \in Txs : home[u] # NoConn => home[u] \in Conns /\ conn[home[u]] # "free"
  BY <1>0 DEF DeliveryInv, ChainInv, AloneInv, Begun, Placed, SessionTypeOK
<1>c. \A u \in recorded : u \in Txs /\ home[u] # NoConn
  BY <1>0 DEF DeliveryInv, ChainInv, AloneInv, Begun, Named
<1>d. \A u \in Txs : home[u] # NoConn /\ conn'[home[u]] = "open" => conn[home[u]] = "open"
  BY <1>b DEF Falls
<1>e. \A u \in L : u \in Txs /\ home[u] = c
  BY DEF Falls, OnConn
<1>1. \A t \in Txs : t \notin recorded' => cbs'[t] = {}
  BY DEF Falls
<1>2. ASSUME NEW t \in recorded'
      PROVE  fate'[t] # "durable" /\ (conn'[home[t]] = "open" => Undecided(t)')
  <2>1. t \in recorded /\ t \in Txs /\ home[t] # NoConn
    BY <1>2, <1>a, <1>c
  <2>2. CASE t \in L
    BY <1>2, <1>e, <2>2 DEF Falls
  <2>3. CASE t \notin L
    <3>1. fate'[t] = fate[t]
      BY <2>1, <2>3 DEF Falls
    <3> QED BY <1>d, <2>1, <3>1 DEF DeliveryInv, Files, Undecided
  <2> QED BY <2>2, <2>3
<1>3. ASSUME NEW t \in Txs, NEW k \in Callbacks, k \in cbs'[t]
      PROVE  /\ reg[k] \in Txs /\ home[reg[k]] = home[t] /\ t <= reg[k]
             /\ conn'[home[t]] = "open" => Undecided(reg[k])'
             /\ \A w \in recorded' : home[w] = home[t] /\ t < w => reg[k] < w
  <2>1. t \in recorded' /\ t \in recorded /\ k \in cbs[t]
    BY <1>3, <1>a DEF Falls
  <2>2. /\ reg[k] \in Txs /\ home[reg[k]] = home[t] /\ t <= reg[k]
        /\ conn[home[t]] = "open" => Undecided(reg[k])
        /\ \A w \in recorded : home[w] = home[t] /\ t < w => reg[k] < w
    BY <2>1 DEF DeliveryInv, Files
  <2>3. conn'[home[t]] = "open" => Undecided(reg[k])'
    <3> SUFFICES ASSUME conn'[home[t]] = "open" PROVE Undecided(reg[k])'
      OBVIOUS
    <3>1. Undecided(reg[k])
      BY <1>c, <1>d, <2>1, <2>2
    <3>2. reg[k] \notin L
      BY <1>e, <2>1, <2>2 DEF Falls
    <3>3. fate'[reg[k]] = fate[reg[k]]
      BY <2>2, <3>2 DEF Falls
    <3> QED BY <1>a, <3>1, <3>3 DEF Undecided
  <2> QED BY <1>a, <2>2, <2>3
<1>4. \A k \in Callbacks : reg'[k] \in Txs => home'[reg'[k]] # NoConn
  BY <1>a DEF DeliveryInv, Files
<1> QED BY <1>1, <1>2, <1>3, <1>4, <1>a DEF Files

(* A callback leaves its list only decided, and awaited or reported if durable. *)
LEMMA FallsKept ==
    ASSUME DeliveryInv, NEW p \in Tasks, Step(p), NEW c, NEW L, Falls(c, L)
    PROVE  Kept'
<1> SUFFICES ASSUME NEW k \in Callbacks, NEW t \in Txs, t = reg[k], NEW d, d = home[t]
             PROVE  /\ Undecided(t)' /\ ~Closing(d)' => k \in reported' \/ Filed(k)'
                    /\ fate'[t] = "durable" => k \in reported' \/ k \in ran' \/ \E q \in Tasks : Awaited(q, k)'
  <2>1. UNCHANGED <<home, reg>>
    BY DEF Falls
  <2> QED BY <2>1 DEF Kept, Durable, Undecided
<1>0. TypeInv /\ SessionTypeOK /\ Begun /\ Due
  BY DEF DeliveryInv, ChainInv, AloneInv, Begun, TypeInv, TypeOK
<1>a. d \in Conns
  BY <1>0 DEF DeliveryInv, Files, SessionTypeOK
<1>b. /\ Undecided(t) /\ ~Closing(d) => k \in reported \/ Filed(k)
      /\ fate[t] = "durable" => k \in reported \/ k \in ran \/ \E q \in Tasks : Awaited(q, k)
  BY DEF DeliveryInv, Kept, Durable
<1>c. t \notin L => fate'[t] = fate[t]
  BY DEF Falls
<1>1. ASSUME Undecided(t)', ~Closing(d)' PROVE k \in reported' \/ Filed(k)'
  <2>1. t \notin L
    BY <1>1 DEF Falls, Undecided
  <2>2. Undecided(t)
    BY <1>1, <1>c, <2>1 DEF Undecided
  <2>3. conn'[d] = "open"
    <3>1. Alive'
      BY AliveStep DEF DeliveryInv
    <3> QED BY <1>1, <3>1 DEF Alive, Falls
  <2>4. ~Closing(d)
    BY <1>1, <1>a, <2>3 DEF Falls
  <2>5. CASE k \in reported
    BY <1>0, <2>5, Carried
  <2>6. CASE Filed(k)
    <3> PICK u \in recorded : k \in cbs[u]
      BY <2>6 DEF Filed
    <3>1. u \in Txs /\ home[u] = d
      BY <1>0 DEF DeliveryInv, Files, TypeInv, TypeOK
    <3>2. CASE u \in recorded'
      BY <3>1, <3>2 DEF Falls, Filed
    <3>3. CASE u \notin recorded'
      <4>1. home[u] = c
        BY <3>3 DEF Falls
      <4> QED BY <1>1, <2>1, <2>3, <3>1, <3>3, <4>1 DEF Falls
    <3> QED BY <3>2, <3>3
  <2> QED BY <1>b, <2>2, <2>4, <2>5, <2>6
<1>2. ASSUME fate'[t] = "durable" PROVE k \in reported' \/ k \in ran' \/ \E q \in Tasks : Awaited(q, k)'
  <2>1. CASE fate[t] = "durable"
    BY <1>0, <1>b, <2>1, Carried
  <2>2. CASE fate[t] # "durable"
    <3>1. t \in L
      BY <1>2, <1>c, <2>2
    <3>2. Undecided(t)
      <4>1. home[t] # NoConn
        BY DEF DeliveryInv, Files
      <4> QED BY <1>0, <1>2, <2>2, <4>1, Decided
    <3> QED BY <1>2, <3>1, <3>2 DEF Falls
  <2> QED BY <2>1, <2>2
<1> QED BY <1>1, <1>2

-----------------------------------------------------------------------------
(* The end of a root takes all records of its connection, and what they hold *)
(* is due, given up or undone.                                               *)
LEMMA RootFalls ==
    ASSUME DeliveryInv, NEW p \in Tasks, Step(p), Ending(p),
           NEW t, t = arg[p].tx, NEW c, c = home[t], root[c] = t
    PROVE  \E L : Falls(c, L)
<1>0. /\ TypeInv /\ Begun /\ SessionTypeOK /\ Due /\ ChainInv
      /\ recorded \subseteq Txs /\ cbs \in [Txs -> SUBSET Callbacks]
  BY DEF DeliveryInv, ChainInv, AloneInv, Begun, TypeInv, TypeOK
<1>1. c \in Conns /\ Winds(c) /\ Names(p, c)
  BY <1>0, EndsReleased DEF Ending
<1>2. t \in Txs /\ pc[p] \in {"commit", "rollback"}
  BY <1>0, Works DEF Begun, Ending, FinishCommit, FailCommit, FinishRollback, FailRollback
<1>3. CommitOk(t) \/ CommitFails(t) \/ RollbackOk(t) \/ RollbackFails(t)
  BY DEF Ending, FinishCommit, FailCommit, FinishRollback, FailRollback
<1>4. ~InTransaction(c)'
  BY <1>0, <1>1, <1>2, <1>3, RootEnds
<1>5. /\ Drops(OnConn(c))
      /\ \A k : k \in Collected(t) <=> \E u \in recorded : home[u] = c /\ k \in cbs[u]
      /\ Batch(t) = Collected(t)
  <2>1. FinishCommit(p) => ManagerCommit(c, t, ~StaysIn(c))
    BY DEF FinishCommit
  <2>2. ~FinishCommit(p) => \E f : ManagerRollback(c, t, f)
    BY DEF Ending, FailCommit, FinishRollback, FailRollback, AfterRollback
  <2> QED BY <1>0, <1>1, <1>2, <2>1, <2>2, RootLeaves
<1>6. PICK L \in {{}, Live(c)} :
         /\ \A u \in Txs \ L : fate'[u] = fate[u]
         /\ \A u \in L : fate'[u] \in {"undone", "durable"}
         /\ RollbackOk(t) \/ RollbackFails(t) => \A u \in L : fate'[u] = "undone"
         /\ CommitOk(t) => conn[c] = "open"
  BY <1>0, <1>1, <1>2, <1>3, RootDecides
<1>7. L \subseteq OnConn(c)
  BY <1>6 DEF Live
<1>8. /\ \A u \in Txs : u \in recorded' <=> u \in recorded /\ home[u] # c
      /\ \A u \in Txs : cbs'[u] = IF u \in recorded' THEN cbs[u] ELSE {}
      /\ recorded' \subseteq recorded
  BY <1>0, <1>5 DEF Drops, Keep, OnConn
<1>9. FailCommit(p) \/ Closing(c)'
  <2>1. \A batch : Release(p, c, batch) => pc'[p] = "close" /\ arg'[p].conn = c
    BY <1>0 DEF Release, Suspend, TypeInv, TypeOK
  <2>2. ~StaysIn(c)
    BY <1>4 DEF StaysIn, InTransaction
  <2>3. FailCommit(p) \/ \E batch : Release(p, c, batch)
    BY <2>2 DEF Ending, FinishCommit, FinishRollback, FailRollback, AfterRollback
  <2> QED BY <2>1, <2>3 DEF Closing
<1>10. FailCommit(p) => Collected(t) \subseteq reported'
  BY DEF FailCommit
<1>11. \A d \in Conns : conn'[d] = "open" => conn[d] \in {"open", "free"} /\ (Closing(d) => Closing(d)')
  <2>1. ~(FinishClose(p) \/ FailClose(p))
    BY <1>2 DEF FinishClose, FailClose
  <2> QED BY <1>0, <1>1, <2>1, ClosingStays DEF Winds
<1>12. \A u \in recorded \ recorded', k \in Callbacks :
         k \in cbs[u] /\ conn'[c] = "open" /\ ~Closing(c)' => k \in reported' \/ reg[k] \in L
  BY <1>0, <1>5, <1>8, <1>9, <1>10
<1>13. ASSUME NEW k \in Callbacks, reg[k] \in L, Undecided(reg[k]), fate'[reg[k]] = "durable"
       PROVE  k \in reported' \/ \E q \in Tasks : Awaited(q, k)'
  <2>1. FinishCommit(p) \/ FailCommit(p)
    BY <1>6, <1>13 DEF Ending, FinishRollback, FailRollback
  <2>2. reg[k] \in Txs /\ home[reg[k]] = c /\ conn[c] = "open"
    BY <1>7, <1>13 DEF OnConn, DeliveryInv, Alive
  <2>3. ~Closing(c)
    BY <1>1, <1>2, <2>2 DEF Closing, Names, DeliveryInv, ChainInv, AloneInv, Apart
  <2>4. k \in reported \/ Filed(k)
    BY <1>13, <2>2, <2>3 DEF DeliveryInv, Kept
  <2>5. CASE k \in reported
    BY <1>0, <2>5, Carried
  <2>6. CASE Filed(k)
    <3> PICK u \in recorded : k \in cbs[u]
      BY <2>6 DEF Filed
    <3>1. home[u] = c
      BY <1>0, <2>2 DEF DeliveryInv, Files
    <3>2. k \in Collected(t) /\ k \in Batch(t)
      BY <1>5, <3>1
    <3>3. CASE FailCommit(p)
      BY <1>10, <3>2, <3>3
    <3>4. CASE FinishCommit(p)
      <4>1. Flows(p, Batch(t))
        BY <1>0, <3>4, Flow
      <4> QED BY <3>2, <4>1 DEF Flows
    <3> QED BY <2>1, <3>3, <3>4
  <2> QED BY <2>4, <2>5, <2>6
<1>14. UNCHANGED <<home, reg>>
  BY <1>1 DEF Winds, Ending, FinishCommit, FailCommit, FinishRollback, FailRollback, history
<1>15. /\ \A u \in recorded : home[u] # c => u \in recorded'
       /\ \A u \in recorded' \cap L : conn'[c] # "open" /\ fate'[u] = "undone"
       /\ \A u \in recorded', k \in Callbacks : home[u] = c /\ k \in cbs[u] /\ conn'[c] = "open" => reg[k] \notin L
  BY <1>0, <1>7, <1>8 DEF OnConn
<1>16. Falls(c, L)
  BY <1>6, <1>7, <1>8, <1>11, <1>12, <1>13, <1>14, <1>15 DEF Falls
<1> QED BY <1>16

(* The rollback or failed commit of a savepoint drops its record alone, with *)
(* the callbacks of what the rollback undid; a commit keeps them.            *)
LEMMA TopFalls ==
    ASSUME DeliveryInv, NEW p \in Tasks, Step(p), Ending(p), ~FinishCommit(p),
           NEW t, t = arg[p].tx, NEW c, c = home[t], root[c] # t
    PROVE  \E L : Falls(c, L)
<1>0. /\ TypeInv /\ Begun /\ SessionTypeOK /\ Due /\ ChainInv
      /\ recorded \subseteq Txs /\ cbs \in [Txs -> SUBSET Callbacks]
  BY DEF DeliveryInv, ChainInv, AloneInv, Begun, TypeInv, TypeOK
<1>1. c \in Conns /\ Winds(c) /\ Names(p, c)
  BY <1>0, EndsReleased DEF Ending
<1>2. t \in Txs /\ pc[p] \in {"commit", "rollback"} /\ t \in Nat
  BY <1>0, Works, TxsAreNumbers DEF Begun, Ending, FinishCommit, FailCommit, FinishRollback, FailRollback
<1>3. CommitOk(t) \/ CommitFails(t) \/ RollbackOk(t) \/ RollbackFails(t)
  BY DEF Ending, FinishCommit, FailCommit, FinishRollback, FailRollback
<1>4. active[t] => nested[c] = t
  BY <1>0, <1>2 DEF ChainInv, Top, Innermost
<1>5. Drops({t}) /\ Collected(t) = (IF t \in recorded THEN cbs[t] ELSE {})
  <2>1. PICK f : ManagerRollback(c, t, f) /\ (f => ~InTransaction(c))
    <3>1. root' = root /\ (\A u \in Txs : active'[u] <=> active[u] /\ u # t)
      BY <1>0, <1>1, <1>2, <1>3, TopEnds
    <3>2. ~StaysIn(c) => ~InTransaction(c)
      BY <1>0, <1>1, <3>1 DEF StaysIn, InTransaction, SessionTypeOK
    <3>3. ManagerRollback(c, t, FALSE) \/ ManagerRollback(c, t, ~StaysIn(c))
      BY DEF Ending, FailCommit, FinishRollback, FailRollback, AfterRollback
    <3> QED BY <3>2, <3>3
  <2> QED BY <1>0, <1>1, <1>2, <1>4, <2>1, TopLeaves
<1>6. /\ \A u \in Txs : u \in recorded' <=> u \in recorded /\ u # t
      /\ \A u \in Txs : cbs'[u] = IF u \in recorded' THEN cbs[u] ELSE {}
      /\ recorded' \subseteq recorded
  BY <1>0, <1>5 DEF Drops, Keep
<1>7. FinishRollback(p) \/ (t \in recorded => cbs[t] \subseteq reported')
  BY <1>5 DEF Ending, FailCommit, FailRollback
<1>8. \A d \in Conns : conn'[d] = "open" => conn[d] \in {"open", "free"} /\ (Closing(d) => Closing(d)')
  <2>1. ~(FinishClose(p) \/ FailClose(p))
    BY <1>2 DEF FinishClose, FailClose
  <2> QED BY <1>0, <1>1, <2>1, ClosingStays DEF Winds
<1>9. UNCHANGED <<home, reg>>
  BY <1>1 DEF Winds, Ending, FailCommit, FinishRollback, FailRollback, history
<1>10. \A u \in recorded : home[u] # c => u \in recorded'
  BY <1>0, <1>6
<1>a. FinishRollback(p) => RollbackOk(t) /\ pc[p] = "rollback"
  BY DEF FinishRollback
<1>b. ~FinishRollback(p) => CommitFails(t) \/ RollbackFails(t)
  BY DEF Ending, FailCommit, FailRollback
<1>11. CASE ~FinishRollback(p)
  <2>1. UNCHANGED <<conn, fate>> \/ Drop(c, "undone")
    BY <1>0, <1>1, <1>2, <1>11, <1>b, TopDecides
  <2>2. CASE UNCHANGED <<conn, fate>>
    <3>1. \A u \in recorded \ recorded', k \in Callbacks : k \in cbs[u] => k \in reported'
      BY <1>0, <1>6, <1>7, <1>11
    <3>2. Falls(c, {})
      BY <1>6, <1>8, <1>9, <1>10, <2>2, <3>1 DEF Falls
    <3> QED BY <3>2
  <2>3. CASE Drop(c, "undone")
    <3>1. /\ Live(c) \subseteq OnConn(c) /\ OnConn(c) \subseteq Txs /\ conn'[c] = "lost"
          /\ \A u \in Txs \ Live(c) : fate'[u] = fate[u]
          /\ \A u \in Live(c) : fate'[u] = "undone"
      BY <1>0, <1>1, <2>3 DEF Drop, Settle, Live, OnConn, SessionTypeOK
    <3>2. Falls(c, Live(c))
      BY <1>6, <1>8, <1>9, <1>10, <3>1 DEF Falls
    <3> QED BY <3>2
  <2> QED BY <2>1, <2>2, <2>3
<1>12. CASE FinishRollback(p) /\ ~Sends(t)
  <2>1. UNCHANGED fate /\ UNCHANGED conn
    BY <1>0, <1>1, <1>2, <1>12, <1>a, TopDecides
  <2>2. t \in recorded => conn'[c] # "open"
    BY <1>12, <2>1 DEF Sends, DeliveryInv, ChainInv, Records
  <2>3. Falls(c, {})
    BY <1>0, <1>6, <1>8, <1>9, <1>10, <2>1, <2>2 DEF Falls
  <2> QED BY <2>3
<1>13. CASE FinishRollback(p) /\ Sends(t)
  <2>1. /\ UNCHANGED conn /\ Usable(c) /\ active[t] /\ conn[c] = "open"
        /\ \A u \in Txs : u \in Live(c) /\ u >= t => fate'[u] = "undone"
        /\ \A u \in Txs : ~(u \in Live(c) /\ u >= t) => fate'[u] = fate[u]
    BY <1>0, <1>1, <1>2, <1>13, <1>a, TopDecides DEF Sends
  <2> DEFINE L == {u \in Live(c) : u >= t}
  <2>2. ~Closing(c)
    BY <1>1, <1>2, <2>1 DEF Closing, Names, DeliveryInv, ChainInv, AloneInv, Apart
  <2>3. t \in recorded
    BY <1>2, <2>1, <2>2 DEF Usable, DeliveryInv, ChainInv, Records
  <2>4. Innermost(c) = t
    BY <1>2, <1>4, <2>1, TxsAreNumbers DEF Innermost
  <2>5. \A u \in recorded' : home[u] = c => u < t /\ ~(u >= t) /\ u \in Txs
    <3> SUFFICES ASSUME NEW u \in recorded', home[u] = c PROVE u < t /\ ~(u >= t) /\ u \in Txs
      OBVIOUS
    <3>1. u \in recorded /\ u \in Txs /\ u # t /\ u \in Nat
      BY <1>0, <1>6, TxsAreNumbers
    <3>2. u <= t
      BY <2>4, <3>1 DEF DeliveryInv, ChainInv, Records
    <3> QED BY <1>2, <3>1, <3>2
  <2>6. \A u \in recorded', k \in Callbacks : home[u] = c /\ k \in cbs[u] => ~(reg[k] >= t)
    <3> SUFFICES ASSUME NEW u \in recorded', NEW k \in Callbacks, home[u] = c, k \in cbs[u] PROVE ~(reg[k] >= t)
      OBVIOUS
    <3>1. u \in Txs /\ u < t
      BY <2>5
    <3>2. reg[k] \in Txs /\ reg[k] < t
      BY <2>3, <3>1 DEF DeliveryInv, Files
    <3>3. reg[k] \in Nat
      BY <3>2, TxsAreNumbers
    <3> QED BY <1>2, <3>2, <3>3
  <2>7. \A u \in recorded \ recorded', k \in Callbacks : k \in cbs[u] => reg[k] \in L
    <3> SUFFICES ASSUME NEW k \in Callbacks, k \in cbs[t] PROVE reg[k] \in L
      BY <1>0, <1>6
    <3>1. reg[k] \in Txs /\ home[reg[k]] = c /\ t <= reg[k] /\ Undecided(reg[k])
      BY <1>2, <2>1 DEF DeliveryInv, Files
    <3>2. reg[k] >= t
      BY <1>2, <3>1, TxsAreNumbers
    <3> QED BY <3>1, <3>2 DEF Live, OnConn, Undecided
  <2>8. /\ L \subseteq OnConn(c) /\ L \subseteq Txs
        /\ \A u \in Txs \ L : fate'[u] = fate[u]
        /\ \A u \in L : fate'[u] = "undone" /\ home[u] = c
        /\ \A u \in recorded' : home[u] = c => u \notin L
        /\ \A u \in recorded', k \in Callbacks : home[u] = c /\ k \in cbs[u] => reg[k] \notin L
    BY <2>1, <2>5, <2>6 DEF Live, OnConn
  <2> HIDE DEF L
  <2>9. Falls(c, L)
    BY <1>0, <1>6, <1>8, <1>9, <1>10, <2>7, <2>8 DEF Falls
  <2> QED BY <2>9
<1> QED BY <1>11, <1>12, <1>13

(* Closing a connection forgets its records first; other steps leave them.   *)
LEMMA OtherFalls ==
    ASSUME DeliveryInv, NEW p \in Tasks, Step(p), ~Ending(p), ~AfterCommit(p),
           ~(FinishConnect(p) \/ BeginOnConnection(p) \/ FinishSavepoint(p))
    PROVE  \E c, L : Falls(c, L)
<1>0. /\ TypeInv /\ Begun /\ SessionTypeOK /\ Due /\ ChainInv
      /\ recorded \subseteq Txs /\ cbs \in [Txs -> SUBSET Callbacks]
  BY DEF DeliveryInv, ChainInv, AloneInv, Begun, TypeInv, TypeOK
<1>a. \A where, a : Suspend(p, where, a) => pc'[p] = where /\ arg'[p] = a
  BY <1>0 DEF Suspend, TypeInv, TypeOK
<1>b. \A c, batch : Release(p, c, batch) => Closing(c)'
  <2> SUFFICES ASSUME NEW c, NEW batch, Release(p, c, batch) PROVE Closing(c)'
    OBVIOUS
  <2>1. pc'[p] = "close" /\ arg'[p].conn = c
    BY <1>a DEF Release
  <2> QED BY <2>1 DEF Closing
<1>c. \A d \in Conns : pc[p] # "close" /\ Closing(d) => Closing(d)'
  <2>1. pc[p] # "close" => ~(FinishClose(p) \/ FailClose(p))
    BY DEF FinishClose, FailClose
  <2> QED BY <1>0, <2>1, ClosingStays
<1>d. \A u \in Txs : cbs[u] = IF u \in recorded THEN cbs[u] ELSE {}
  BY DEF DeliveryInv, Files
<1>1. ASSUME NEW c \in Conns, ManagerForget(c), Closing(c)', UNCHANGED <<home, fate, reg>>, pc[p] # "close",
             \A d \in Conns : conn'[d] = "open" => conn[d] \in {"open", "free"}
      PROVE  Falls(c, {})
  <2>1. /\ \A u \in recorded : home[u] # c => u \in recorded'
        /\ recorded' \subseteq recorded
        /\ \A u \in Txs : cbs'[u] = IF u \in recorded' THEN cbs[u] ELSE {}
    BY <1>1 DEF ManagerForget, Keep, OnConn
  <2> QED BY <1>1, <1>c, <2>1 DEF Falls
<1>2. CASE BeginFails(p)
  <2> PICK c \in Conns : Connect(c) /\ ManagerForget(c) /\ Suspend(p, "close", [Nothing EXCEPT !.conn = c])
    BY <1>2 DEF BeginFails
  <2>1. pc'[p] = "close" /\ arg'[p].conn = c
    BY <1>a DEF Nothing
  <2>2. Closing(c)' /\ UNCHANGED <<home, fate, reg>> /\ pc[p] # "close"
    BY <1>2, <2>1 DEF Closing, BeginFails, history
  <2>3. \A d \in Conns : conn'[d] = "open" => conn[d] \in {"open", "free"}
    BY <1>0 DEF Connect, SessionTypeOK
  <2> QED BY <1>1, <2>2, <2>3
<1>3. CASE Exit(p) /\ ~UNCHANGED registry
  <2> PICK t \in entered[p] : ManagerForget(home[t]) /\ Release(p, home[t], {})
    BY <1>3 DEF Exit
  <2> PICK c : c = home[t]
    OBVIOUS
  <2>1. c \in Conns
    BY <1>0, Works DEF Object, Begun, TypeInv, TypeOK
  <2>2. Closing(c)' /\ pc[p] # "close" /\ UNCHANGED <<home, fate, reg, conn>>
    BY <1>b, <1>3 DEF Exit, Idle, session, history
  <2> QED BY <1>1, <2>1, <2>2
<1>4. CASE Close(p)
  <2> PICK c \in Conns : c = Current(p)
    BY <1>0, <1>4, Works DEF Close, Begun
  <2>1. ManagerForget(c) /\ Closing(c)' /\ pc[p] # "close" /\ UNCHANGED <<home, fate, reg, conn>>
    BY <1>b, <1>4 DEF Close, Idle, session, history
  <2> QED BY <1>1, <2>1
<1>5. ASSUME NEW c \in Conns, Settle(Live(c), "undone"), UNCHANGED <<home, reg, registry>>, conn'[c] # "open",
             \A d \in Conns : conn'[d] = "open" => conn[d] = "open" /\ (Closing(d) => Closing(d)')
      PROVE  Falls(c, Live(c))
  <2>1. /\ Live(c) \subseteq OnConn(c) /\ OnConn(c) \subseteq Txs
        /\ \A u \in Txs \ Live(c) : fate'[u] = fate[u]
        /\ \A u \in Live(c) : fate'[u] = "undone"
    BY <1>0, <1>5 DEF Settle, Live, OnConn, SessionTypeOK
  <2> QED BY <1>5, <1>d, <2>1 DEF Falls, registry
<1>6. CASE FinishClose(p) \/ FailClose(p)
  <2> PICK c : c = arg[p].conn
    OBVIOUS
  <2>1. c \in Conns /\ Winds(c) /\ conn'[c] \in {"closed", "lost"} /\ UNCHANGED <<registry, reg>>
    BY <1>0, <1>6, ClosesConn DEF FinishClose, FailClose, history
  <2>2. Settle(Live(c), "undone") /\ UNCHANGED home
    BY <1>6 DEF FinishClose, FailClose, CloseOk, CloseFails, Drop
  <2>3. \A d \in Conns : conn'[d] = "open" => conn[d] = "open" /\ (Closing(d) => Closing(d)')
    BY <1>0, <2>1, ClosingStays DEF Winds
  <2>4. Falls(c, Live(c))
    BY <1>5, <2>1, <2>2, <2>3
  <2> QED BY <2>4
<1>7. ASSUME UNCHANGED <<home, conn, fate, reg, recorded, cbs>>, pc[p] # "close" PROVE Falls(NoConn, {})
  BY <1>7, <1>c, <1>d DEF Falls
<1>8. CASE FailSavepoint(p)
  <2> PICK c \in Conns : c = arg[p].conn
    BY <1>0, <1>8, Works DEF FailSavepoint, Begun
  <2>1. pc[p] # "close" /\ UNCHANGED <<home, reg, registry>> /\ (UNCHANGED session \/ Drop(c, "undone"))
    BY <1>8 DEF FailSavepoint, session, history
  <2>2. CASE UNCHANGED session
    <3>1. Falls(NoConn, {})
      BY <1>7, <2>1, <2>2 DEF session, registry
    <3> QED BY <3>1
  <2>3. CASE Drop(c, "undone")
    <3>1. /\ Settle(Live(c), "undone") /\ conn'[c] = "lost"
          /\ \A d \in Conns : conn'[d] = "open" => conn[d] = "open"
      BY <1>0, <2>3 DEF Drop, SessionTypeOK
    <3>2. Falls(c, Live(c))
      BY <1>5, <1>c, <2>1, <3>1
    <3> QED BY <3>2
  <2> QED BY <2>1, <2>2, <2>3
<1>9. CASE \/ StartConnect(p) \/ StartSavepoint(p) \/ Commit(p) \/ Rollback(p) \/ (Exit(p) /\ UNCHANGED registry)
           \/ EndCallback(p) \/ Spawn(p) \/ FailConnect(p) \/ Invoke(p)
  <2>1. UNCHANGED <<session, registry, reg>>
    BY <1>9 DEF StartConnect, StartSavepoint, Commit, Rollback, Exit, EndCallback,
                CallbackReturns, CallbackRaises, Spawn, FailConnect, Invoke, history
  <2>2. pc[p] # "close"
    BY <1>9 DEF StartConnect, StartSavepoint, Commit, Rollback, Exit, EndCallback,
                CallbackReturns, CallbackRaises, Spawn, FailConnect, Invoke, Idle, InCallback
  <2>3. Falls(NoConn, {})
    BY <1>7, <2>1, <2>2 DEF session, registry
  <2> QED BY <2>3
<1>10. CASE Exit(p)
  BY <1>3, <1>9, <1>10
<1> QED BY <1>2, <1>4, <1>6, <1>8, <1>9, <1>10 DEF Step, Begin, Continue, Ending

-----------------------------------------------------------------------------
(* The commit of a savepoint hands its callbacks to the record below it,     *)
(* which no later record separates from them.                                *)
Takes(t, b, c) ==
    /\ t \in recorded /\ b \in recorded /\ b < t /\ home[b] = c /\ conn[c] = "open"
    /\ recorded' = recorded \ {t}
    /\ \A u \in Txs : u \notin recorded' => cbs'[u] = {}
    /\ \A u \in recorded' : \A k : k \in cbs'[u] <=> k \in cbs[u] \/ (u = b /\ k \in cbs[t])
    /\ \A w \in recorded' : home[w] = c => ~(b < w)

(* A savepoint hands its list to the record below it, where it is decided.   *)
LEMMA Heirs ==
    ASSUME DeliveryInv, NEW p \in Tasks, FinishCommit(p),
           NEW t, t = arg[p].tx, NEW c, c = home[t], root[c] # t
    PROVE  /\ t \in Txs /\ c \in Conns /\ UNCHANGED <<home, conn, reg, ran, reported>>
           /\ \E b \in Txs : b = Below(t) /\ Takes(t, b, c)
           /\ \A u \in Txs : fate'[u] = "durable" <=> fate[u] = "durable"
           /\ \A u \in Txs : Undecided(u)' <=> Undecided(u)
<1>0. /\ TypeInv /\ Begun /\ SessionTypeOK /\ Due /\ ChainInv
      /\ recorded \subseteq Txs /\ cbs \in [Txs -> SUBSET Callbacks]
  BY DEF DeliveryInv, ChainInv, AloneInv, Begun, TypeInv, TypeOK
<1>1. c \in Conns /\ Winds(c) /\ Names(p, c)
  BY <1>0, EndsReleased
<1>2. t \in Txs /\ pc[p] = "commit" /\ t \in Nat
  BY <1>0, Works, TxsAreNumbers DEF Begun, FinishCommit
<1>3. CommitOk(t) /\ ManagerCommit(c, t, ~StaysIn(c)) /\ UNCHANGED <<reg, ran, reported>>
  BY DEF FinishCommit, history
<1>4. /\ conn[c] = "open" /\ UNCHANGED conn /\ Usable(c) /\ active[t]
      /\ \A u \in Txs : u \in Live(c) /\ u >= t => fate'[u] = "merged"
      /\ \A u \in Txs : ~(u \in Live(c) /\ u >= t) => fate'[u] = fate[u]
  BY <1>0, <1>1, <1>2, <1>3, TopDecides
<1>5. Innermost(c) = t /\ nested[c] = t
  <2>1. nested[c] = t
    BY <1>0, <1>2, <1>4 DEF ChainInv, Top, Innermost
  <2> QED BY <1>2, <2>1, TxsAreNumbers DEF Innermost
<1>6. HandsDown(t)
  <2>1. root' = root /\ (\A u \in Txs : active'[u] <=> active[u] /\ u # t)
    BY <1>0, <1>1, <1>2, <1>3, TopEnds
  <2>2. ~StaysIn(c) => ~InTransaction(c)
    BY <1>0, <1>1, <2>1 DEF StaysIn, InTransaction, SessionTypeOK
  <2> QED BY <1>0, <1>1, <1>2, <1>3, <1>5, <2>2, TopLeaves
<1>7. ~Closing(c)
  BY <1>1, <1>2, <1>4 DEF Closing, Names, DeliveryInv, ChainInv, AloneInv, Apart
<1>8. t \in recorded
  BY <1>2, <1>4, <1>7 DEF Usable, DeliveryInv, ChainInv, Records
<1>9. PICK b \in Txs : b = Below(t) /\ b \in recorded /\ b < t /\ home[b] = c
  BY <1>0, <1>8 DEF DeliveryInv, ChainInv, Records
<1>10. /\ UNCHANGED <<home, conn, reg>>
       /\ \A u \in Txs : fate'[u] = "durable" <=> fate[u] = "durable"
       /\ \A u \in Txs : Undecided(u)' <=> Undecided(u)
  BY <1>1, <1>3, <1>4 DEF Winds, Live, OnConn, Undecided
<1>11. /\ recorded' = recorded \ {t}
       /\ \A u \in Txs : u \notin recorded' => cbs'[u] = {}
       /\ \A u \in recorded' : \A k : k \in cbs'[u] <=> k \in cbs[u] \/ (u = b /\ k \in cbs[t])
  <2>1. /\ recorded' = recorded \ {t}
        /\ \A u \in Txs : cbs'[u] = IF u \notin recorded' THEN {}
                                    ELSE cbs[u] \cup (IF u = b THEN cbs[t] ELSE {})
    BY <1>6, <1>8, <1>9 DEF HandsDown
  <2>2. recorded' \subseteq Txs
    BY <1>0, <2>1
  <2> QED BY <2>1, <2>2
<1>12. \A w \in recorded' : home[w] = c => ~(b < w)
  <2> SUFFICES ASSUME NEW w \in recorded', home[w] = c PROVE ~(b < w)
    OBVIOUS
  <2>1. w \in recorded /\ w \in Txs /\ w # t /\ w \in Nat
    BY <1>0, <1>11, TxsAreNumbers
  <2>2. w <= t
    BY <1>5, <2>1 DEF DeliveryInv, ChainInv, Records
  <2>3. w < t
    BY <1>2, <2>1, <2>2
  <2>4. w <= b
    BY <1>2, <1>9, <2>1, <2>3 DEF DeliveryInv, ChainInv, Records
  <2> QED BY <1>9, <2>1, <2>4, TxsAreNumbers
<1>13. Takes(t, b, c)
  BY <1>4, <1>8, <1>9, <1>11, <1>12 DEF Takes
<1> QED BY <1>1, <1>2, <1>3, <1>9, <1>10, <1>13

(* Merging the list of a savepoint keeps callbacks filed.                    *)
LEMMA Handed ==
    ASSUME DeliveryInv, NEW p \in Tasks, Step(p), FinishCommit(p),
           NEW t, t = arg[p].tx, NEW c, c = home[t], root[c] # t
    PROVE  Files' /\ Kept'
<1>0. /\ TypeInv /\ Begun /\ SessionTypeOK /\ Due /\ ChainInv
      /\ recorded \subseteq Txs /\ cbs \in [Txs -> SUBSET Callbacks]
  BY DEF DeliveryInv, ChainInv, AloneInv, Begun, TypeInv, TypeOK
<1>2. t \in Txs /\ t \in Nat /\ pc[p] = "commit"
  BY Heirs, TxsAreNumbers DEF FinishCommit
<1>10. /\ UNCHANGED <<home, conn, reg, ran, reported>>
       /\ \A u \in Txs : fate'[u] = "durable" <=> fate[u] = "durable"
       /\ \A u \in Txs : Undecided(u)' <=> Undecided(u)
  BY Heirs
<1> PICK b \in Txs : Takes(t, b, c)
  BY Heirs
<1>9. t \in recorded /\ b \in recorded /\ b < t /\ home[b] = c /\ conn[c] = "open" /\ b \in Nat
  BY TxsAreNumbers DEF Takes
<1>11. /\ recorded' = recorded \ {t}
       /\ \A u \in Txs : u \notin recorded' => cbs'[u] = {}
       /\ \A u \in recorded' : \A k : k \in cbs'[u] <=> k \in cbs[u] \/ (u = b /\ k \in cbs[t])
  BY DEF Takes
<1>12. \A w \in recorded' : home[w] = c => ~(b < w)
  BY DEF Takes
<1>13. ASSUME NEW u \in Txs, NEW k \in Callbacks, k \in cbs'[u]
       PROVE  /\ reg[k] \in Txs /\ home[reg[k]] = home[u] /\ u <= reg[k]
              /\ conn[home[u]] = "open" => Undecided(reg[k])
              /\ \A w \in recorded' : home[w] = home[u] /\ u < w => reg[k] < w
  <2>1. u \in recorded' /\ (k \in cbs[u] \/ (u = b /\ k \in cbs[t]))
    BY <1>11, <1>13
  <2>2. CASE k \in cbs[u]
    BY <1>11, <2>2 DEF DeliveryInv, Files
  <2>3. CASE u = b /\ k \in cbs[t]
    <3>1. reg[k] \in Txs /\ home[reg[k]] = c /\ t <= reg[k] /\ Undecided(reg[k])
      BY <1>2, <1>9, <2>3 DEF DeliveryInv, Files
    <3>2. b <= reg[k]
      <4> PICK v : v = reg[k]
        OBVIOUS
      <4>1. v \in Nat /\ t <= v /\ b < t /\ b \in Nat /\ t \in Nat
        BY <1>2, <1>9, <3>1, TxsAreNumbers
      <4>2. b <= v
        BY <4>1
      <4> QED BY <4>2
    <3> QED BY <1>9, <1>12, <2>3, <3>1, <3>2
  <2> QED BY <2>1, <2>2, <2>3
<1>14. \A u \in recorded' : fate[u] # "durable" /\ (conn[home[u]] = "open" => Undecided(u)) /\ u \in Txs
  BY <1>0, <1>11 DEF DeliveryInv, Files
<1>15. \A k \in Callbacks : reg[k] \in Txs => home[reg[k]] # NoConn
  BY DEF DeliveryInv, Files
<1>16. Files'
  <2>1. \A u \in recorded' : fate'[u] # "durable" /\ (conn'[home'[u]] = "open" => Undecided(u)')
    BY <1>10, <1>14
  <2>2. \A u \in Txs, k \in Callbacks : k \in cbs'[u] =>
          /\ reg'[k] \in Txs /\ home'[reg'[k]] = home'[u] /\ u <= reg'[k]
          /\ conn'[home'[u]] = "open" => Undecided(reg[k])'
          /\ \A w \in recorded' : home'[w] = home'[u] /\ u < w => reg'[k] < w
    <3>1. \A u \in Txs, k \in Callbacks : k \in cbs'[u] => (conn[home[u]] = "open" => Undecided(reg[k])')
      <4> SUFFICES ASSUME NEW u \in Txs, NEW k \in Callbacks, k \in cbs'[u], conn[home[u]] = "open",
                          NEW v, v = reg[k]
                   PROVE  Undecided(v)'
        BY <1>10
      <4>1. v \in Txs /\ Undecided(v)
        BY <1>13
      <4> QED BY <1>10, <4>1
    <3> QED BY <1>10, <1>13, <3>1
  <2>3. \A u \in Txs : u \notin recorded' => cbs'[u] = {}
    BY <1>11
  <2>4. \A k \in Callbacks : reg'[k] \in Txs => home'[reg'[k]] # NoConn
    BY <1>10, <1>15
  <2> QED BY <2>1, <2>2, <2>3, <2>4 DEF Files
<1>17. Kept'
  <2> SUFFICES ASSUME NEW k \in Callbacks, NEW v \in Txs, v = reg[k], NEW d, d = home[v]
               PROVE  /\ Undecided(v)' /\ ~Closing(d)' => k \in reported' \/ Filed(k)'
                      /\ fate'[v] = "durable" => k \in reported' \/ k \in ran' \/ \E q \in Tasks : Awaited(q, k)'
    BY <1>10 DEF Kept, Durable, Undecided
  <2>1. ASSUME Undecided(v)', ~Closing(d)' PROVE k \in reported' \/ Filed(k)'
    <3>1. Undecided(v) /\ d \in Conns
      BY <1>0, <1>10, <1>15, <2>1 DEF SessionTypeOK
    <3>2. ~Closing(d)
      <4>1. ~(FinishClose(p) \/ FailClose(p))
        BY <1>2 DEF FinishClose, FailClose
      <4> QED BY <1>0, <2>1, <3>1, <4>1, ClosingStays
    <3>3. k \in reported \/ Filed(k)
      BY <3>1, <3>2 DEF DeliveryInv, Kept
    <3>4. Filed(k) => Filed(k)'
      <4> SUFFICES ASSUME NEW u \in recorded, k \in cbs[u] PROVE Filed(k)'
        BY DEF Filed
      <4>1. CASE u = t
        <5>1. b \in recorded' /\ k \in cbs'[b]
          BY <1>2, <1>9, <1>11, <4>1, TxsAreNumbers
        <5> QED BY <5>1 DEF Filed
      <4>2. CASE u # t
        BY <1>0, <1>11, <4>2 DEF Filed
      <4> QED BY <4>1, <4>2
    <3> QED BY <1>0, <3>3, <3>4, Carried
  <2>2. ASSUME fate'[v] = "durable" PROVE k \in reported' \/ k \in ran' \/ \E q \in Tasks : Awaited(q, k)'
    <3>1. k \in reported \/ k \in ran \/ \E q \in Tasks : Awaited(q, k)
      BY <1>10, <2>2 DEF DeliveryInv, Kept, Durable
    <3> QED BY <1>0, <3>1, Carried
  <2> QED BY <2>1, <2>2
<1> QED BY <1>16, <1>17

(* A transaction that begins has no callbacks, and drops no record of one    *)
(* that is undecided.                                                        *)
LEMMA Fresher ==
    ASSUME Begun, NEW p \in Tasks, FinishConnect(p) \/ BeginOnConnection(p) \/ FinishSavepoint(p)
    PROVE  /\ UNCHANGED <<reg, ran, reported>>
           /\ \A u \in Txs : cbs'[u] = IF u \in recorded' THEN cbs[u] ELSE {}
           /\ \A u \in Txs : home[u] = NoConn /\ home'[u] # NoConn =>
                /\ fate'[u] \in {"open", "undone"}
                /\ conn'[home'[u]] = "open" => fate'[u] = "open"
<1>0. SessionTypeOK
  BY DEF Begun, TypeInv, TypeOK
<1>1. UNCHANGED <<reg, ran, reported>>
  BY DEF FinishConnect, BeginOnConnection, FinishSavepoint, history
<1>2. \E c, t, parent : ManagerBegin(c, t, parent)
  BY DEF FinishConnect, BeginOnConnection, FinishSavepoint
<1>3. \A u \in Txs : cbs'[u] = IF u \in recorded' THEN cbs[u] ELSE {}
  BY <1>2 DEF ManagerBegin, Keep
<1>4. \/ \E c \in Conns, t \in Txs : BeginRoot(c, t) /\ (Connect(c) \/ UNCHANGED conn)
      \/ \E t \in Txs, c \in Conns : BeginNested(c, t)
  <2>1. CASE FinishConnect(p)
    BY <2>1 DEF FinishConnect
  <2>2. CASE BeginOnConnection(p)
    <3>1. Current(p) \in Conns
      BY <2>2, Works DEF BeginOnConnection, Begun
    <3> QED BY <2>2, <3>1 DEF BeginOnConnection
  <2>3. CASE FinishSavepoint(p)
    <3>1. arg[p].conn \in Conns
      BY <2>3, Works DEF FinishSavepoint, Begun
    <3> QED BY <2>3, <3>1 DEF FinishSavepoint
  <2> QED BY <2>1, <2>2, <2>3
<1>5. ASSUME NEW c \in Conns, NEW t \in Txs, BeginRoot(c, t), Connect(c) \/ UNCHANGED conn,
             NEW u \in Txs, home[u] = NoConn, home'[u] # NoConn
      PROVE  fate'[u] \in {"open", "undone"} /\ (conn'[home'[u]] = "open" => fate'[u] = "open")
  <2>1. u = t /\ home'[u] = c
    BY <1>0, <1>5 DEF BeginRoot, Start, SessionTypeOK
  <2>2. fate'[u] = IF conn[c] = "lost" THEN "undone" ELSE "open"
    BY <1>0, <1>5, <2>1 DEF BeginRoot, SessionTypeOK
  <2>3. conn[c] = "lost" => conn'[c] # "open"
    BY <1>5 DEF Connect
  <2> QED BY <2>1, <2>2, <2>3
<1>6. ASSUME NEW c \in Conns, NEW t \in Txs, BeginNested(c, t),
             NEW u \in Txs, home[u] = NoConn, home'[u] # NoConn
      PROVE  fate'[u] = "open"
  BY <1>0, <1>6 DEF BeginNested, Start, SessionTypeOK
<1> QED BY <1>1, <1>3, <1>4, <1>5, <1>6

(* A transaction that begins disturbs no list.                               *)
LEMMA Opened ==
    ASSUME DeliveryInv, NEW p \in Tasks, Step(p),
           FinishConnect(p) \/ BeginOnConnection(p) \/ FinishSavepoint(p)
    PROVE  Files' /\ Kept'
<1>0. /\ TypeInv /\ Begun /\ SessionTypeOK /\ Due /\ ChainInv
      /\ recorded \subseteq Txs
  BY DEF DeliveryInv, ChainInv, AloneInv, Begun, TypeInv, TypeOK
<1>1. PICK c \in Conns, t \in Txs : StartsRoot(c, t) \/ StartsNested(c, t)
  BY <1>0, Starts
<1>2. /\ UNCHANGED <<reg, ran, reported>>
      /\ \A u \in Txs : cbs'[u] = IF u \in recorded' THEN cbs[u] ELSE {}
      /\ \A u \in Txs : home[u] = NoConn /\ home'[u] # NoConn =>
           /\ fate'[u] \in {"open", "undone"}
           /\ conn'[home'[u]] = "open" => fate'[u] = "open"
  BY <1>0, Fresher
<1>3. /\ Begins(c, t) /\ (\A d \in Conns : Closing(d) => Closing(d)')
      /\ recorded' \subseteq {t} \cup recorded
      /\ \A u \in recorded : u \notin recorded' => home[u] = c /\ (conn[c] = "free" \/ conn'[c] # "open")
  BY <1>0, <1>1 DEF StartsRoot, StartsNested, OnConn
<1>4. /\ \A u \in Txs : home[u] # NoConn => u # t /\ u < t /\ home'[u] = home[u] /\ fate'[u] = fate[u]
      /\ home[t] = NoConn /\ home'[t] = c /\ c # NoConn /\ t \notin recorded
      /\ \A u \in recorded : u \in Txs /\ home[u] \in Conns /\ home[u] # NoConn
  <2>1. \A u \in recorded : home[u] # NoConn
    BY <1>0 DEF Begun, Named
  <2> QED BY <1>0, <1>3, <2>1, Newest
<1>5. \A u \in Txs : home[u] # NoConn => home[u] \in Conns /\ conn[home[u]] # "free"
  BY <1>0 DEF Begun, Placed, SessionTypeOK
<1>6. \A u \in Txs : home[u] # NoConn => conn'[home[u]] = conn[home[u]]
  BY <1>3, <1>5 DEF Begins
<1>7. \A k \in Callbacks : reg[k] \in Txs => home[reg[k]] # NoConn
  BY DEF DeliveryInv, Files
<1>8. ASSUME NEW u \in Txs, NEW k \in Callbacks, k \in cbs'[u]
      PROVE  u \in recorded /\ k \in cbs[u] /\ u # t /\ home'[u] = home[u] /\ home[u] # NoConn
  <2>1. u \in recorded' /\ k \in cbs[u]
    BY <1>2, <1>8
  <2>2. u \in recorded
    BY <2>1 DEF DeliveryInv, Files
  <2> QED BY <1>4, <2>1, <2>2
<1>9. Files'
  <2>1. \A u \in Txs : u \notin recorded' => cbs'[u] = {}
    BY <1>2
  <2>2. ASSUME NEW u \in recorded'
        PROVE  fate'[u] # "durable" /\ (conn'[home'[u]] = "open" => Undecided(u)')
    <3>1. CASE u = t
      BY <1>2, <1>4, <3>1 DEF Undecided
    <3>2. CASE u \in recorded
      <4>1. u \in Txs /\ home'[u] = home[u] /\ fate'[u] = fate[u] /\ conn'[home[u]] = conn[home[u]]
        BY <1>4, <1>6, <3>2
      <4> QED BY <3>2, <4>1 DEF DeliveryInv, Files, Undecided
    <3> QED BY <1>3, <3>1, <3>2
  <2>3. ASSUME NEW u \in Txs, NEW k \in Callbacks, k \in cbs'[u]
        PROVE  /\ reg'[k] \in Txs /\ home'[reg'[k]] = home'[u] /\ u <= reg'[k]
               /\ conn'[home'[u]] = "open" => Undecided(reg[k])'
               /\ \A w \in recorded' : home'[w] = home'[u] /\ u < w => reg'[k] < w
    <3> PICK v : v = reg[k]
      OBVIOUS
    <3>1. u \in recorded /\ k \in cbs[u] /\ u # t /\ home'[u] = home[u] /\ home[u] # NoConn
      BY <1>8, <2>3
    <3>2. /\ v \in Txs /\ home[v] = home[u] /\ u <= v
          /\ conn[home[u]] = "open" => Undecided(v)
          /\ \A w \in recorded : home[w] = home[u] /\ u < w => v < w
      BY <3>1 DEF DeliveryInv, Files
    <3>3. v # t /\ v < t /\ home'[v] = home[v] /\ fate'[v] = fate[v] /\ conn'[home[u]] = conn[home[u]]
      BY <1>4, <1>6, <3>1, <3>2
    <3>4. \A w \in recorded' : home'[w] = home'[u] /\ u < w => v < w
      BY <1>3, <1>4, <3>1, <3>2, <3>3
    <3>5. conn'[home'[u]] = "open" => Undecided(reg[k])'
      BY <1>2, <3>1, <3>2, <3>3 DEF Undecided
    <3> QED BY <1>2, <3>1, <3>2, <3>3, <3>4, <3>5
  <2>4. \A k \in Callbacks : reg'[k] \in Txs => home'[reg'[k]] # NoConn
    BY <1>2, <1>4, <1>7
  <2> QED BY <2>1, <2>2, <2>3, <2>4 DEF Files
<1>10. Kept'
  <2> SUFFICES ASSUME NEW k \in Callbacks, NEW v \in Txs, v = reg[k], NEW d, d = home[v]
               PROVE  /\ Undecided(v)' /\ ~Closing(d)' => k \in reported' \/ Filed(k)'
                      /\ fate'[v] = "durable" => k \in reported' \/ k \in ran' \/ \E q \in Tasks : Awaited(q, k)'
    <3>1. \A k \in Callbacks : reg[k] \in Txs => home'[reg[k]] = home[reg[k]]
      BY <1>4, <1>7
    <3> QED BY <1>2, <3>1 DEF Kept, Durable, Undecided
  <2>0. d # NoConn /\ d \in Conns /\ fate'[v] = fate[v] /\ conn'[d] = conn[d]
    BY <1>4, <1>5, <1>6, <1>7
  <2>1. ASSUME Undecided(v)', ~Closing(d)' PROVE k \in reported' \/ Filed(k)'
    <3>1. Undecided(v) /\ ~Closing(d)
      BY <1>3, <2>0, <2>1 DEF Undecided
    <3>2. k \in reported \/ Filed(k)
      BY <3>1 DEF DeliveryInv, Kept
    <3>3. ASSUME NEW u \in recorded, k \in cbs[u] PROVE Filed(k)'
      <4>1. u \in Txs /\ home[u] = d
        BY <1>0, <3>3 DEF DeliveryInv, Files
      <4>2. conn[d] = "open"
        BY <3>1 DEF DeliveryInv, Alive
      <4>3. u \in recorded'
        BY <1>3, <2>0, <4>1, <4>2
      <4> QED BY <1>2, <3>3, <4>1, <4>3 DEF Filed
    <3> QED BY <1>2, <3>2, <3>3 DEF Filed
  <2>2. ASSUME fate'[v] = "durable" PROVE k \in reported' \/ k \in ran' \/ \E q \in Tasks : Awaited(q, k)'
    <3>1. k \in reported \/ k \in ran \/ \E q \in Tasks : Awaited(q, k)
      BY <2>0, <2>2 DEF DeliveryInv, Kept, Durable
    <3> QED BY <1>0, <3>1, Carried
  <2> QED BY <2>1, <2>2
<1> QED BY <1>9, <1>10

(* A callback is queued on a transaction that is not decided, or runs at     *)
(* once and is not on any list.                                              *)
LEMMA Queued ==
    ASSUME DeliveryInv, NEW p \in Tasks, AfterCommit(p)
    PROVE  Files' /\ Kept'
<1>0. /\ TypeInv /\ Begun /\ recorded \subseteq Txs
      /\ cbs \in [Txs -> SUBSET Callbacks] /\ reg \in [Callbacks -> Txs \cup {Unused, Immediate}]
  BY DEF DeliveryInv, ChainInv, AloneInv, Begun, TypeInv, TypeOK
<1>1. PICK k \in Callbacks : /\ \A j \in Callbacks : reg[j] = Unused <=> j >= k
                             /\ IF CurrentTx(p) \in recorded THEN Queue(k, CurrentTx(p)) ELSE RunAtOnce(k)
  BY DEF AfterCommit
<1>2. UNCHANGED <<conn, home, fate, arg, pc, frames, recorded, ran, reported>>
  BY DEF AfterCommit, session, tasks
<1>3. reg[k] = Unused /\ Unused \notin Txs /\ Immediate \notin Txs
  BY <1>1, TransactionsAssumption, SessionAssumption DEF Unused, Immediate, NoTx
<1>4. \A j \in Callbacks : j # k => reg'[j] = reg[j]
  BY <1>0, <1>1 DEF Queue, RunAtOnce
<1>5. /\ \A u \in Txs : cbs[u] \subseteq cbs'[u]
      /\ \A u \in Txs : \A j \in cbs'[u] : j \in cbs[u] \/ (j = k /\ u \in recorded /\ reg'[k] = u /\ k \in cbs'[u])
      /\ reg'[k] \in Txs => reg'[k] \in recorded /\ k \in cbs'[reg'[k]]
  <2>1. CASE CurrentTx(p) \in recorded
    <3> PICK t : t = CurrentTx(p)
      OBVIOUS
    <3>1. t \in recorded /\ cbs' = [cbs EXCEPT ![t] = @ \cup {k}] /\ reg' = [reg EXCEPT ![k] = t]
      BY <1>1, <2>1 DEF Queue
    <3> QED BY <1>0, <3>1
  <2>2. CASE CurrentTx(p) \notin recorded
    BY <1>0, <1>1, <1>3, <2>2 DEF RunAtOnce
  <2> QED BY <2>1, <2>2
<1>6. ASSUME NEW u \in Txs, NEW j \in cbs'[u]
      PROVE  /\ reg'[j] \in Txs /\ home[reg'[j]] = home[u] /\ u <= reg'[j]
             /\ conn[home[u]] = "open" => Undecided(reg'[j])
             /\ \A w \in recorded : home[w] = home[u] /\ u < w => reg'[j] < w
  <2>1. CASE j \in cbs[u]
    <3>1. j \in Callbacks
      BY <1>0, <2>1
    <3>2. /\ reg[j] \in Txs /\ home[reg[j]] = home[u] /\ u <= reg[j]
          /\ conn[home[u]] = "open" => Undecided(reg[j])
          /\ \A w \in recorded : home[w] = home[u] /\ u < w => reg[j] < w
      BY <2>1, <3>1 DEF DeliveryInv, Files
    <3>3. j # k
      BY <1>3, <3>2
    <3> QED BY <1>4, <3>1, <3>2, <3>3
  <2>2. CASE j = k /\ u \in recorded /\ reg'[k] = u
    <3>1. u <= u
      BY TxsAreNumbers
    <3> QED BY <2>2, <3>1 DEF DeliveryInv, Files
  <2> QED BY <1>5, <2>1, <2>2
<1>7. \A u \in Txs : Undecided(u)' <=> Undecided(u)
  BY <1>2 DEF Undecided
<1>8. Files'
  <2>1. \A u \in Txs : u \notin recorded' => cbs'[u] = {}
    <3> SUFFICES ASSUME NEW u \in Txs, u \notin recorded PROVE cbs'[u] = {}
      BY <1>2
    <3>1. cbs[u] = {}
      BY DEF DeliveryInv, Files
    <3> QED BY <1>5, <3>1
  <2>2. \A u \in recorded' : fate'[u] # "durable" /\ (conn'[home'[u]] = "open" => Undecided(u)')
    BY <1>0, <1>2, <1>7 DEF DeliveryInv, Files
  <2>3. ASSUME NEW u \in Txs, NEW j \in Callbacks, j \in cbs'[u]
        PROVE  /\ reg'[j] \in Txs /\ home'[reg'[j]] = home'[u] /\ u <= reg'[j]
               /\ conn'[home'[u]] = "open" => Undecided(reg[j])'
               /\ \A w \in recorded' : home'[w] = home'[u] /\ u < w => reg'[j] < w
    BY <1>2, <1>6, <2>3 DEF Undecided
  <2>4. ASSUME NEW j \in Callbacks, reg'[j] \in Txs PROVE home'[reg'[j]] # NoConn
    <3>1. CASE j = k
      BY <1>0, <1>2, <1>5, <2>4, <3>1 DEF Begun, Named
    <3>2. CASE j # k
      BY <1>2, <1>4, <2>4, <3>2 DEF DeliveryInv, Files
    <3> QED BY <3>1, <3>2
  <2> QED BY <2>1, <2>2, <2>3, <2>4 DEF Files
<1>9. ASSUME NEW j \in Callbacks, NEW v \in Txs, v = reg'[j]
      PROVE  /\ Undecided(v) /\ ~Closing(home[v]) => j \in reported \/ Filed(j)'
             /\ fate[v] = "durable" => j \in reported \/ j \in ran \/ \E q \in Tasks : Awaited(q, j)
  <2>1. CASE j = k
    <3>1. v \in recorded /\ k \in cbs'[v]
      BY <1>5, <1>9, <2>1
    <3> QED BY <1>2, <2>1, <3>1 DEF DeliveryInv, Files, Filed
  <2>2. CASE j # k
    <3>1. v = reg[j]
      BY <1>4, <1>9, <2>2
    <3>2. Filed(j) => Filed(j)'
      BY <1>0, <1>2, <1>5 DEF Filed
    <3> QED BY <3>1, <3>2 DEF DeliveryInv, Kept, Durable
  <2> QED BY <2>1, <2>2
<1>10. Kept'
  <2>1. \A q \in Tasks, j \in Callbacks : Awaited(q, j)' <=> Awaited(q, j)
    BY <1>2 DEF Awaited, Looped
  <2>2. \A d : Closing(d)' <=> Closing(d)
    BY <1>2 DEF Closing
  <2> SUFFICES ASSUME NEW j \in Callbacks, reg'[j] \in Txs
               PROVE  /\ Undecided(reg[j])' /\ ~Closing(home[reg[j]])' => j \in reported' \/ Filed(j)'
                      /\ Durable(j)' => j \in reported' \/ j \in ran' \/ \E q \in Tasks : Awaited(q, j)'
    BY DEF Kept
  <2> PICK v \in Txs : v = reg'[j]
    OBVIOUS
  <2>3. (Undecided(reg[j])' <=> Undecided(v)) /\ (Durable(j)' <=> fate[v] = "durable")
    BY <1>2 DEF Undecided, Durable
  <2>4. Closing(home[reg[j]])' <=> Closing(home[v])
    BY <1>2 DEF Closing
  <2> QED BY <1>2, <1>9, <2>1, <2>3, <2>4
<1> QED BY <1>8, <1>10

-----------------------------------------------------------------------------
(* What falls due is durable: the commit of a root decides all of its        *)
(* connection, and a savepoint's commit makes nothing due.                   *)
LEMMA FallsDue ==
    ASSUME DeliveryInv, NEW p \in Tasks, FinishCommit(p), NEW t, t = arg[p].tx, NEW k \in Batch(t)
    PROVE  k \in Callbacks /\ reg[k] \in Txs /\ reg' = reg /\ fate'[reg[k]] = "durable"
<1> PICK c : c = home[t]
  OBVIOUS
<1>0. ChainInv /\ SessionTypeOK /\ recorded \subseteq Txs /\ cbs \in [Txs -> SUBSET Callbacks]
  BY DEF DeliveryInv, ChainInv, AloneInv, Begun, TypeInv, TypeOK
<1>1. t \in Txs /\ c \in Conns /\ root[c] = t
  BY <1>0, Committed
<1>2. PICK u \in recorded : home[u] = c /\ k \in cbs[u]
  BY <1>0, <1>1, RootLeaves
<1>3. CommitOk(t) /\ reg' = reg
  BY DEF FinishCommit, history
<1>4. conn[c] = "open" /\ Settle(Live(c), "durable")
  BY <1>1, <1>3 DEF CommitOk
<1>5. k \in Callbacks /\ reg[k] \in Txs /\ home[reg[k]] = c /\ Undecided(reg[k])
  BY <1>0, <1>2, <1>4 DEF DeliveryInv, Files
<1>6. fate'[reg[k]] = "durable"
  BY <1>4, <1>5 DEF Settle, Live, OnConn, Undecided
<1> QED BY <1>3, <1>5, <1>6

(* A task holds a batch only while it releases its connection.               *)
LEMMA DueStep == ASSUME DeliveryInv, NEW p \in Tasks, Step(p) PROVE Due'
<1>0. TypeInv /\ Begun /\ Due /\ ran \subseteq Callbacks
  BY DEF DeliveryInv, ChainInv, AloneInv, Begun, TypeInv, TypeOK
<1>1. \A k \in Callbacks : Durable(k) => Durable(k)'
  <2> SUFFICES ASSUME NEW k \in Callbacks, NEW v \in Txs, v = reg[k], fate[v] = "durable" PROVE Durable(k)'
    BY DEF Durable
  <2>1. reg'[k] = v
    BY <1>0, Registered, SessionAssumption DEF Unused
  <2>2. home[v] # NoConn
    BY DEF DeliveryInv, Files
  <2>3. fate'[v] = "durable"
    BY <1>0, <2>2, Decided
  <2> QED BY <2>1, <2>3 DEF Durable
<1>2. PICK M : Flows(p, M) /\ \A k \in M : k \in Callbacks /\ Durable(k)'
  <2>1. CASE FinishCommit(p)
    <3>1. Flows(p, Batch(arg[p].tx))
      BY <1>0, <2>1, Flow
    <3>2. \A k \in Batch(arg[p].tx) : k \in Callbacks /\ Durable(k)'
      BY <2>1, FallsDue DEF Durable
    <3> QED BY <3>1, <3>2
  <2>2. CASE ~FinishCommit(p)
    BY <1>0, <2>2, Flow
  <2> QED BY <2>1, <2>2
<1>3. \A q \in Tasks \ {p} : pc'[q] = pc[q] /\ arg'[q] = arg[q] /\ frames'[q] = frames[q]
  BY <1>0, OthersStay DEF Others
<1>4. \A q \in Tasks, k \in Callbacks : Awaited(q, k)' => Durable(k)'
  <2> SUFFICES ASSUME NEW q \in Tasks, NEW k \in Callbacks, Awaited(q, k)' PROVE Durable(k)'
    OBVIOUS
  <2>1. CASE q = p
    BY <1>0, <1>1, <1>2, <2>1 DEF Flows, Due
  <2>2. CASE q # p
    <3>1. Awaited(q, k)
      BY <1>3, <2>2 DEF Awaited, Looped
    <3> QED BY <1>0, <1>1, <3>1 DEF Due
  <2> QED BY <2>1, <2>2
<1>5. \A k \in ran' : Durable(k)'
  <2> SUFFICES ASSUME NEW k \in ran' PROVE Durable(k)'
    OBVIOUS
  <2>1. k \in Callbacks /\ Durable(k)
    BY <1>0, <1>2 DEF Flows, Due
  <2> QED BY <1>1, <2>1
<1>6. \A q \in Tasks : pc'[q] # "close" => arg'[q].batch = {}
  BY <1>0, <1>2, <1>3 DEF Flows, Due
<1> QED BY <1>4, <1>5, <1>6 DEF Due

(* The invariant is inductive.                                               *)
LEMMA DeliveryStep == ASSUME ~Inherit, ~AnyOrder, DeliveryInv, [Next]_vars PROVE DeliveryInv'
<1>1. ChainInv'
  BY ChainStep DEF DeliveryInv
<1>2. ASSUME NEW p \in Tasks, Step(p) PROVE DeliveryInv'
  <2>1. Files' /\ Kept'
    <3>1. CASE Ending(p)
      <4> PICK t, c : t = arg[p].tx /\ c = home[t]
        OBVIOUS
      <4>1. CASE root[c] = t
        BY <1>2, <3>1, <4>1, RootFalls, FallsFiles, FallsKept
      <4>2. CASE root[c] # t /\ ~FinishCommit(p)
        BY <1>2, <3>1, <4>2, TopFalls, FallsFiles, FallsKept
      <4>3. CASE root[c] # t /\ FinishCommit(p)
        BY <1>2, <4>3, Handed
      <4> QED BY <4>1, <4>2, <4>3
    <3>2. CASE FinishConnect(p) \/ BeginOnConnection(p) \/ FinishSavepoint(p)
      BY <1>2, <3>2, Opened
    <3>3. CASE AfterCommit(p)
      BY <3>3, Queued
    <3>4. CASE /\ ~Ending(p) /\ ~AfterCommit(p)
               /\ ~(FinishConnect(p) \/ BeginOnConnection(p) \/ FinishSavepoint(p))
      BY <1>2, <3>4, OtherFalls, FallsFiles, FallsKept
    <3> QED BY <3>1, <3>2, <3>3, <3>4
  <2>2. Alive'
    BY <1>2, AliveStep DEF DeliveryInv
  <2>3. Due'
    BY <1>2, DueStep
  <2> QED BY <1>1, <2>1, <2>2, <2>3 DEF DeliveryInv
<1>3. ASSUME UNCHANGED vars PROVE DeliveryInv'
  <2>1. UNCHANGED <<conn, home, fate, pc, arg, frames, recorded, cbs, reg, ran, reported>>
    BY <1>3 DEF vars, session, tasks, registry, history
  <2>2. Alive' /\ Due'
    BY <2>1 DEF DeliveryInv, Alive, Due, Undecided, Durable, Awaited, Looped
  <2>3. Files'
    BY <2>1 DEF DeliveryInv, Files, Undecided
  <2>4. Kept'
    BY <2>1 DEF DeliveryInv, Kept, Undecided, Durable, Awaited, Looped, Filed, Closing
  <2> QED BY <1>1, <2>2, <2>3, <2>4 DEF DeliveryInv
<1> QED BY <1>2, <1>3 DEF Next

(* Nothing is registered at first.                                           *)
LEMMA InitDelivery == Init => DeliveryInv
<1> SUFFICES ASSUME Init PROVE DeliveryInv
  OBVIOUS
<1>1. Alive /\ Files
  BY SessionAssumption DEF Init, SessionInit, Alive, Files, Undecided, Unused
<1>2. Kept
  BY SessionAssumption DEF Init, Kept, Unused
<1>3. Due
  BY DEF Init, Due, Awaited, Looped, Nothing
<1> QED BY <1>1, <1>2, <1>3, InitChain DEF DeliveryInv

(* A callback runs only once the writes of the transaction it was queued on  *)
(* are durable.                                                              *)
THEOREM RunsAfterDurable == ASSUME ~Inherit, ~AnyOrder PROVE Spec => []RunsOnlyDurable
<1>1. DeliveryInv => RunsOnlyDurable
  BY DEF DeliveryInv, Due, Durable, RunsOnlyDurable
<1>2. Init => DeliveryInv
  BY InitDelivery
<1>3. DeliveryInv /\ [Next]_vars => DeliveryInv'
  BY DeliveryStep
<1> QED BY <1>1, <1>2, <1>3, PTL DEF Spec

(* No callback of a durable transaction is lost without an error.            *)
THEOREM NothingIsLost == ASSUME ~Inherit, ~AnyOrder PROVE Spec => []NoSilentLoss
<1>1. DeliveryInv => NoSilentLoss
  <2> SUFFICES ASSUME DeliveryInv, NEW k \in Callbacks, reg[k] \in Txs, fate[reg[k]] = "durable"
               PROVE  k \in Waiting \cup ran \cup reported
    BY DEF NoSilentLoss
  <2>1. k \in reported \/ k \in ran \/ \E p \in Tasks : Awaited(p, k)
    BY DEF DeliveryInv, Kept, Durable
  <2>2. ASSUME NEW p \in Tasks, Awaited(p, k) PROVE k \in Waiting
    <3>1. k \in arg[p].batch \cup FrameOf(p)
      BY <2>2 DEF Awaited, Looped, FrameOf
    <3> QED BY <3>1 DEF Waiting
  <2> QED BY <2>1, <2>2
<1>2. Init => DeliveryInv
  BY InitDelivery
<1>3. DeliveryInv /\ [Next]_vars => DeliveryInv'
  BY DeliveryStep
<1> QED BY <1>1, <1>2, <1>3, PTL DEF Spec

-----------------------------------------------------------------------------
(* The refinement: the layer implements AfterCommit, one queue per           *)
(* connection that the outermost commit takes as a batch, run in the order   *)
(* of registration.                                                          *)
Seen == {k \in Callbacks : reg[k] # Unused}
Queues == [c \in Conns |-> UNION {cbs[t] : t \in OnConn(c)}]
Dues == Batches \ {{}}

\* A batch is due for a task that is releasing its connection or runs it.
Stands(p, b) == \E i \in DOMAIN frames[p] : b = frames[p][i].left
Holds(p, b) == b # {} /\ (b = arg[p].batch \/ Stands(p, b))

\* The list of a set of callbacks is in the order of their registration.
Listed(S) == \A j, k \in S : j < k => <<j, k>> \in before

(* Callbacks of a savepoint are registered after those of the records it     *)
(* lies in, and every list is in the order of registration: what a commit    *)
(* joins is, so that a loop runs the earliest callback first.                *)
Order ==
    /\ \A t, u \in Txs : home[t] = home[u] /\ t < u => \A j \in cbs[t], k \in cbs[u] : j < k
    /\ \A t \in Txs : Listed(cbs[t])
    /\ \A b \in Dues : Listed(b)

PromiseInv == DeliveryInv /\ Once /\ Order

-----------------------------------------------------------------------------
(* The batches that are due, task by task.                                   *)
LEMMA DuesAre ==
    /\ \A b : b \in Dues <=> \E p \in Tasks : Holds(p, b)
    /\ \A b : b \in Dues' <=> \E p \in Tasks : Holds(p, b)'
BY DEF Dues, Batches, Holds, Stands

(* How the loops of a task change what stands in them: pushed, or ended.     *)
LEMMA Standing ==
    ASSUME TypeInv, NEW p \in Tasks, NEW b, b # {}
    PROVE  /\ UNCHANGED frames => (Stands(p, b)' <=> Stands(p, b))
           /\ \A batch \in SUBSET Callbacks :
                Execute(p, batch) => (Stands(p, b)' <=> Stands(p, b) \/ b = batch)
           /\ frames' = [frames EXCEPT ![p] = Tail(@)] /\ frames[p] # <<>>
                => (Stands(p, b) <=> Stands(p, b)' \/ b = Head(frames[p]).left)
<1>0. frames[p] \in Seq(Frame) /\ DOMAIN frames[p] = 1 .. Len(frames[p]) /\ Len(frames[p]) \in Nat
  BY DEF TypeInv, TypeOK
<1>1. UNCHANGED frames => (Stands(p, b)' <=> Stands(p, b))
  BY DEF Stands
<1>2. ASSUME NEW batch \in SUBSET Callbacks, Execute(p, batch)
      PROVE  Stands(p, b)' <=> Stands(p, b) \/ b = batch
  <2>1. CASE batch = {}
    BY <1>1, <1>2, <2>1 DEF Execute
  <2>2. CASE batch # {}
    <3> DEFINE top == [left |-> batch, outer |-> entered[p]]
    <3>1. top \in Frame /\ top.left = batch
      BY DEF Frame, TypeInv, TypeOK
    <3>2. frames'[p] = <<top>> \o frames[p]
      BY <1>2, <2>2 DEF Execute, TypeInv, TypeOK
    <3> HIDE DEF top
    <3>3. /\ DOMAIN frames'[p] = 1 .. Len(frames[p]) + 1
          /\ \A i \in DOMAIN frames'[p] : frames'[p][i] = IF i = 1 THEN top ELSE frames[p][i - 1]
      BY <1>0, <3>1, <3>2, Pushed
    <3>4. ASSUME NEW i \in DOMAIN frames'[p], b = frames'[p][i].left PROVE Stands(p, b) \/ b = batch
      <4>1. i # 1 => i - 1 \in DOMAIN frames[p] /\ frames'[p][i] = frames[p][i - 1]
        BY <1>0, <3>3
      <4> QED BY <3>1, <3>3, <3>4, <4>1 DEF Stands
    <3>5. b = batch => Stands(p, b)'
      <4>1. 1 \in DOMAIN frames'[p] /\ frames'[p][1] = top
        BY <1>0, <3>3
      <4> QED BY <3>1, <4>1 DEF Stands
    <3>6. ASSUME NEW i \in DOMAIN frames[p], b = frames[p][i].left PROVE Stands(p, b)'
      <4>1. i + 1 \in DOMAIN frames'[p] /\ frames'[p][i + 1] = frames[p][i]
        BY <1>0, <3>3
      <4> QED BY <3>6, <4>1 DEF Stands
    <3> QED BY <3>4, <3>5, <3>6 DEF Stands
  <2> QED BY <2>1, <2>2
<1>3. ASSUME frames' = [frames EXCEPT ![p] = Tail(@)], frames[p] # <<>>
      PROVE  Stands(p, b) <=> Stands(p, b)' \/ b = Head(frames[p]).left
  <2>1. frames'[p] = Tail(frames[p])
    BY <1>3 DEF TypeInv, TypeOK
  <2>0. /\ Tail(frames[p]) \in Seq(Frame) /\ Len(Tail(frames[p])) = Len(frames[p]) - 1
        /\ \A i \in 1 .. Len(frames[p]) - 1 : Tail(frames[p])[i] = frames[p][i + 1] /\ i + 1 \in DOMAIN frames[p]
        /\ Head(frames[p]) = frames[p][1] /\ 1 \in DOMAIN frames[p]
        /\ DOMAIN Tail(frames[p]) = 1 .. Len(frames[p]) - 1
    BY <1>0, <1>3
  <2>2. /\ DOMAIN frames'[p] = 1 .. Len(frames[p]) - 1
        /\ \A i \in 1 .. Len(frames[p]) - 1 : frames'[p][i] = frames[p][i + 1] /\ i + 1 \in DOMAIN frames[p]
        /\ Head(frames[p]) = frames[p][1] /\ 1 \in DOMAIN frames[p]
    BY <2>0, <2>1
  <2>3. Stands(p, b)' \/ b = Head(frames[p]).left => Stands(p, b)
    BY <2>2 DEF Stands
  <2>4. ASSUME NEW i \in DOMAIN frames[p], b = frames[p][i].left
        PROVE  Stands(p, b)' \/ b = Head(frames[p]).left
    <3>1. i # 1 => i - 1 \in DOMAIN frames'[p] /\ frames'[p][i - 1] = frames[p][i]
      <4>1. i # 1 => i - 1 \in 1 .. Len(frames[p]) - 1 /\ (i - 1) + 1 = i
        BY <1>0
      <4> QED BY <2>2, <4>1
    <3> QED BY <2>2, <2>4, <3>1 DEF Stands
  <2> QED BY <2>3, <2>4 DEF Stands
<1> QED BY <1>1, <1>2, <1>3

(* A turn of the innermost loop takes its callback out of its batch.         *)
LEMMA TurnsLoop ==
    ASSUME TypeInv, NEW p \in Tasks, Invoke(p)
    PROVE  \E top \in SUBSET Callbacks : \E k \in First(top) :
             /\ k \in top /\ ran' = ran \cup {k} /\ Stands(p, top)
             /\ \A b : Stands(p, b)' => Stands(p, b) \/ b = top \ {k}
             /\ \A b : Stands(p, b) => Stands(p, b)' \/ b = top
             /\ Stands(p, top \ {k})'
<1>0. frames[p] \in Seq(Frame) /\ frames[p] # <<>>
  BY DEF Invoke, TypeInv, TypeOK, AwaitOK
<1> PICK k \in First(Head(frames[p]).left) :
       ran' = ran \cup {k} /\ frames' = [frames EXCEPT ![p] = <<Without(Head(@), k)>> \o Tail(@)]
  BY DEF Invoke
<1> DEFINE top == Without(Head(frames[p]), k)
<1>1. /\ Head(frames[p]) = frames[p][1] /\ 1 \in DOMAIN frames[p] /\ Head(frames[p]) \in Frame
      /\ Tail(frames[p]) \in Seq(Frame) /\ Len(Tail(frames[p])) = Len(frames[p]) - 1
      /\ \A i \in 1 .. Len(frames[p]) - 1 : Tail(frames[p])[i] = frames[p][i + 1]
      /\ DOMAIN frames[p] = 1 .. Len(frames[p]) /\ Len(frames[p]) \in Nat
  BY <1>0
<1> PICK left : left = frames[p][1].left
  OBVIOUS
<1>2. k \in First(left) /\ left \in SUBSET Callbacks /\ k \in left /\ top \in Frame /\ top.left = left \ {k}
  BY <1>1 DEF First, Frame, Without
<1>3. frames'[p] = <<top>> \o Tail(frames[p])
  BY DEF TypeInv, TypeOK
<1> HIDE DEF top
<1>4. /\ DOMAIN frames'[p] = DOMAIN frames[p]
      /\ \A i \in DOMAIN frames[p] : frames'[p][i] = IF i = 1 THEN top ELSE frames[p][i]
  BY <1>1, <1>2, <1>3, Pushed
<1>5. /\ \A b : Stands(p, b)' => Stands(p, b) \/ b = left \ {k}
      /\ \A b : Stands(p, b) => Stands(p, b)' \/ b = left
  BY <1>2, <1>4 DEF Stands
<1>6. Stands(p, left) /\ Stands(p, left \ {k})'
  BY <1>1, <1>2, <1>4 DEF Stands
<1> QED BY <1>2, <1>5, <1>6

(* What a step does to the batches that are due.                             *)
LEMMA DuesStep ==
    ASSUME TypeInv, Due, Once', NEW p \in Tasks, Step(p)
    PROVE  /\ FinishCommit(p) => Dues' = Dues \cup ({Batch(arg[p].tx)} \ {{}})
           /\ FailClose(p) \/ CallbackRaises(p) => Dues' = Dues \/ \E b \in Dues : Dues' = Dues \ {b}
           /\ Invoke(p) => \E b \in Dues : \E k \in First(b) :
                b \in SUBSET Callbacks /\ k \in b /\ ran' = ran \cup {k}
                /\ Dues' = (Dues \ {b}) \cup ({b \ {k}} \ {{}})
           /\ ~(FinishCommit(p) \/ FailClose(p) \/ CallbackRaises(p) \/ Invoke(p)) => Dues' = Dues
           /\ ~Invoke(p) => ran' = ran
<1>0. /\ \A t : Batch(t) \in SUBSET Callbacks
      /\ arg[p].batch \in SUBSET Callbacks
  BY CollectedType, TypeOKParts DEF Batch, TypeInv, TypeOK, Arg
<1>a. \A where, a : Suspend(p, where, a) => pc'[p] = where /\ arg'[p] = a
  BY DEF Suspend, TypeInv, TypeOK
<1>b. Nothing.batch = {}
  BY DEF Nothing
<1>c. Resume(p) => pc'[p] = "idle" /\ arg'[p].batch = {}
  BY <1>a, <1>b DEF Resume
<1>d. \A c, batch : Release(p, c, batch) => pc'[p] = "close" /\ arg'[p].batch = batch
  BY <1>a DEF Release
<1>f. \A batch : Execute(p, batch) => pc'[p] # "close" /\ arg'[p].batch = {}
  BY <1>a, <1>b, <1>c DEF Execute
<1>g. pc[p] # "close" => arg[p].batch = {}
  BY DEF Due
<1>h. \A q \in Tasks \ {p} : \A b : Holds(q, b)' <=> Holds(q, b)
  BY OthersStay DEF Others, Holds, Stands
<1>1. ASSUME NEW M, \A b : b # {} => (Holds(p, b)' <=> Holds(p, b) \/ b = M)
      PROVE  Dues' = Dues \cup ({M} \ {{}})
  <2>1. \A b : b \in Dues' <=> b \in Dues \/ (b = M /\ b # {})
    <3> SUFFICES ASSUME NEW b PROVE b \in Dues' <=> b \in Dues \/ (b = M /\ b # {})
      OBVIOUS
    <3>1. (Holds(p, b)' \/ Holds(p, b)) => b # {}
      BY DEF Holds
    <3> QED BY <1>1, <1>h, <3>1, DuesAre
  <2> QED BY <2>1
<1>2. ASSUME NEW M, \A b : b # {} => (Holds(p, b) <=> Holds(p, b)' \/ b = M)
      PROVE  Dues' = Dues \/ \E b \in Dues : Dues' = Dues \ {b}
  <2>1. \A b : b \in Dues <=> b \in Dues' \/ (b = M /\ b # {})
    <3> SUFFICES ASSUME NEW b PROVE b \in Dues <=> b \in Dues' \/ (b = M /\ b # {})
      OBVIOUS
    <3>1. (Holds(p, b)' \/ Holds(p, b)) => b # {}
      BY DEF Holds
    <3> QED BY <1>2, <1>h, <3>1, DuesAre
  <2>2. CASE M \in Dues' \/ M = {}
    <3>1. \A b : b \in Dues' <=> b \in Dues
      BY <2>1, <2>2
    <3>2. Dues' = Dues
      BY <3>1
    <3> QED BY <3>2
  <2>3. CASE M \notin Dues' /\ M # {}
    <3>1. M \in Dues /\ Dues' = Dues \ {M}
      BY <2>1, <2>3
    <3> QED BY <3>1
  <2> QED BY <2>2, <2>3
<1>3. ASSUME \A b : b # {} => (Holds(p, b)' <=> Holds(p, b)) PROVE Dues' = Dues
  BY <1>1, <1>3
<1>4. CASE FinishCommit(p)
  <2> PICK M : M = Batch(arg[p].tx)
    OBVIOUS
  <2>1. M \in SUBSET Callbacks /\ ran' = ran /\ arg[p].batch = {} /\ pc[p] = "commit"
    BY <1>0, <1>4, <1>g DEF FinishCommit, history
  <2>2. Execute(p, M) \/ \E c : Release(p, c, M) /\ UNCHANGED frames
    BY <1>4 DEF FinishCommit
  <2>3. ASSUME NEW b, b # {} PROVE Holds(p, b)' <=> Holds(p, b) \/ b = M
    <3>1. CASE Execute(p, M)
      BY <1>f, <2>1, <2>3, <3>1, Standing DEF Holds
    <3>2. CASE \E c : Release(p, c, M) /\ UNCHANGED frames
      BY <1>d, <2>1, <2>3, <3>2, Standing DEF Holds
    <3> QED BY <2>2, <3>1, <3>2
  <2>4. Dues' = Dues \cup ({M} \ {{}})
    BY <1>1, <2>3
  <2> QED BY <1>4, <2>1, <2>4 DEF FailClose, CallbackRaises, InCallback, Idle, Invoke
<1>5. CASE FinishClose(p)
  <2>1. Execute(p, arg[p].batch) /\ ran' = ran /\ pc[p] = "close"
    BY <1>5 DEF FinishClose, history
  <2>2. ASSUME NEW b, b # {} PROVE Holds(p, b)' <=> Holds(p, b)
    BY <1>0, <1>f, <2>1, <2>2, Standing DEF Holds
  <2>3. Dues' = Dues
    BY <1>3, <2>2
  <2> QED BY <2>1, <2>3 DEF FinishCommit, CallbackRaises, InCallback, Idle, Invoke
<1>6. CASE FailClose(p)
  <2>1. Resume(p) /\ UNCHANGED <<ran, frames>> /\ pc[p] = "close"
    BY <1>6 DEF FailClose
  <2>2. ASSUME NEW b, b # {} PROVE Holds(p, b) <=> Holds(p, b)' \/ b = arg[p].batch
    BY <1>c, <2>1, <2>2, Standing DEF Holds
  <2>3. Dues' = Dues \/ \E b \in Dues : Dues' = Dues \ {b}
    BY <1>2, <2>2
  <2> QED BY <1>6, <2>1, <2>3 DEF FinishCommit, Invoke
<1>7. CASE CallbackRaises(p)
  <2>1. frames' = [frames EXCEPT ![p] = Tail(@)] /\ frames[p] # <<>> /\ UNCHANGED <<pc, arg, ran>> /\ pc[p] = "idle"
    BY <1>7 DEF CallbackRaises, InCallback, Idle
  <2>2. ASSUME NEW b, b # {} PROVE Holds(p, b) <=> Holds(p, b)' \/ b = Head(frames[p]).left
    BY <2>1, <2>2, Standing DEF Holds
  <2>3. Dues' = Dues \/ \E b \in Dues : Dues' = Dues \ {b}
    BY <1>2, <2>2
  <2> QED BY <1>7, <2>1, <2>3 DEF FinishCommit, Invoke
<1>8. CASE CallbackReturns(p) /\ ~CallbackRaises(p)
  <2>1. frames[p] # <<>> /\ ran' = ran /\ pc[p] = "idle"
    BY <1>8 DEF CallbackReturns, InCallback, Idle, history
  <2>2. \/ UNCHANGED frames /\ Suspend(p, "callbacks", Nothing)
        \/ frames' = [frames EXCEPT ![p] = Tail(@)] /\ UNCHANGED arg /\ Head(frames[p]).left = {}
    BY <1>8 DEF CallbackReturns
  <2>3. ASSUME NEW b, b # {} PROVE Holds(p, b)' <=> Holds(p, b)
    BY <1>a, <1>b, <1>g, <2>1, <2>2, <2>3, Standing DEF Holds
  <2>4. Dues' = Dues
    BY <1>3, <2>3
  <2> QED BY <1>8, <2>1, <2>4 DEF FinishCommit, FailClose, Invoke
<1>9. CASE Invoke(p)
  <2> PICK top \in SUBSET Callbacks : \E k \in First(top) :
             /\ k \in top /\ ran' = ran \cup {k} /\ Stands(p, top)
             /\ \A b : Stands(p, b)' => Stands(p, b) \/ b = top \ {k}
             /\ \A b : Stands(p, b) => Stands(p, b)' \/ b = top
             /\ Stands(p, top \ {k})'
    BY <1>9, TurnsLoop
  <2> PICK k \in First(top) :
             /\ k \in top /\ ran' = ran \cup {k} /\ Stands(p, top)
             /\ \A b : Stands(p, b)' => Stands(p, b) \/ b = top \ {k}
             /\ \A b : Stands(p, b) => Stands(p, b)' \/ b = top
             /\ Stands(p, top \ {k})'
    OBVIOUS
  <2> PICK rest : rest = top \ {k}
    OBVIOUS
  <2>1. arg[p].batch = {} /\ arg'[p].batch = {} /\ pc[p] = "callbacks"
    BY <1>9, <1>a, <1>b, <1>g DEF Invoke
  <2>2. /\ \A b : Holds(p, b)' => Holds(p, b) \/ (b = rest /\ b # {})
        /\ \A b : Holds(p, b) => Holds(p, b)' \/ b = top
        /\ rest # {} => Holds(p, rest)'
        /\ Holds(p, top)
    BY <2>1 DEF Holds
  <2>3. \A q \in Tasks : ~Holds(q, top)'
    BY DEF Once, Holds, Stands
  <2>4. ASSUME NEW b PROVE b \in Dues' <=> (b \in Dues /\ b # top) \/ (b = rest /\ b # {})
    <3>1. b = top => b \notin Dues' /\ b # rest
      BY <2>3, DuesAre
    <3>2. b = rest /\ b # {} => b \in Dues'
      BY <2>2, DuesAre
    <3>3. b \in Dues' => b \in Dues \/ (b = rest /\ b # {})
      BY <1>h, <2>2, DuesAre
    <3>4. b \in Dues => b \in Dues' \/ b = top
      BY <1>h, <2>2, DuesAre
    <3> QED BY <3>1, <3>2, <3>3, <3>4
  <2>5. top \in Dues /\ Dues' = (Dues \ {top}) \cup ({rest} \ {{}})
    BY <2>2, <2>4, DuesAre
  <2> QED BY <1>9, <2>1, <2>5 DEF FinishCommit, FailClose, CallbackRaises, InCallback, Idle
<1>10. CASE ~Turns(p)
  <2>1. ASSUME NEW b, b # {} PROVE Holds(p, b)' <=> Holds(p, b)
    BY <1>10, <2>1, Quiets, Standing DEF Holds
  <2>2. Dues' = Dues
    BY <1>3, <2>1
  <2> QED BY <1>10, <2>2, Quiets DEF Turns, EndCallback
<1> QED BY <1>4, <1>5, <1>6, <1>7, <1>8, <1>9, <1>10 DEF Turns, EndCallback

-----------------------------------------------------------------------------
(* What a step does to the lists.  One that registers nothing, and commits   *)
(* no savepoint, takes lists of one connection away whole.                   *)
Sinks(c) == \A u \in Txs : cbs[u] # {} \/ cbs'[u] # {} =>
    /\ home'[u] = home[u] /\ cbs'[u] \in {cbs[u], {}}
    /\ home[u] # c => cbs'[u] = cbs[u]

\* The commit of a savepoint.
Merges(p) == FinishCommit(p) /\ root[home[arg[p].tx]] # arg[p].tx

(* Every other step leaves the lists of at most one connection shorter.      *)
LEMMA SinksStep ==
    ASSUME DeliveryInv, NEW p \in Tasks, Step(p), ~AfterCommit(p), ~Merges(p)
    PROVE  /\ \E c : Sinks(c)
           /\ FinishCommit(p) => Sinks(home[arg[p].tx])
<1>0. /\ TypeInv /\ Begun /\ SessionTypeOK /\ ChainInv
      /\ recorded \subseteq Txs /\ \A u \in Txs : u \notin recorded => cbs[u] = {}
  BY DEF DeliveryInv, Files, ChainInv, AloneInv, Begun, TypeInv, TypeOK
<1>1. ASSUME NEW c, NEW L, Falls(c, L) PROVE Sinks(c)
  BY <1>0, <1>1 DEF Falls, Sinks
<1>2. CASE Ending(p)
  <2> PICK t, c : t = arg[p].tx /\ c = home[t]
    OBVIOUS
  <2>1. \E L : Falls(c, L)
    BY <1>2, RootFalls, TopFalls DEF Merges
  <2>2. Sinks(c)
    BY <1>1, <2>1
  <2> QED BY <2>2
<1>3. CASE FinishConnect(p) \/ BeginOnConnection(p) \/ FinishSavepoint(p)
  <2> PICK c \in Conns, t \in Txs : StartsRoot(c, t) \/ StartsNested(c, t)
    BY <1>0, <1>3, Starts
  <2>1. \A u \in Txs : cbs'[u] = IF u \in recorded' THEN cbs[u] ELSE {}
    BY <1>0, <1>3, Fresher
  <2>2. /\ Begins(c, t)
        /\ \A u \in recorded : u \notin recorded' => home[u] = c
    BY <1>0 DEF StartsRoot, StartsNested, OnConn
  <2>3. /\ \A u \in Txs : home[u] # NoConn => home'[u] = home[u]
        /\ \A u \in recorded : u \in Txs /\ home[u] # NoConn
    <3>1. \A u \in recorded : home[u] # NoConn
      BY <1>0 DEF Begun, Named
    <3> QED BY <1>0, <2>2, <3>1, Newest
  <2>4. Sinks(c)
    BY <1>0, <2>1, <2>2, <2>3 DEF Sinks
  <2>5. ~FinishCommit(p)
    BY <1>3 DEF FinishConnect, BeginOnConnection, FinishSavepoint, FinishCommit, Idle
  <2> QED BY <2>4, <2>5
<1>4. CASE ~Ending(p) /\ ~(FinishConnect(p) \/ BeginOnConnection(p) \/ FinishSavepoint(p))
  <2>1. \E c : Sinks(c)
    BY <1>1, <1>4, OtherFalls
  <2> QED BY <1>4, <2>1 DEF Ending
<1> QED BY <1>2, <1>3, <1>4

(* The order between callbacks is never taken back.                          *)
LEMMA Lengthens == ASSUME NEW p \in Tasks, Step(p) PROVE before \subseteq before'
<1>1. /\ \A c, t, parent : ManagerBegin(c, t, parent) => before' = before
      /\ \A c, t, forget : ManagerRollback(c, t, forget) => before' = before
      /\ \A c, t, forget : ManagerCommit(c, t, forget) => before \subseteq before'
      /\ \A c : ManagerForget(c) => before' = before
      /\ \A k, t : Queue(k, t) => before \subseteq before'
      /\ \A k : RunAtOnce(k) => before' = before
  BY DEF ManagerBegin, ManagerRollback, ManagerCommit, ManagerForget, Queue, RunAtOnce
<1>2. CASE Begin(p) \/ FinishConnect(p) \/ BeginFails(p) \/ FailConnect(p) \/ FinishSavepoint(p) \/ FailSavepoint(p)
  BY <1>1, <1>2 DEF Begin, StartConnect, BeginOnConnection, StartSavepoint, FinishConnect, BeginFails,
                    FailConnect, FinishSavepoint, FailSavepoint, registry
<1>3. CASE FinishCommit(p) \/ FailCommit(p) \/ FinishRollback(p) \/ FailRollback(p)
  BY <1>1, <1>3 DEF FinishCommit, FailCommit, FinishRollback, FailRollback, AfterRollback
<1>4. CASE Exit(p) \/ Close(p) \/ AfterCommit(p)
  BY <1>1, <1>4 DEF Exit, Close, AfterCommit, registry
<1>5. CASE \/ Commit(p) \/ Rollback(p) \/ EndCallback(p) \/ Spawn(p) \/ FinishClose(p) \/ FailClose(p) \/ Invoke(p)
  BY <1>5 DEF Commit, Rollback, EndCallback, CallbackReturns, CallbackRaises, Spawn, FinishClose, FailClose,
              Invoke, registry
<1> QED BY <1>2, <1>3, <1>4, <1>5 DEF Step, Continue

(* The step takes all the callbacks recorded on connection c, whose root is t, *)
(* leaves none there, and puts them in the order of their records.           *)
Emptied(t, c) ==
    /\ c \in Conns /\ home' = home /\ reg' = reg
    /\ \A k : k \in Batch(t) <=> \E u \in recorded : home[u] = c /\ k \in cbs[u]
    /\ \A u \in Txs : home[u] = c => cbs'[u] = {}
    /\ Joined(recorded \cap OnConn(c)) \subseteq before'

(* The commit of a root takes the lists of its connection as one batch.      *)
LEMMA RootTakes ==
    ASSUME DeliveryInv, NEW p \in Tasks, Step(p), FinishCommit(p),
           NEW t, t = arg[p].tx, NEW c, c = home[t], root[c] = t
    PROVE  Emptied(t, c)
<1>0. /\ SessionTypeOK /\ ChainInv /\ recorded \subseteq Txs
  BY DEF DeliveryInv, ChainInv, AloneInv, Begun, TypeInv, TypeOK
<1>1. t \in Txs /\ c \in Conns
  BY <1>0, Committed
<1>2. ManagerCommit(c, t, ~StaysIn(c)) /\ reg' = reg
  BY DEF FinishCommit, history
<1>3. /\ Drops(OnConn(c)) /\ Batch(t) = Collected(t)
      /\ \A k : k \in Collected(t) <=> \E u \in recorded : home[u] = c /\ k \in cbs[u]
  BY <1>0, <1>1, <1>2, RootLeaves
<1>4. Detached(t) = recorded \cap OnConn(c) /\ Heir(t) = NoTx /\ NoTx \notin recorded
  BY <1>0, <1>1, DetachedRoot, SessionAssumption
<1>5. Detached(t) \cup ({Heir(t)} \cap recorded) = recorded \cap OnConn(c)
  BY <1>4
<1>6. Joined(recorded \cap OnConn(c)) \subseteq before'
  BY <1>2, <1>5 DEF ManagerCommit
<1>7. \A u \in Txs : home[u] = c => cbs'[u] = {}
  BY <1>3 DEF Drops, Keep, OnConn
<1>8. home' = home
  <2>1. \E L : Falls(c, L)
    BY RootFalls DEF Ending
  <2> QED BY <2>1 DEF Falls
<1> QED BY <1>1, <1>2, <1>3, <1>6, <1>7, <1>8 DEF Emptied

(* The commit of a savepoint appends its list to that of the record below.   *)
LEMMA SavepointTakes ==
    ASSUME DeliveryInv, NEW p \in Tasks, Merges(p)
    PROVE  \E t \in recorded : \E b \in recorded :
             /\ t = arg[p].tx /\ Batch(t) = {} /\ UNCHANGED <<home, reg>>
             /\ b < t /\ home[b] = home[t]
             /\ \A u \in Txs \ {t, b} : cbs'[u] = cbs[u]
             /\ cbs'[t] = {} /\ cbs'[b] = cbs[b] \cup cbs[t]
             /\ \A w \in Txs : home[w] = home[b] /\ b < w => cbs'[w] = {}
             /\ \A j \in cbs[b], k \in cbs[t] : <<j, k>> \in before'
<1> PICK t, c : t = arg[p].tx /\ c = home[t]
  OBVIOUS
<1>0. /\ SessionTypeOK /\ ChainInv /\ recorded \subseteq Txs /\ cbs \in [Txs -> SUBSET Callbacks] /\ NoTx \notin Txs
      /\ \A u \in Txs : u \notin recorded => cbs[u] = {}
  BY SessionAssumption DEF DeliveryInv, Files, ChainInv, AloneInv, Begun, TypeInv, TypeOK
<1>1. FinishCommit(p) /\ root[c] # t
  BY DEF Merges
<1>2. t \in Txs /\ c \in Conns /\ Batch(t) = {}
  BY <1>0, <1>1, Committed
<1>3. UNCHANGED <<home, reg>> /\ \E b \in Txs : b = Below(t) /\ Takes(t, b, c)
  BY <1>1, Heirs
<1> PICK b \in Txs : b = Below(t) /\ Takes(t, b, c)
  BY <1>3
<1>4. /\ t \in recorded /\ b \in recorded /\ b < t /\ home[b] = c /\ t # b
      /\ recorded' = recorded \ {t}
      /\ \A u \in Txs : u \notin recorded' => cbs'[u] = {}
      /\ \A u \in recorded' : \A k : k \in cbs'[u] <=> k \in cbs[u] \/ (u = b /\ k \in cbs[t])
      /\ \A w \in recorded' : home[w] = c => ~(b < w)
  BY TxsAreNumbers DEF Takes
<1>5. cbs'[t] = {} /\ cbs'[b] = cbs[b] \cup cbs[t]
  BY <1>2, <1>4
<1>6. \A u \in Txs \ {t, b} : cbs'[u] = cbs[u]
  BY <1>0, <1>4
<1>7. \A w \in Txs : home[w] = home[b] /\ b < w => cbs'[w] = {}
  BY <1>4
<1>8. Detached(t) = {t} /\ Heir(t) = b
  <2>1. active[t] => nested[c] = t
    <3>1. pc[p] = "commit"
      BY <1>1 DEF FinishCommit
    <3> QED BY <1>0, <1>1, <1>2, <3>1 DEF ChainInv, Top, Innermost
  <2> QED BY <1>0, <1>1, <1>2, <1>4, <2>1, DetachedTop
<1>9. \A j \in cbs[b], k \in cbs[t] : <<j, k>> \in before'
  <2>1. ManagerCommit(c, t, ~StaysIn(c))
    BY <1>1 DEF FinishCommit
  <2>2. Joined({t} \cup ({b} \cap recorded)) \subseteq before'
    BY <1>8, <2>1 DEF ManagerCommit
  <2>3. b \in {t} \cup ({b} \cap recorded) /\ t \in {t} \cup ({b} \cap recorded)
    BY <1>4
  <2>4. \A j \in cbs[b], k \in cbs[t] : j \in Callbacks /\ k \in Callbacks
    BY <1>0, <1>2
  <2> QED BY <1>4, <2>2, <2>3, <2>4 DEF Joined
<1> QED BY <1>2, <1>3, <1>4, <1>5, <1>6, <1>7, <1>9

(* A callback that is registered is the next in number; queued, it goes to   *)
(* the end of the list of the innermost record of its connection.            *)
LEMMA Registers ==
    ASSUME DeliveryInv, Once, NEW p \in Tasks, AfterCommit(p)
    PROVE  \E k \in Callbacks :
             /\ k \notin Seen /\ Seen' = Seen \cup {k} /\ home' = home
             /\ \A u \in Txs : \A j \in cbs[u] : j < k
             /\ \/ UNCHANGED <<cbs, before>>
                \/ \E t \in recorded : /\ cbs' = [cbs EXCEPT ![t] = @ \cup {k}]
                                       /\ home[t] \in Conns
                                       /\ \A j \in cbs[t] : <<j, k>> \in before'
                                       /\ \A u \in recorded : home[u] = home[t] => ~(t < u)
<1>0. /\ TypeInv /\ Begun /\ SessionTypeOK /\ recorded \subseteq Txs /\ NoTx \notin Txs
      /\ cbs \in [Txs -> SUBSET Callbacks] /\ reg \in [Callbacks -> Txs \cup {Unused, Immediate}]
  BY SessionAssumption DEF DeliveryInv, ChainInv, AloneInv, Begun, TypeInv, TypeOK
<1> PICK k \in Callbacks : /\ \A j \in Callbacks : reg[j] = Unused <=> j >= k
                           /\ IF CurrentTx(p) \in recorded THEN Queue(k, CurrentTx(p)) ELSE RunAtOnce(k)
  BY DEF AfterCommit
<1>1. UNCHANGED <<home, recorded>>
  BY DEF AfterCommit, session, tasks
<1>2. reg[k] = Unused /\ Unused \notin Txs /\ Immediate # Unused
  BY TransactionsAssumption, SessionAssumption DEF Unused, Immediate
<1>3. \A u \in Txs : \A j \in cbs[u] : j < k
  <2> SUFFICES ASSUME NEW u \in Txs, NEW j \in cbs[u] PROVE j < k
    OBVIOUS
  <2>1. j \in Callbacks /\ reg[j] # Unused
    BY <1>0 DEF Once
  <2>2. ~(j >= k) /\ j \in Nat /\ k \in Nat
    BY <2>1, TransactionsAssumption
  <2> QED BY <2>2
<1>4. \E v \in Txs \cup {Immediate} : reg' = [reg EXCEPT ![k] = v]
  BY <1>0 DEF Queue, RunAtOnce
<1>5. k \notin Seen /\ Seen' = Seen \cup {k}
  BY <1>0, <1>2, <1>4 DEF Seen
<1>6. CASE CurrentTx(p) \notin recorded
  BY <1>1, <1>3, <1>5, <1>6 DEF RunAtOnce
<1>7. CASE CurrentTx(p) \in recorded
  <2> PICK t \in recorded : t = CurrentTx(p)
    BY <1>7
  <2> PICK c : c = Current(p)
    OBVIOUS
  <2>1. c \in Conns /\ t = Innermost(c)
    BY <1>0, CurrentType DEF CurrentTx
  <2>2. home[t] = c
    BY <1>0, <2>1 DEF Begun, Placed, Innermost
  <2>3. \A u \in recorded : home[u] = c => ~(t < u)
    <3> SUFFICES ASSUME NEW u \in recorded, home[u] = c PROVE ~(t < u)
      OBVIOUS
    <3>1. u <= t
      BY <2>1 DEF DeliveryInv, ChainInv, Records
    <3>2. u \in Nat /\ t \in Nat
      BY <1>0, TxsAreNumbers
    <3> QED BY <3>1, <3>2
  <2>4. cbs' = [cbs EXCEPT ![t] = @ \cup {k}] /\ before' = before \cup (cbs[t] \X {k})
    BY <1>7 DEF Queue
  <2> QED BY <1>1, <1>3, <1>5, <2>1, <2>2, <2>3, <2>4
<1> QED BY <1>6, <1>7

-----------------------------------------------------------------------------
(* Registration appends, a savepoint's list follows that of its parent.      *)
LEMMA OrderStep == ASSUME DeliveryInv, Once, Once', Order, NEW p \in Tasks, Step(p) PROVE Order'
<1>0. /\ TypeInv /\ SessionTypeOK /\ ChainInv /\ Due /\ recorded \subseteq Txs /\ cbs \in [Txs -> SUBSET Callbacks]
      /\ \A u \in Txs : u \notin recorded => cbs[u] = {}
  BY DEF DeliveryInv, Files, ChainInv, AloneInv, Begun, TypeInv, TypeOK
<1>a. \A u \in Txs : \A k \in cbs[u] : k \in Nat /\ k \in Callbacks /\ u \in recorded
  BY <1>0, TransactionsAssumption
<1>b. \A S : Listed(S) => Listed(S)'
  BY Lengthens DEF Listed
<1>1. /\ \A t, u \in Txs : home'[t] = home'[u] /\ t < u => \A j \in cbs'[t], k \in cbs'[u] : j < k
      /\ \A t \in Txs : \A j, k \in cbs'[t] : j < k => <<j, k>> \in before'
  <2>1. CASE AfterCommit(p)
    <3> PICK k \in Callbacks :
             /\ home' = home
             /\ \A u \in Txs : \A j \in cbs[u] : j < k
             /\ \/ UNCHANGED <<cbs, before>>
                \/ \E t \in recorded : /\ cbs' = [cbs EXCEPT ![t] = @ \cup {k}]
                                       /\ home[t] \in Conns
                                       /\ \A j \in cbs[t] : <<j, k>> \in before'
                                       /\ \A u \in recorded : home[u] = home[t] => ~(t < u)
      BY <2>1, Registers
    <3>1. CASE UNCHANGED <<cbs, before>>
      BY <3>1 DEF Order, Listed
    <3>2. CASE ~UNCHANGED <<cbs, before>>
      <4> PICK t \in recorded : /\ cbs' = [cbs EXCEPT ![t] = @ \cup {k}]
                                /\ \A j \in cbs[t] : <<j, k>> \in before'
                                /\ \A u \in recorded : home[u] = home[t] => ~(t < u)
        BY <3>2
      <4>1. t \in Txs /\ cbs'[t] = cbs[t] \cup {k} /\ \A u \in Txs \ {t} : cbs'[u] = cbs[u]
        BY <1>0
      <4>2. ASSUME NEW v \in Txs, NEW u \in Txs, home[v] = home[u], v < u, NEW i \in cbs'[v], NEW j \in cbs'[u]
            PROVE  i < j
        <5>1. v # t \/ u \notin recorded
          BY <4>2
        <5>2. v # u
          BY <4>2, TxsAreNumbers
        <5>3. v # t
          <6>1. CASE u \in recorded
            BY <5>1, <6>1
          <6>2. CASE u \notin recorded
            BY <1>0, <4>1, <4>2, <6>2
          <6> QED BY <6>1, <6>2
        <5>4. i \in cbs[v] /\ (j \in cbs[u] \/ j = k)
          BY <4>1, <5>3
        <5> QED BY <4>2, <5>4 DEF Order
      <4>3. ASSUME NEW u \in Txs, NEW i \in cbs'[u], NEW j \in cbs'[u], i < j PROVE <<i, j>> \in before'
        <5>1. CASE i \in cbs[u] /\ j \in cbs[u]
          BY <1>b, <4>3, <5>1 DEF Order, Listed
        <5>2. CASE ~(i \in cbs[u] /\ j \in cbs[u])
          <6>1. u = t /\ (i = k \/ j = k) /\ (i = k \/ i \in cbs[t]) /\ (j = k \/ j \in cbs[t])
            BY <4>1, <5>2
          <6>2. i # k
            <7>1. j = k => ~(k < k)
              BY TransactionsAssumption
            <7>2. j \in cbs[t] => j < k /\ j \in Nat /\ k \in Nat
              BY <1>a, <4>1, TransactionsAssumption
            <7>3. j \in cbs[t] => ~(k < j)
              BY <7>2
            <7> QED BY <4>3, <6>1, <7>1, <7>3
          <6> QED BY <6>1, <6>2
        <5> QED BY <5>1, <5>2
      <4> QED BY <4>2, <4>3
    <3> QED BY <3>1, <3>2
  <2>2. CASE Merges(p)
    <3> PICK t \in recorded : \E b \in recorded :
             /\ UNCHANGED <<home, reg>> /\ b < t /\ home[b] = home[t]
             /\ \A u \in Txs \ {t, b} : cbs'[u] = cbs[u]
             /\ cbs'[t] = {} /\ cbs'[b] = cbs[b] \cup cbs[t]
             /\ \A w \in Txs : home[w] = home[b] /\ b < w => cbs'[w] = {}
             /\ \A j \in cbs[b], k \in cbs[t] : <<j, k>> \in before'
      BY <2>2, SavepointTakes
    <3> PICK b \in recorded :
             /\ UNCHANGED <<home, reg>> /\ b < t /\ home[b] = home[t]
             /\ \A u \in Txs \ {t, b} : cbs'[u] = cbs[u]
             /\ cbs'[t] = {} /\ cbs'[b] = cbs[b] \cup cbs[t]
             /\ \A w \in Txs : home[w] = home[b] /\ b < w => cbs'[w] = {}
             /\ \A j \in cbs[b], k \in cbs[t] : <<j, k>> \in before'
      OBVIOUS
    <3>1. t \in Txs /\ b \in Txs /\ t \in Nat /\ b \in Nat /\ t # b
      BY <1>0, TxsAreNumbers
    <3>2. ASSUME NEW v \in Txs, NEW u \in Txs, home[v] = home[u], v < u, NEW i \in cbs'[v], NEW j \in cbs'[u]
          PROVE  i < j
      <4>0. v \in Nat /\ u \in Nat /\ v # u
        BY <3>2, TxsAreNumbers
      <4>a. v # t /\ u # t
        BY <3>2
      <4>b. v # b
        BY <3>2
      <4>1. v # t /\ u # t /\ v # b /\ v # u /\ i \in cbs[v] /\ v \in Nat /\ u \in Nat
        BY <3>2, <4>0, <4>a, <4>b
      <4>2. j \in cbs[u] \/ (u = b /\ j \in cbs[t])
        BY <4>1
      <4>3. u = b => home[v] = home[t] /\ v < t
        BY <3>1, <3>2, <4>1
      <4> QED BY <3>1, <3>2, <4>1, <4>2, <4>3 DEF Order
    <3>3. ASSUME NEW u \in Txs, NEW i \in cbs'[u], NEW j \in cbs'[u], i < j PROVE <<i, j>> \in before'
      <4>1. CASE u # b
        <5>1. cbs'[u] = cbs[u]
          BY <3>3, <4>1
        <5> QED BY <1>b, <3>3, <5>1 DEF Order, Listed
      <4>2. CASE u = b
        <5>1. CASE (i \in cbs[b] /\ j \in cbs[b]) \/ (i \in cbs[t] /\ j \in cbs[t])
          BY <1>b, <3>1, <3>3, <5>1 DEF Order, Listed
        <5>2. CASE i \in cbs[b] /\ j \in cbs[t]
          BY <5>2
        <5>3. CASE i \in cbs[t] /\ j \in cbs[b]
          <6>1. j < i
            BY <3>1, <5>3 DEF Order
          <6>2. i \in Nat /\ j \in Nat
            BY <1>a, <3>1, <5>3
          <6> QED BY <3>3, <6>1, <6>2
        <5> QED BY <3>3, <4>2, <5>1, <5>2, <5>3
      <4> QED BY <4>1, <4>2
    <3> QED BY <3>2, <3>3
  <2>3. CASE ~AfterCommit(p) /\ ~Merges(p)
    <3> PICK c : Sinks(c)
      BY <2>3, SinksStep
    <3>1. \A u \in Txs : cbs'[u] # {} => home'[u] = home[u] /\ cbs'[u] = cbs[u]
      BY DEF Sinks
    <3>2. ASSUME NEW v \in Txs, NEW u \in Txs, home'[v] = home'[u], v < u, NEW i \in cbs'[v], NEW j \in cbs'[u]
          PROVE  i < j
      BY <3>1, <3>2 DEF Order
    <3>3. \A u \in Txs : \A i, j \in cbs'[u] : i < j => <<i, j>> \in before'
      BY <1>b, <3>1 DEF Order, Listed
    <3> QED BY <3>2, <3>3
  <2> QED BY <2>1, <2>2, <2>3
<1>2. ASSUME FinishCommit(p), NEW M, M = Batch(arg[p].tx) PROVE Listed(M)'
  <2> PICK t, c : t = arg[p].tx /\ c = home[t]
    OBVIOUS
  <2> SUFFICES \A j, k \in Batch(t) : j < k => <<j, k>> \in before'
    BY <1>2 DEF Listed
  <2>1. CASE Merges(p)
    BY <2>1, SavepointTakes
  <2>2. CASE ~Merges(p)
    <3>1. /\ \A k : k \in Batch(t) <=> \E u \in recorded : home[u] = c /\ k \in cbs[u]
          /\ Joined(recorded \cap OnConn(c)) \subseteq before'
      <4>1. Emptied(t, c)
        BY <1>2, <2>2, RootTakes DEF Merges
      <4> QED BY <4>1 DEF Emptied
    <3> SUFFICES ASSUME NEW j \in Batch(t), NEW k \in Batch(t), j < k PROVE <<j, k>> \in before'
      OBVIOUS
    <3> PICK u \in recorded : home[u] = c /\ j \in cbs[u]
      BY <3>1
    <3> PICK v \in recorded : home[v] = c /\ k \in cbs[v]
      BY <3>1
    <3>2. u \in Txs /\ v \in Txs /\ u \in Nat /\ v \in Nat /\ j \in Callbacks /\ k \in Callbacks /\ j \in Nat /\ k \in Nat
      BY <1>0, <1>a, TxsAreNumbers
    <3>3. ~(v < u)
      <4>1. v < u => k < j
        BY <3>2 DEF Order
      <4> QED BY <3>2, <4>1
    <3>4. CASE u = v
      BY <1>b, <3>2, <3>4 DEF Order, Listed
    <3>5. CASE u < v
      BY <3>1, <3>2, <3>5 DEF Joined, OnConn
    <3> QED BY <3>2, <3>3, <3>4, <3>5
  <2> QED BY <2>1, <2>2
<1>3. \A b \in Dues' : Listed(b)'
  <2>1. ASSUME NEW b, b \in Dues PROVE Listed(b)'
    BY <1>b, <2>1 DEF Order
  <2>2. CASE FinishCommit(p)
    <3> PICK M : M = Batch(arg[p].tx)
      OBVIOUS
    <3>1. Dues' = Dues \cup ({M} \ {{}})
      BY <1>0, <2>2, DuesStep
    <3> QED BY <1>2, <2>1, <2>2, <3>1
  <2>3. CASE Invoke(p)
    <3> PICK b \in Dues : \E k : Dues' = (Dues \ {b}) \cup ({b \ {k}} \ {{}})
      BY <1>0, <2>3, DuesStep
    <3> PICK k : Dues' = (Dues \ {b}) \cup ({b \ {k}} \ {{}})
      OBVIOUS
    <3>1. Listed(b \ {k})'
      BY <2>1 DEF Listed
    <3> QED BY <2>1, <3>1
  <2>4. CASE ~FinishCommit(p) /\ ~Invoke(p)
    <3>1. Dues' \subseteq Dues
      BY <1>0, <2>4, DuesStep
    <3> QED BY <2>1, <3>1
  <2> QED BY <2>2, <2>3, <2>4
<1> QED BY <1>1, <1>3 DEF Order, Listed

-----------------------------------------------------------------------------
(* The actions of AfterCommit under the mapping.                             *)
PromiseStep == [Promise!Next]_<<Seen, Queues, Dues, ran>>

(* What a step has to do to the mapped variables to be a step of AfterCommit. *)
LEMMA Mapped ==
    /\ \A k \in Callbacks :
         /\ k \notin Seen /\ Seen' = Seen \cup {k} /\ UNCHANGED <<Dues, ran>>
         /\ \/ UNCHANGED Queues
            \/ \E c \in Conns : Queues' = [Queues EXCEPT ![c] = @ \cup {k}]
         => PromiseStep
    /\ \A c \in Conns :
         /\ Queues[c] # {} /\ Dues' = Dues \cup {Queues[c]}
         /\ Queues' = [Queues EXCEPT ![c] = {}] /\ UNCHANGED <<Seen, ran>>
         => PromiseStep
    /\ \A c \in Conns : \A D :
         /\ D \in SUBSET Queues[c] /\ Queues' = [Queues EXCEPT ![c] = @ \ D]
         /\ UNCHANGED <<Seen, Dues, ran>>
         => PromiseStep
    /\ \A b \in Dues : \A k \in b :
         /\ \A j \in b : k <= j
         /\ ran' = ran \cup {k} /\ Dues' = (Dues \ {b}) \cup ({b \ {k}} \ {{}})
         /\ UNCHANGED <<Seen, Queues>>
         => PromiseStep
    /\ \A b \in Dues : Dues' = Dues \ {b} /\ UNCHANGED <<Seen, Queues, ran>> => PromiseStep
    /\ UNCHANGED <<Seen, Queues, Dues, ran>> => PromiseStep
BY DEF PromiseStep, Promise!Next, Promise!Register, Promise!Commit, Promise!Discard, Promise!Run, Promise!Skip,
       Seen, Queues, Dues

(* The queue of a connection by its members.                                 *)
LEMMA QueuesAre ==
    /\ \A c \in Conns : \A k : k \in Queues[c] <=> \E t \in Txs : home[t] = c /\ k \in cbs[t]
    /\ \A c \in Conns : \A k : k \in Queues'[c] <=> \E t \in Txs : home'[t] = c /\ k \in cbs'[t]
    /\ DOMAIN Queues = Conns /\ DOMAIN Queues' = Conns
    /\ Queues = [c \in Conns |-> Queues[c]] /\ Queues' = [c \in Conns |-> Queues'[c]]
BY DEF Queues, OnConn

\* Two queues with the same members are the same.
LEMMA QueuesEqual ==
    ASSUME NEW S, NEW d
    PROVE  /\ (\A c \in Conns : \A k : k \in Queues'[c] <=> k \in Queues[c]) => Queues' = Queues
           /\ (\A c \in Conns : \A k : k \in Queues'[c] <=> IF c = d THEN k \in S ELSE k \in Queues[c])
                => Queues' = [Queues EXCEPT ![d] = S]
<1>1. ASSUME \A c \in Conns : \A k : k \in Queues'[c] <=> k \in Queues[c] PROVE Queues' = Queues
  <2>1. \A c \in Conns : Queues'[c] = Queues[c]
    BY <1>1
  <2> QED BY <2>1, QueuesAre
<1>2. ASSUME \A c \in Conns : \A k : k \in Queues'[c] <=> IF c = d THEN k \in S ELSE k \in Queues[c]
      PROVE  Queues' = [Queues EXCEPT ![d] = S]
  <2>1. \A c \in Conns : Queues'[c] = IF c = d THEN S ELSE Queues[c]
    BY <1>2
  <2> QED BY <2>1, QueuesAre
<1> QED BY <1>1, <1>2

(* Lists that sink leave the queue of their connection, or none.             *)
LEMMA SinksQueues ==
    ASSUME NEW d, Sinks(d)
    PROVE  \/ UNCHANGED Queues
           \/ d \in Conns /\ \E D \in SUBSET Queues[d] : Queues' = [Queues EXCEPT ![d] = @ \ D]
<1>1. /\ \A c \in Conns : \A k : c # d => (k \in Queues'[c] <=> k \in Queues[c])
      /\ \A c \in Conns : \A k : k \in Queues'[c] => k \in Queues[c]
  BY QueuesAre DEF Sinks
<1>2. CASE d \notin Conns
  BY <1>1, <1>2, QueuesEqual
<1>3. CASE d \in Conns
  <2> PICK D : D = Queues[d] \ Queues'[d]
    OBVIOUS
  <2>1. D \in SUBSET Queues[d] /\ Queues'[d] = Queues[d] \ D
    BY <1>1, <1>3
  <2>2. Queues' = [Queues EXCEPT ![d] = Queues'[d]]
    BY <1>1, QueuesEqual
  <2> QED BY <1>3, <2>1, <2>2
<1> QED BY <1>2, <1>3

(* A root's commit is the commit of its connection's queue; a savepoint's    *)
(* moves callbacks within the queue.                                         *)
LEMMA CommitStep == ASSUME PromiseInv, Once', NEW p \in Tasks, Step(p), FinishCommit(p) PROVE PromiseStep
<1>0. /\ DeliveryInv /\ TypeInv /\ Due /\ recorded \subseteq Txs /\ ~Invoke(p)
      /\ \A u \in Txs : u \notin recorded => cbs[u] = {}
  BY DEF PromiseInv, DeliveryInv, Files, ChainInv, AloneInv, Begun, TypeInv, TypeOK, FinishCommit, Invoke
<1>d. DeliveryInv
  BY DEF PromiseInv
<1> PICK t, c : t = arg[p].tx /\ c = home[t]
  OBVIOUS
<1> PICK M : M = Batch(t)
  OBVIOUS
<1>1. Dues' = Dues \cup ({M} \ {{}}) /\ ran' = ran
  BY <1>0, DuesStep
<1>2. CASE Merges(p)
  <2> PICK b \in recorded :
        /\ t \in recorded /\ M = {} /\ UNCHANGED <<home, reg>> /\ home[b] = home[t]
        /\ \A u \in Txs \ {t, b} : cbs'[u] = cbs[u]
        /\ cbs'[t] = {} /\ cbs'[b] = cbs[b] \cup cbs[t]
    BY <1>0, <1>2, SavepointTakes
  <2>1. \A d \in Conns : \A k : k \in Queues'[d] <=> k \in Queues[d]
    <3> SUFFICES ASSUME NEW d \in Conns, NEW k
                 PROVE  (\E u \in Txs : home[u] = d /\ k \in cbs'[u]) <=> \E u \in Txs : home[u] = d /\ k \in cbs[u]
      BY QueuesAre
    <3>1. t \in Txs /\ b \in Txs
      BY <1>0
    <3>2. \A u \in Txs : k \in cbs'[u] => k \in cbs[u] \/ (u = b /\ k \in cbs[t])
      OBVIOUS
    <3>3. \A u \in Txs : k \in cbs[u] => k \in cbs'[u] \/ (u = t /\ k \in cbs'[b])
      OBVIOUS
    <3> QED BY <3>1, <3>2, <3>3
  <2>2. UNCHANGED <<Seen, Queues, Dues>>
    BY <1>1, <2>1, QueuesEqual DEF Seen
  <2> QED BY <1>1, <2>2, Mapped
<1>3. CASE ~Merges(p)
  <2>1. /\ c \in Conns /\ home' = home /\ reg' = reg
        /\ \A k : k \in M <=> \E u \in recorded : home[u] = c /\ k \in cbs[u]
        /\ \A u \in Txs : home[u] = c => cbs'[u] = {}
    <3>1. root[c] = t
      BY <1>3 DEF Merges
    <3>2. Emptied(t, c)
      BY <1>d, <3>1, RootTakes
    <3> QED BY <3>2 DEF Emptied
  <2>2. Sinks(c)
    BY <1>0, <1>3, SinksStep DEF FinishCommit, AfterCommit, Idle
  <2>3. M = Queues[c]
    <3>1. \A k : k \in M <=> k \in Queues[c]
      BY <1>0, <2>1, QueuesAre
    <3> QED BY <3>1
  <2>4. \A d \in Conns : \A k : k \in Queues'[d] <=> IF d = c THEN k \in {} ELSE k \in Queues[d]
    <3> SUFFICES ASSUME NEW d \in Conns, NEW k
                 PROVE  k \in Queues'[d] <=> d # c /\ k \in Queues[d]
      OBVIOUS
    <3>1. d = c => k \notin Queues'[d]
      BY <2>1, QueuesAre
    <3>2. d # c => (k \in Queues'[d] <=> k \in Queues[d])
      BY <2>1, <2>2, QueuesAre DEF Sinks
    <3> QED BY <3>1, <3>2
  <2>5. Queues' = [Queues EXCEPT ![c] = {}] /\ Seen' = Seen
    BY <2>1, <2>4, QueuesEqual DEF Seen
  <2>6. CASE M = {}
    <3>1. Queues' = Queues
      BY <2>3, <2>4, <2>6, QueuesEqual
    <3>2. Dues' = Dues
      BY <1>1, <2>6
    <3> QED BY <1>1, <2>5, <3>1, <3>2, Mapped
  <2>7. CASE M # {}
    <3>1. Dues' = Dues \cup {Queues[c]}
      BY <1>1, <2>3, <2>7
    <3> QED BY <1>1, <2>1, <2>3, <2>5, <2>7, <3>1, Mapped
  <2> QED BY <2>6, <2>7
<1> QED BY <1>2, <1>3

(* A registration is Register: queued on one connection, or not at all.      *)
LEMMA RegisterStep == ASSUME PromiseInv, Once', NEW p \in Tasks, Step(p), AfterCommit(p) PROVE PromiseStep
<1>0. DeliveryInv /\ Once /\ TypeInv /\ Due /\ recorded \subseteq Txs /\ cbs \in [Txs -> SUBSET Callbacks]
  BY DEF PromiseInv, DeliveryInv, ChainInv, AloneInv, Begun, TypeInv, TypeOK
<1>1. UNCHANGED <<Dues, ran>>
  <2>1. ~Turns(p)
    <3>1. /\ pc[p] = "idle" /\ UNCHANGED <<pc, frames, entered, reported>>
          /\ \E k \in Callbacks : reg[k] = Unused /\ reg'[k] # Unused
      <4>1. pc[p] = "idle" /\ UNCHANGED <<pc, frames, entered, reported>>
        BY DEF AfterCommit, tasks, Idle
      <4>2. \E k \in Callbacks : k \notin Seen /\ Seen' = Seen \cup {k}
        BY <1>0, Registers
      <4> QED BY <4>1, <4>2 DEF Seen
    <3>2. ~EndCallback(p)
      BY <3>1 DEF EndCallback, CallbackReturns, CallbackRaises, history
    <3> QED BY <3>1, <3>2 DEF Turns, FinishCommit, FinishClose, FailClose, Invoke
  <2> QED BY <1>0, <2>1, DuesStep DEF Turns, EndCallback
<1> PICK k \in Callbacks :
         /\ k \notin Seen /\ Seen' = Seen \cup {k} /\ home' = home
         /\ \/ UNCHANGED <<cbs, before>>
            \/ \E t \in recorded : cbs' = [cbs EXCEPT ![t] = @ \cup {k}] /\ home[t] \in Conns
  BY <1>0, Registers
<1>2. CASE UNCHANGED cbs
  <2>1. UNCHANGED Queues
    BY <1>2, QueuesAre, QueuesEqual
  <2> QED BY <1>1, <2>1, Mapped
<1>3. CASE ~UNCHANGED cbs
  <2> PICK t \in recorded : cbs' = [cbs EXCEPT ![t] = @ \cup {k}] /\ home[t] \in Conns
    BY <1>3
  <2> PICK c \in Conns : c = home[t]
    OBVIOUS
  <2>1. t \in Txs /\ \A u \in Txs : \A j : j \in cbs'[u] <=> j \in cbs[u] \/ (u = t /\ j = k)
    BY <1>0
  <2>2. \A d \in Conns : \A j : j \in Queues'[d] <=> IF d = c THEN j \in Queues[c] \cup {k} ELSE j \in Queues[d]
    <3> SUFFICES ASSUME NEW d \in Conns, NEW j
                 PROVE  j \in Queues'[d] <=> j \in Queues[d] \/ (d = c /\ j = k)
      OBVIOUS
    <3> QED BY <2>1, QueuesAre
  <2>3. Queues' = [Queues EXCEPT ![c] = @ \cup {k}]
    BY <2>2, QueuesEqual
  <2> QED BY <1>1, <2>3, Mapped
<1> QED BY <1>2, <1>3

(* Every step is one of the promise, or none.                                *)
LEMMA PromiseKept == ASSUME PromiseInv, Once', NEW p \in Tasks, Step(p) PROVE PromiseStep
<1>0. /\ DeliveryInv /\ Once /\ TypeInv /\ Due /\ recorded \subseteq Txs
      /\ \A k \in Callbacks : k \in Nat
  BY TransactionsAssumption DEF PromiseInv, DeliveryInv, ChainInv, AloneInv, Begun, TypeInv, TypeOK
<1>1. CASE AfterCommit(p)
  BY <1>1, RegisterStep
<1>2. CASE FinishCommit(p)
  BY <1>2, CommitStep
<1>3. CASE ~AfterCommit(p) /\ ~FinishCommit(p)
  <2>1. Seen' = Seen
    <3>1. reg' = reg
      BY <1>3 DEF Step, Begin, Continue, EndCallback, StartConnect, BeginOnConnection, StartSavepoint, Commit,
             Rollback, Exit, Close, CallbackReturns, CallbackRaises, Spawn, FinishConnect, BeginFails, FailConnect,
             FinishSavepoint, FailSavepoint, FailCommit, FinishRollback, FailRollback,
             FinishClose, FailClose, Invoke, history
    <3> QED BY <3>1 DEF Seen
  <2>2. \E d : Sinks(d)
    BY <1>0, <1>3, SinksStep DEF Merges
  <2>3. CASE FailClose(p) \/ CallbackRaises(p) \/ Invoke(p)
    <3>1. UNCHANGED Queues
      <4>1. UNCHANGED cbs
        BY <2>3 DEF FailClose, CallbackRaises, Invoke, registry
      <4>2. UNCHANGED home
        <5>1. CASE FailClose(p)
          BY <5>1 DEF FailClose, CloseFails, Drop
        <5>2. CASE ~FailClose(p)
          BY <2>3, <5>2 DEF CallbackRaises, Invoke, session
        <5> QED BY <5>1, <5>2
      <4> QED BY <4>1, <4>2, QueuesAre, QueuesEqual
    <3>2. CASE Invoke(p)
      <4> PICK b \in Dues : \E k \in First(b) :
                b \in SUBSET Callbacks /\ k \in b /\ ran' = ran \cup {k}
                /\ Dues' = (Dues \ {b}) \cup ({b \ {k}} \ {{}})
        BY <1>0, <3>2, DuesStep
      <4> PICK k \in First(b) :
                b \in SUBSET Callbacks /\ k \in b /\ ran' = ran \cup {k}
                /\ Dues' = (Dues \ {b}) \cup ({b \ {k}} \ {{}})
        OBVIOUS
      <4>1. \A j \in b : k <= j
        <5> SUFFICES ASSUME NEW j \in b, ~(k <= j) PROVE FALSE
          OBVIOUS
        <5>1. j < k
          BY <1>0
        <5>2. <<j, k>> \in before
          BY <5>1 DEF PromiseInv, Order, Listed
        <5> QED BY <5>2 DEF First
      <4> QED BY <2>1, <3>1, <4>1, Mapped
    <3>3. CASE ~Invoke(p)
      <4>1. ran' = ran /\ (Dues' = Dues \/ \E b \in Dues : Dues' = Dues \ {b})
        BY <1>0, <2>3, <3>3, DuesStep
      <4> QED BY <2>1, <3>1, <4>1, Mapped
    <3> QED BY <3>2, <3>3
  <2>4. CASE ~(FailClose(p) \/ CallbackRaises(p) \/ Invoke(p))
    <3>1. UNCHANGED <<Dues, ran>>
      BY <1>0, <1>3, <2>4, DuesStep
    <3> PICK d : Sinks(d)
      BY <2>2
    <3>2. \/ UNCHANGED Queues
          \/ d \in Conns /\ \E D \in SUBSET Queues[d] : Queues' = [Queues EXCEPT ![d] = @ \ D]
      BY SinksQueues
    <3> QED BY <2>1, <3>1, <3>2, Mapped
  <2> QED BY <2>3, <2>4
<1> QED BY <1>1, <1>2, <1>3

(* Every step keeps the invariant and is a step or a stutter of AfterCommit. *)
LEMMA PromiseInvStep == ASSUME ~Inherit, ~AnyOrder, PromiseInv, [Next]_vars PROVE PromiseInv' /\ PromiseStep
<1>1. DeliveryInv' /\ TypeInv /\ TypeInv'
  BY DeliveryStep, TypeInvStep DEF PromiseInv, DeliveryInv, ChainInv, AloneInv, Begun
<1>2. Once'
  BY <1>1, OnceStep DEF PromiseInv
<1>3. ASSUME NEW p \in Tasks, Step(p) PROVE Order' /\ PromiseStep
  BY <1>2, <1>3, OrderStep, PromiseKept DEF PromiseInv
<1>4. ASSUME UNCHANGED vars PROVE Order' /\ PromiseStep
  <2>1. UNCHANGED <<home, arg, frames, cbs, before, reg, ran>>
    BY <1>4 DEF vars, session, tasks, registry, history
  <2>2. UNCHANGED <<Seen, Queues, Dues>>
    BY <2>1 DEF Seen, Queues, Dues, Batches, OnConn
  <2>3. Order'
    BY <2>1, <2>2 DEF PromiseInv, Order, Listed
  <2> QED BY <2>1, <2>2, <2>3, Mapped
<1> QED BY <1>1, <1>2, <1>3, <1>4 DEF Next, PromiseInv

(* Both begin with nothing registered, queued or due.                        *)
LEMMA InitPromise == Init => PromiseInv /\ Promise!Init
<1> SUFFICES ASSUME Init PROVE PromiseInv /\ Promise!Init
  OBVIOUS
<1>1. DeliveryInv
  BY InitDelivery
<1>2. /\ \A u \in Txs : cbs[u] = {}
      /\ \A q \in Tasks : frames[q] = <<>> /\ arg[q].batch = {}
      /\ \A k \in Callbacks : reg[k] = Unused
      /\ ran = {}
  BY DEF Init, Nothing
<1>3. Once
  BY <1>2 DEF Once
<1>4. \A b : b \notin Dues
  BY <1>2, DuesAre DEF Holds, Stands
<1>5. Order
  BY <1>2, <1>4 DEF Order, Listed
<1>6. Seen = {} /\ Dues = {}
  BY <1>2, <1>4 DEF Seen
<1>7. Queues = [c \in Conns |-> {}]
  <2>1. \A c \in Conns : \A k : k \notin Queues[c]
    BY <1>2, QueuesAre
  <2>2. \A c \in Conns : Queues[c] = {}
    BY <2>1
  <2> QED BY <2>2, QueuesAre
<1>8. Promise!Init
  BY <1>2, <1>6, <1>7 DEF Promise!Init, Seen, Queues, Dues
<1> QED BY <1>1, <1>3, <1>5, <1>8 DEF PromiseInv

(* Where no task inherits a connection and savepoints end innermost first,   *)
(* records, savepoints and the awaits of a release are invisible: what was   *)
(* queued on a connection is discarded, or taken whole by the outermost      *)
(* commit and run in the order of registration, each callback once.          *)
THEOREM QueueIsKept == ASSUME ~Inherit, ~AnyOrder PROVE Spec => ImplementsAfterCommit
<1>1. PromiseInv /\ [Next]_vars => PromiseInv' /\ PromiseStep
  BY PromiseInvStep
<1> QED BY InitPromise, <1>1, PTL DEF Spec, ImplementsAfterCommit, Promise!Spec, Promise!vars, PromiseStep,
           Seen, Queues, Dues
===============================================================================
