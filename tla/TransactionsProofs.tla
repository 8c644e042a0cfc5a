-------------------------- MODULE TransactionsProofs --------------------------
(* Proofs about Transactions for any number of tasks, connections,           *)
(* transactions and callbacks: types, callbacks that run once, and which      *)
(* connection a task works on.                                               *)
EXTENDS TransactionsProperties, TLAPS

-----------------------------------------------------------------------------
(* Type correctness.  It is inductive together with what an await leaves in  *)
(* `arg` and `frames` for the second half of the operation.                  *)

AwaitOK == \A p \in Tasks :
    /\ pc[p] \in {"commit", "rollback"} => arg[p].tx \in Txs
    /\ pc[p] = "savepoint" => arg[p].conn \in Conns
    /\ pc[p] = "callbacks" => frames[p] # <<>>

TypeInv == TypeOK /\ AwaitOK

(* The building blocks of the session's operations keep the types.           *)
LEMMA SessionBlocks ==
    ASSUME SessionTypeOK
    PROVE  /\ \A S, f : f \in Fate /\ Settle(S, f) => fate' \in [Txs -> Fate]
           /\ \A S : Deactivate(S) => active' \in [Txs -> BOOLEAN]
           /\ \A t \in Txs : Popped(t) \in [Conns -> Txs \cup {NoTx}]
           /\ \A c : root' = [root EXCEPT ![c] = NoTx] => root' \in [Conns -> Txs \cup {NoTx}]
           /\ \A c : nested' = [nested EXCEPT ![c] = NoTx] => nested' \in [Conns -> Txs \cup {NoTx}]
<1>1. ASSUME NEW S, NEW f \in Fate, Settle(S, f) PROVE fate' \in [Txs -> Fate]
  BY <1>1 DEF SessionTypeOK, Settle
<1>2. ASSUME NEW S, Deactivate(S) PROVE active' \in [Txs -> BOOLEAN]
  BY <1>2 DEF SessionTypeOK, Deactivate
<1>3. ASSUME NEW t \in Txs PROVE Popped(t) \in [Conns -> Txs \cup {NoTx}]
  BY DEF SessionTypeOK, Popped
<1>4. ASSUME NEW c PROVE /\ [root EXCEPT ![c] = NoTx] \in [Conns -> Txs \cup {NoTx}]
                         /\ [nested EXCEPT ![c] = NoTx] \in [Conns -> Txs \cup {NoTx}]
  BY DEF SessionTypeOK
<1> QED BY <1>1, <1>2, <1>3, <1>4

(* Every operation on the database session keeps the types of its variables. *)
LEMMA SessionSteps ==
    ASSUME SessionTypeOK, NEW c \in Conns \cup {NoConn}, NEW t \in Txs
    PROVE  /\ c \in Conns /\ Connect(c) /\ BeginRoot(c, t) => SessionTypeOK'
           /\ BeginRoot(c, t) /\ UNCHANGED conn => SessionTypeOK'
           /\ Connect(c) /\ UNCHANGED <<home, root, nested, prev, active, fate>> => SessionTypeOK'
           /\ c \in Conns /\ BeginNested(c, t) => SessionTypeOK'
           /\ Drop(c, "undone") /\ UNCHANGED <<home, root, nested, prev, active>> => SessionTypeOK'
           /\ CommitOk(t) => SessionTypeOK'
           /\ CommitFails(t) => SessionTypeOK'
           /\ RollbackOk(t) => SessionTypeOK'
           /\ RollbackFails(t) => SessionTypeOK'
           /\ CloseOk(c) => SessionTypeOK'
           /\ CloseFails(c) => SessionTypeOK'
<1>a. {"undone", "merged", "durable", "open"} \subseteq Fate
  BY DEF Fate
<1>b. \A d, s : conn' = [conn EXCEPT ![d] = s] /\ s \in ConnState => conn' \in [Conns -> ConnState]
  BY DEF SessionTypeOK
<1>c. \A d, f : f \in Fate /\ Drop(d, f) => fate' \in [Txs -> Fate] /\ conn' \in [Conns -> ConnState]
  BY <1>b, SessionBlocks DEF Drop, ConnState
<1>1. c \in Conns /\ Connect(c) /\ BeginRoot(c, t) => SessionTypeOK'
  BY <1>a, <1>b DEF SessionTypeOK, ConnState, Connect, BeginRoot, Start
<1>2. BeginRoot(c, t) /\ UNCHANGED conn => SessionTypeOK'
  <2> SUFFICES ASSUME BeginRoot(c, t), UNCHANGED conn PROVE SessionTypeOK'
    OBVIOUS
  <2>1. fate' \in [Txs -> Fate]
    BY <1>a DEF SessionTypeOK, BeginRoot
  <2>2. home' \in [Txs -> Conns \cup {NoConn}] /\ active' \in [Txs -> BOOLEAN]
    BY DEF SessionTypeOK, BeginRoot, Start
  <2>3. root' \in [Conns -> Txs \cup {NoTx}]
    BY DEF SessionTypeOK, BeginRoot
  <2> QED BY <2>1, <2>2, <2>3 DEF SessionTypeOK, BeginRoot
<1>3. Connect(c) /\ UNCHANGED <<home, root, nested, prev, active, fate>> => SessionTypeOK'
  BY <1>b DEF SessionTypeOK, ConnState, Connect
<1>4. c \in Conns /\ BeginNested(c, t) => SessionTypeOK'
  BY <1>a DEF SessionTypeOK, BeginNested, Start
<1>5. Drop(c, "undone") /\ UNCHANGED <<home, root, nested, prev, active>> => SessionTypeOK'
  BY <1>a, <1>c DEF SessionTypeOK
<1>6. CommitOk(t) => SessionTypeOK'
  BY <1>a, SessionBlocks DEF SessionTypeOK, CommitOk, EndRoot
<1>7. CommitFails(t) => SessionTypeOK'
  BY <1>a, <1>c, SessionBlocks DEF SessionTypeOK, CommitFails
<1>8. RollbackOk(t) => SessionTypeOK'
  BY <1>a, SessionBlocks DEF SessionTypeOK, RollbackOk, EndRoot
<1>9. RollbackFails(t) => SessionTypeOK'
  BY <1>a, <1>c, SessionBlocks DEF SessionTypeOK, RollbackFails
<1>10. CloseOk(c) => SessionTypeOK'
  BY <1>a, <1>b, SessionBlocks DEF SessionTypeOK, ConnState, CloseOk, EndRoot
<1>11. CloseFails(c) => SessionTypeOK'
  BY <1>a, <1>c, SessionBlocks DEF SessionTypeOK, CloseFails
<1> QED BY <1>1, <1>2, <1>3, <1>4, <1>5, <1>6, <1>7, <1>8, <1>9, <1>10, <1>11

-----------------------------------------------------------------------------
RegistryTypeOK ==
    /\ recorded \subseteq Txs
    /\ up \in [Txs -> SUBSET Txs]
    /\ cbs \in [Txs -> SUBSET Callbacks]
    /\ before \subseteq Callbacks \X Callbacks

TaskTypeOK ==
    /\ ctx \in [Tasks -> Conns \cup {NoConn}]
    /\ pc \in [Tasks -> PC]
    /\ arg \in [Tasks -> Arg]
    /\ entered \in [Tasks -> SUBSET Txs]
    /\ frames \in [Tasks -> Seq(Frame)]

(* What a record's detachment collects is a set of callbacks.                *)
LEMMA CollectedType ==
    ASSUME RegistryTypeOK, NEW t
    PROVE  Collected(t) \subseteq Callbacks /\ Batch(t) \subseteq Callbacks
<1>1. Detached(t) \subseteq Txs
  BY DEF RegistryTypeOK, Detached
<1>2. Collected(t) \subseteq Callbacks
  BY <1>1 DEF RegistryTypeOK, Collected
<1> QED BY <1>2 DEF Batch

(* The operations of TransactionsManager keep the registry's types.          *)
LEMMA ManagerSteps ==
    ASSUME RegistryTypeOK
    PROVE  /\ \A c, parent : \A t \in Txs : ManagerBegin(c, t, parent) => RegistryTypeOK'
           /\ \A c, t, forget : ManagerRollback(c, t, forget) => RegistryTypeOK'
           /\ \A c, t, forget : ManagerCommit(c, t, forget) => RegistryTypeOK'
           /\ \A c : ManagerForget(c) => RegistryTypeOK'
<1>1. ASSUME NEW S \in SUBSET Txs, Keep(S)
      PROVE  recorded' \subseteq Txs /\ cbs' \in [Txs -> SUBSET Callbacks]
  BY <1>1 DEF RegistryTypeOK, Keep
<1>2. ASSUME NEW c, NEW parent, NEW t \in Txs, ManagerBegin(c, t, parent) PROVE RegistryTypeOK'
  <2>1. {t} \cup (IF parent = NoTx THEN recorded \ OnConn(c) ELSE recorded) \in SUBSET Txs
    BY DEF RegistryTypeOK
  <2>2. recorded' \subseteq Txs /\ cbs' \in [Txs -> SUBSET Callbacks]
    BY <1>1, <1>2, <2>1 DEF ManagerBegin
  <2>3. up' \in [Txs -> SUBSET Txs]
    BY <1>2 DEF ManagerBegin, RegistryTypeOK
  <2> QED BY <1>2, <2>2, <2>3 DEF ManagerBegin, RegistryTypeOK
<1>3. ASSUME NEW c, NEW t, NEW forget, ManagerRollback(c, t, forget) PROVE RegistryTypeOK'
  <2>1. recorded \ (Detached(t) \cup (IF forget THEN OnConn(c) ELSE {})) \in SUBSET Txs
    BY DEF RegistryTypeOK
  <2> QED BY <1>1, <1>3, <2>1 DEF ManagerRollback, RegistryTypeOK
<1>4. ASSUME NEW c, NEW t, NEW forget, ManagerCommit(c, t, forget) PROVE RegistryTypeOK'
  <2>1. recorded' \subseteq Txs
    BY <1>4 DEF ManagerCommit, RegistryTypeOK
  <2>2. cbs' \in [Txs -> SUBSET Callbacks]
    BY <1>4, CollectedType DEF ManagerCommit, RegistryTypeOK
  <2>3. before' \subseteq Callbacks \X Callbacks
    BY <1>4 DEF ManagerCommit, RegistryTypeOK, Joined
  <2> QED BY <1>4, <2>1, <2>2, <2>3 DEF ManagerCommit, RegistryTypeOK
<1>5. ASSUME NEW c, ManagerForget(c) PROVE RegistryTypeOK'
  BY <1>1, <1>5 DEF ManagerForget, RegistryTypeOK
<1> QED BY <1>2, <1>3, <1>4, <1>5

(* Pushing on a sequence.                                                     *)
LEMMA Pushed ==
    ASSUME NEW S, NEW x \in S, NEW s \in Seq(S)
    PROVE  /\ <<x>> \o s \in Seq(S) /\ <<x>> \o s # <<>>
           /\ DOMAIN (<<x>> \o s) = 1 .. Len(s) + 1
           /\ \A i \in DOMAIN (<<x>> \o s) :
                (<<x>> \o s)[i] = IF i = 1 THEN x ELSE s[i - 1]
OBVIOUS

(* Suspending a task, and starting a callback loop, keep the tasks' types.   *)
LEMMA TaskSteps ==
    ASSUME TaskTypeOK, AwaitOK, NEW p \in Tasks
    PROVE  /\ \A where \in PC \ {"commit", "rollback", "savepoint", "callbacks"}, a \in Arg :
                Suspend(p, where, a) /\ UNCHANGED frames
                => pc' \in [Tasks -> PC] /\ arg' \in [Tasks -> Arg] /\ AwaitOK'
           /\ \A where \in {"commit", "rollback"}, a \in Arg :
                Suspend(p, where, a) /\ UNCHANGED frames /\ a.tx \in Txs
                => pc' \in [Tasks -> PC] /\ arg' \in [Tasks -> Arg] /\ AwaitOK'
           /\ \A a \in Arg :
                Suspend(p, "savepoint", a) /\ UNCHANGED frames /\ a.conn \in Conns
                => pc' \in [Tasks -> PC] /\ arg' \in [Tasks -> Arg] /\ AwaitOK'
           /\ \A batch \in SUBSET Callbacks : Execute(p, batch)
                => /\ pc' \in [Tasks -> PC] /\ arg' \in [Tasks -> Arg]
                   /\ frames' \in [Tasks -> Seq(Frame)] /\ AwaitOK'
           /\ Nothing \in Arg
<1>0. Nothing \in Arg
  BY DEF Nothing, Arg
<1>1. ASSUME NEW where \in PC, NEW a \in Arg, Suspend(p, where, a)
      PROVE  pc' \in [Tasks -> PC] /\ arg' \in [Tasks -> Arg]
  BY <1>1 DEF Suspend, TaskTypeOK
<1>2. ASSUME NEW where \in PC \ {"commit", "rollback", "savepoint", "callbacks"}, NEW a \in Arg,
             Suspend(p, where, a), UNCHANGED frames
      PROVE  AwaitOK'
  BY <1>2 DEF Suspend, TaskTypeOK, AwaitOK
<1>3. ASSUME NEW where \in {"commit", "rollback"}, NEW a \in Arg,
             Suspend(p, where, a), UNCHANGED frames, a.tx \in Txs
      PROVE  AwaitOK'
  BY <1>3 DEF Suspend, TaskTypeOK, AwaitOK
<1>4. ASSUME NEW a \in Arg, Suspend(p, "savepoint", a), UNCHANGED frames, a.conn \in Conns
      PROVE  AwaitOK'
  BY <1>4 DEF Suspend, TaskTypeOK, AwaitOK
<1>5. ASSUME NEW batch \in SUBSET Callbacks, Execute(p, batch)
      PROVE  /\ pc' \in [Tasks -> PC] /\ arg' \in [Tasks -> Arg]
             /\ frames' \in [Tasks -> Seq(Frame)] /\ AwaitOK'
  <2>1. CASE batch = {}
    <3>1. Suspend(p, "idle", Nothing) /\ UNCHANGED frames
      BY <1>5, <2>1 DEF Execute, Resume
    <3> QED BY <3>1, <1>0, <1>1, <1>2 DEF PC, TaskTypeOK
  <2>2. CASE batch # {}
    <3> DEFINE f == [left |-> batch, outer |-> entered[p]]
    <3>1. Suspend(p, "callbacks", Nothing) /\ frames' = [frames EXCEPT ![p] = <<f>> \o @]
      BY <1>5, <2>2 DEF Execute
    <3>2. f \in Frame
      BY DEF Frame, TaskTypeOK
    <3>3. <<f>> \o frames[p] \in Seq(Frame) /\ <<f>> \o frames[p] # <<>>
      BY <3>2, Pushed DEF TaskTypeOK
    <3>4. frames' \in [Tasks -> Seq(Frame)] /\ frames'[p] # <<>>
      BY <3>1, <3>3 DEF TaskTypeOK
    <3>5. AwaitOK'
      BY <3>1, <3>4 DEF Suspend, TaskTypeOK, AwaitOK
    <3> QED BY <3>1, <3>4, <3>5, <1>0, <1>1 DEF PC
  <2> QED BY <2>1, <2>2
<1> QED BY <1>0, <1>1, <1>2, <1>3, <1>4, <1>5 DEF PC

-----------------------------------------------------------------------------
HistoryTypeOK ==
    /\ reg \in [Callbacks -> Txs \cup {Unused, Immediate}]
    /\ ran \subseteq Callbacks
    /\ reported \subseteq Callbacks

LEMMA TypeOKParts ==
    TypeOK <=> SessionTypeOK /\ live \subseteq Tasks /\ TaskTypeOK /\ RegistryTypeOK /\ HistoryTypeOK
BY DEF TypeOK, TaskTypeOK, RegistryTypeOK, HistoryTypeOK

(* The connection and the transaction an operation works on are typed.       *)
LEMMA CurrentType ==
    ASSUME TypeInv, NEW p \in Tasks
    PROVE  /\ Current(p) \in Conns \cup {NoConn}
           /\ CurrentTx(p) \in Txs \cup {NoTx}
           /\ Given(p) \subseteq Txs
           /\ \A t \in Txs : home[t] \in Conns \cup {NoConn}
<1>1. Current(p) \in Conns \cup {NoConn}
  BY DEF Current, TypeInv, TypeOK
<1>2. CurrentTx(p) \in Txs \cup {NoTx}
  BY <1>1 DEF CurrentTx, Innermost, TypeInv, TypeOK, SessionTypeOK
<1>3. Given(p) \subseteq Txs
  BY <1>2 DEF Given, TypeInv, TypeOK
<1> QED BY <1>1, <1>2, <1>3 DEF TypeInv, TypeOK, SessionTypeOK

(* Every step of a task keeps the type invariant.                            *)
LEMMA TypeInvStep == ASSUME TypeInv, [Next]_vars PROVE TypeInv'
<1> USE TypeOKParts DEF TypeInv
<1>0. CASE UNCHANGED vars
  BY <1>0 DEF vars, session, tasks, registry, history, TypeOK, SessionTypeOK, AwaitOK
<1>1. SUFFICES ASSUME NEW p \in Tasks, Step(p) PROVE TypeInv'
  BY <1>0 DEF Next
<1>2. SessionTypeOK /\ live \subseteq Tasks /\ TaskTypeOK /\ RegistryTypeOK /\ HistoryTypeOK /\ AwaitOK
  OBVIOUS
<1>3. UNCHANGED session => SessionTypeOK'
  BY <1>2 DEF session, SessionTypeOK
<1>4. UNCHANGED registry => RegistryTypeOK'
  BY <1>2 DEF registry, RegistryTypeOK
<1>5. UNCHANGED history => HistoryTypeOK'
  BY <1>2 DEF history, HistoryTypeOK
<1>6. \A batch \in SUBSET Callbacks, c \in Conns \cup {NoConn} :
         [tx |-> NoTx, conn |-> c, batch |-> batch] \in Arg
  BY DEF Arg
<1>7. \A t \in Txs : [Nothing EXCEPT !.tx = t] \in Arg /\ [Nothing EXCEPT !.tx = t].tx = t
  BY DEF Arg, Nothing
<1>8. "idle" \in PC \ {"commit", "rollback", "savepoint", "callbacks"}
      /\ "close" \in PC \ {"commit", "rollback", "savepoint", "callbacks"}
      /\ "connect" \in PC \ {"commit", "rollback", "savepoint", "callbacks"}
  BY DEF PC
<1>9. /\ SessionTypeOK' /\ live' \subseteq Tasks /\ TaskTypeOK' /\ RegistryTypeOK'
      /\ HistoryTypeOK' /\ AwaitOK'
      => TypeInv'
  BY DEF TypeOK, TaskTypeOK, RegistryTypeOK, HistoryTypeOK
<1> HIDE DEF TypeInv
<1>10. CASE StartConnect(p)
  <2>1. pc' \in [Tasks -> PC] /\ arg' \in [Tasks -> Arg] /\ AwaitOK'
    BY <1>10, <1>2, <1>8, TaskSteps DEF StartConnect
  <2> QED BY <1>9, <1>10, <1>2, <1>3, <1>4, <1>5, <2>1 DEF StartConnect, TaskTypeOK
<1>11. CASE FinishConnect(p)
  <2> PICK c \in Conns, t \in Txs : /\ Connect(c) /\ BeginRoot(c, t)
                                   /\ ctx' = [ctx EXCEPT ![p] = c]
                                   /\ ManagerBegin(c, t, NoTx)
                                   /\ Entered(p, t)
    BY <1>11 DEF FinishConnect
  <2>1. SessionTypeOK' /\ RegistryTypeOK'
    BY <1>2, SessionSteps, ManagerSteps
  <2>2. pc' \in [Tasks -> PC] /\ arg' \in [Tasks -> Arg] /\ AwaitOK'
    BY <1>11, <1>2, <1>8, TaskSteps DEF FinishConnect, Resume
  <2>3. ctx' \in [Tasks -> Conns \cup {NoConn}] /\ entered' \in [Tasks -> SUBSET Txs]
    BY <1>2 DEF TaskTypeOK, Entered
  <2> QED BY <1>9, <1>11, <1>2, <1>5, <2>1, <2>2, <2>3 DEF FinishConnect, TaskTypeOK
<1>12. CASE BeginFails(p)
  <2> PICK c \in Conns : /\ Connect(c)
                        /\ ctx' = [ctx EXCEPT ![p] = c]
                        /\ ManagerForget(c)
                        /\ Suspend(p, "close", [Nothing EXCEPT !.conn = c])
    BY <1>12 DEF BeginFails
  <2>1. RegistryTypeOK'
    BY <1>2, ManagerSteps
  <2>2. SessionTypeOK'
    BY <1>12, <1>2 DEF BeginFails, Connect, SessionTypeOK, ConnState
  <2>3. [Nothing EXCEPT !.conn = c] \in Arg
    BY DEF Nothing, Arg
  <2>4. pc' \in [Tasks -> PC] /\ arg' \in [Tasks -> Arg] /\ AwaitOK'
    BY <1>12, <1>2, <1>8, <2>3, TaskSteps DEF BeginFails
  <2>5. ctx' \in [Tasks -> Conns \cup {NoConn}]
    BY <1>2 DEF TaskTypeOK
  <2> QED BY <1>9, <1>12, <1>2, <1>5, <2>1, <2>2, <2>4, <2>5 DEF BeginFails, TaskTypeOK
<1>13. CASE FailConnect(p)
  <2>1. pc' \in [Tasks -> PC] /\ arg' \in [Tasks -> Arg] /\ AwaitOK'
    BY <1>13, <1>2, <1>8, TaskSteps DEF FailConnect, Resume
  <2> QED BY <1>9, <1>13, <1>2, <1>3, <1>4, <1>5, <2>1 DEF FailConnect, TaskTypeOK
<1>14. CASE BeginOnConnection(p)
  <2> PICK t \in Txs : /\ BeginRoot(Current(p), t) /\ UNCHANGED conn
                      /\ ManagerBegin(Current(p), t, NoTx) /\ Entered(p, t)
    BY <1>14 DEF BeginOnConnection
  <2>1. SessionTypeOK'
    BY <1>2, SessionSteps, CurrentType
  <2>2. RegistryTypeOK'
    BY <1>2, ManagerSteps
  <2>3. entered' \in [Tasks -> SUBSET Txs]
    BY <1>2 DEF TaskTypeOK, Entered
  <2> QED BY <1>9, <1>14, <1>2, <1>5, <2>1, <2>2, <2>3
          DEF BeginOnConnection, TaskTypeOK, AwaitOK
<1>15. CASE StartSavepoint(p)
  <2> DEFINE a == [Nothing EXCEPT !.conn = Current(p), !.tx = CurrentTx(p)]
  <2>1. Current(p) \in Conns
    BY <1>15, CurrentType DEF StartSavepoint, CurrentTx
  <2>2. a \in Arg /\ a.conn = Current(p)
    BY CurrentType, <2>1 DEF Nothing, Arg
  <2>3. pc' \in [Tasks -> PC] /\ arg' \in [Tasks -> Arg] /\ AwaitOK'
    BY <1>15, <1>2, <2>1, <2>2, TaskSteps DEF StartSavepoint
  <2> QED BY <1>9, <1>15, <1>2, <1>3, <1>4, <1>5, <2>3 DEF StartSavepoint, TaskTypeOK
<1>16. CASE FinishSavepoint(p)
  <2>0. arg[p].conn \in Conns
    BY <1>16, <1>2 DEF FinishSavepoint, AwaitOK
  <2> PICK t \in Txs : /\ BeginNested(arg[p].conn, t)
                      /\ ManagerBegin(arg[p].conn, t, arg[p].tx)
                      /\ Entered(p, t)
    BY <1>16 DEF FinishSavepoint
  <2>1. SessionTypeOK' /\ RegistryTypeOK'
    BY <1>2, <2>0, SessionSteps, ManagerSteps
  <2>2. pc' \in [Tasks -> PC] /\ arg' \in [Tasks -> Arg] /\ AwaitOK'
    BY <1>16, <1>2, <1>8, TaskSteps DEF FinishSavepoint, Resume
  <2>3. entered' \in [Tasks -> SUBSET Txs]
    BY <1>2 DEF TaskTypeOK, Entered
  <2> QED BY <1>9, <1>16, <1>2, <1>5, <2>1, <2>2, <2>3 DEF FinishSavepoint, TaskTypeOK
<1>17. CASE FailSavepoint(p)
  <2>1. SessionTypeOK'
    <3>1. CASE UNCHANGED session
      BY <3>1, <1>3
    <3>2. CASE Drop(arg[p].conn, "undone") /\ UNCHANGED <<home, root, nested, prev, active>>
      BY <3>2, <1>2 DEF SessionTypeOK, Drop, Settle, ConnState, Fate
    <3> QED BY <1>17, <3>1, <3>2 DEF FailSavepoint
  <2>2. pc' \in [Tasks -> PC] /\ arg' \in [Tasks -> Arg] /\ AwaitOK'
    BY <1>17, <1>2, <1>8, TaskSteps DEF FailSavepoint, Resume
  <2> QED BY <1>9, <1>17, <1>2, <1>4, <1>5, <2>1, <2>2 DEF FailSavepoint, TaskTypeOK
<1>18. CASE Commit(p) \/ Rollback(p)
  <2> PICK t \in Given(p), how \in {"commit", "rollback"} : End(p, t, how)
    BY <1>18 DEF Commit, Rollback
  <2>1. t \in Txs
    BY CurrentType
  <2>2. UNCHANGED <<session, live, ctx, entered, frames, registry, history>>
    BY <1>18 DEF Commit, Rollback
  <2>3. pc' \in [Tasks -> PC] /\ arg' \in [Tasks -> Arg] /\ AwaitOK'
    BY <1>2, <1>7, <2>1, <2>2, TaskSteps DEF End
  <2> QED BY <1>9, <1>2, <1>3, <1>4, <1>5, <2>2, <2>3 DEF TaskTypeOK
<1>19. CASE FinishCommit(p)
  <2> DEFINE t == arg[p].tx
             c == home[t]
  <2>0. t \in Txs /\ c \in Conns \cup {NoConn}
    BY <1>19, <1>2, CurrentType DEF FinishCommit, AwaitOK
  <2>1. SessionTypeOK'
    <3>1. CommitOk(t)
      BY <1>19 DEF FinishCommit
    <3> QED BY <1>2, <2>0, <3>1, SessionSteps
  <2>2. RegistryTypeOK'
    <3>1. ManagerCommit(c, t, ~StaysIn(c))
      BY <1>19 DEF FinishCommit
    <3> QED BY <1>2, <3>1, ManagerSteps
  <2>3. /\ pc' \in [Tasks -> PC] /\ arg' \in [Tasks -> Arg]
        /\ frames' \in [Tasks -> Seq(Frame)] /\ AwaitOK'
    <3>0. Batch(t) \in SUBSET Callbacks
      BY <1>2, CollectedType
    <3>1. CASE Execute(p, Batch(t))
      BY <1>2, <3>0, <3>1, TaskSteps
    <3>2. CASE Release(p, c, Batch(t)) /\ UNCHANGED frames
      BY <1>2, <1>6, <1>8, <2>0, <3>0, <3>2, TaskSteps DEF Release, TaskTypeOK
    <3> QED BY <1>19, <3>1, <3>2 DEF FinishCommit
  <2> QED BY <1>9, <1>19, <1>2, <1>5, <2>1, <2>2, <2>3 DEF FinishCommit, TaskTypeOK
<1>20. CASE FailCommit(p)
  <2> DEFINE t == arg[p].tx
  <2>0. t \in Txs
    BY <1>20, <1>2 DEF FailCommit, AwaitOK
  <2>1. SessionTypeOK'
    <3>1. CommitFails(t)
      BY <1>20 DEF FailCommit
    <3> QED BY <1>2, <2>0, <3>1, SessionSteps
  <2>2. RegistryTypeOK' /\ HistoryTypeOK'
    <3>1. ManagerRollback(home[t], t, FALSE) /\ reported' = reported \cup Collected(t) /\ UNCHANGED <<reg, ran>>
      BY <1>20 DEF FailCommit
    <3> QED BY <1>2, <3>1, ManagerSteps, CollectedType DEF HistoryTypeOK
  <2>3. pc' \in [Tasks -> PC] /\ arg' \in [Tasks -> Arg] /\ AwaitOK'
    BY <1>20, <1>2, <1>8, TaskSteps DEF FailCommit, Resume
  <2> QED BY <1>9, <1>20, <1>2, <2>1, <2>2, <2>3 DEF FailCommit, TaskTypeOK
<1>21. CASE FinishRollback(p) \/ FailRollback(p)
  <2> DEFINE t == arg[p].tx
             c == home[t]
  <2>0. t \in Txs /\ c \in Conns \cup {NoConn}
    BY <1>21, <1>2, CurrentType DEF FinishRollback, FailRollback, AwaitOK
  <2>1. SessionTypeOK'
    <3>1. RollbackOk(t) \/ RollbackFails(t)
      BY <1>21 DEF FinishRollback, FailRollback
    <3> QED BY <1>2, <2>0, <3>1, SessionSteps
  <2>2. AfterRollback(p, t) /\ UNCHANGED <<live, ctx, entered, frames, reg, ran>>
        /\ (reported' = reported \/ reported' = reported \cup Collected(t))
    BY <1>21 DEF FinishRollback, FailRollback, history
  <2>3. RegistryTypeOK'
    <3>1. ManagerRollback(c, t, ~StaysIn(c))
      BY <2>2 DEF AfterRollback
    <3> QED BY <1>2, <3>1, ManagerSteps
  <2>4. HistoryTypeOK'
    BY <1>2, <2>2, CollectedType DEF HistoryTypeOK
  <2>5. pc' \in [Tasks -> PC] /\ arg' \in [Tasks -> Arg] /\ AwaitOK'
    <3>1. CASE Resume(p)
      BY <1>2, <1>8, <2>2, <3>1, TaskSteps DEF Resume
    <3>2. CASE Release(p, c, {})
      BY <1>2, <1>6, <1>8, <2>0, <2>2, <3>2, TaskSteps DEF Release
    <3> QED BY <2>2, <3>1, <3>2 DEF AfterRollback
  <2> QED BY <1>9, <1>2, <2>1, <2>2, <2>3, <2>4, <2>5 DEF TaskTypeOK
<1>22. CASE Exit(p)
  <2> PICK t \in entered[p] \ Outer(p) :
         /\ entered' = [entered EXCEPT ![p] = {u \in @ : u < t}]
         /\ IF active[t]
            THEN /\ InOrder(t)
                 /\ End(p, t, "commit") \/ End(p, t, "rollback")
                 /\ UNCHANGED registry
            ELSE IF InTransaction(home[t])
            THEN UNCHANGED <<pc, arg, registry>>
            ELSE ManagerForget(home[t]) /\ Release(p, home[t], {})
    BY <1>22 DEF Exit
  <2>0. t \in Txs /\ home[t] \in Conns \cup {NoConn}
    BY <1>2, CurrentType DEF TaskTypeOK
  <2>1. UNCHANGED <<session, live, ctx, frames, history>>
    BY <1>22 DEF Exit
  <2>2. entered' \in [Tasks -> SUBSET Txs]
    BY <1>2 DEF TaskTypeOK
  <2>3. /\ pc' \in [Tasks -> PC] /\ arg' \in [Tasks -> Arg] /\ AwaitOK'
        /\ RegistryTypeOK'
    <3>1. CASE (End(p, t, "commit") \/ End(p, t, "rollback")) /\ UNCHANGED registry
      BY <1>2, <1>4, <1>7, <2>0, <2>1, <3>1, TaskSteps DEF End
    <3>2. CASE UNCHANGED <<pc, arg, registry>>
      BY <1>2, <1>4, <2>1, <3>2 DEF TaskTypeOK, AwaitOK
    <3>3. CASE ManagerForget(home[t]) /\ Release(p, home[t], {})
      BY <1>2, <1>6, <1>8, <2>0, <2>1, <3>3, TaskSteps, ManagerSteps DEF Release
    <3> QED BY <3>1, <3>2, <3>3
  <2> QED BY <1>9, <1>2, <1>3, <1>5, <2>1, <2>2, <2>3 DEF TaskTypeOK
<1>23. CASE Close(p)
  <2>1. RegistryTypeOK'
    BY <1>23, <1>2, ManagerSteps DEF Close
  <2>2. pc' \in [Tasks -> PC] /\ arg' \in [Tasks -> Arg] /\ AwaitOK'
    BY <1>23, <1>2, <1>6, <1>8, CurrentType, TaskSteps DEF Close, Release
  <2> QED BY <1>9, <1>23, <1>2, <1>3, <1>5, <2>1, <2>2 DEF Close, TaskTypeOK
<1>24. CASE FinishClose(p)
  <2>1. SessionTypeOK'
    BY <1>24, <1>2 DEF FinishClose, CloseOk, SessionTypeOK, ConnState, Settle, Fate, EndRoot, Deactivate
  <2>2. arg[p].batch \in SUBSET Callbacks
    BY <1>2 DEF TaskTypeOK, Arg
  <2>3. /\ pc' \in [Tasks -> PC] /\ arg' \in [Tasks -> Arg]
        /\ frames' \in [Tasks -> Seq(Frame)] /\ AwaitOK'
    BY <1>24, <1>2, <2>2, TaskSteps DEF FinishClose
  <2> QED BY <1>9, <1>24, <1>2, <1>4, <1>5, <2>1, <2>3 DEF FinishClose, TaskTypeOK
<1>25. CASE FailClose(p)
  <2>1. SessionTypeOK'
    BY <1>25, <1>2 DEF FailClose, CloseFails, Drop, SessionTypeOK, ConnState, Settle, Fate, Deactivate
  <2>2. pc' \in [Tasks -> PC] /\ arg' \in [Tasks -> Arg] /\ AwaitOK'
    BY <1>25, <1>2, <1>8, TaskSteps DEF FailClose, Resume
  <2>3. ctx' \in [Tasks -> Conns \cup {NoConn}] /\ HistoryTypeOK'
    BY <1>25, <1>2 DEF FailClose, TaskTypeOK, HistoryTypeOK, Arg
  <2> QED BY <1>9, <1>25, <1>2, <1>4, <2>1, <2>2, <2>3 DEF FailClose, TaskTypeOK
<1>26. CASE AfterCommit(p)
  <2>1. RegistryTypeOK' /\ HistoryTypeOK'
    BY <1>26, <1>2 DEF AfterCommit, Queue, RunAtOnce, RegistryTypeOK, HistoryTypeOK
  <2> QED BY <1>9, <1>26, <1>2, <1>3, <2>1 DEF AfterCommit, tasks, TaskTypeOK, AwaitOK
<1>27. CASE Invoke(p)
  <2>0. frames[p] \in Seq(Frame) /\ frames[p] # <<>>
    BY <1>27, <1>2 DEF Invoke, AwaitOK, TaskTypeOK
  <2>1. Head(frames[p]) \in Frame /\ Tail(frames[p]) \in Seq(Frame)
    BY <2>0
  <2> PICK k \in First(Head(frames[p]).left) :
         /\ ran' = ran \cup {k}
         /\ frames' = [frames EXCEPT ![p] = <<Without(Head(@), k)>> \o Tail(@)]
    BY <1>27 DEF Invoke
  <2>2. k \in Callbacks
    BY <2>1 DEF First, Frame
  <2> DEFINE top == Without(Head(frames[p]), k)
             rest == Tail(frames[p])
  <2>3. top \in Frame /\ rest \in Seq(Frame)
    BY <2>1 DEF Frame, Without
  <2>4. <<top>> \o rest \in Seq(Frame) /\ <<top>> \o rest # <<>>
    BY <2>3, Pushed
  <2>5. frames' \in [Tasks -> Seq(Frame)] /\ \A q \in Tasks : frames[q] # <<>> => frames'[q] # <<>>
    BY <1>2, <2>4 DEF TaskTypeOK
  <2>6. pc' \in [Tasks -> PC] /\ arg' \in [Tasks -> Arg]
    BY <1>27, <1>2 DEF Invoke, Suspend, TaskTypeOK, PC, Nothing, Arg
  <2>7. AwaitOK'
    BY <1>27, <1>2, <2>5 DEF Invoke, Suspend, TaskTypeOK, AwaitOK
  <2>8. HistoryTypeOK'
    BY <1>27, <1>2, <2>2 DEF Invoke, HistoryTypeOK
  <2> QED BY <1>9, <1>27, <1>2, <1>3, <1>4, <2>5, <2>6, <2>7, <2>8 DEF Invoke, TaskTypeOK
<1>28. CASE CallbackReturns(p) \/ CallbackRaises(p)
  <2>0. frames[p] \in Seq(Frame) /\ frames[p] # <<>>
    BY <1>28, <1>2 DEF CallbackReturns, CallbackRaises, InCallback, TaskTypeOK
  <2>a. Head(frames[p]) \in Frame /\ Tail(frames[p]) \in Seq(Frame)
    BY <2>0
  <2>1. Head(frames[p]) \in Frame /\ Tail(frames[p]) \in Seq(Frame) /\ Outer(p) \in SUBSET Txs
    BY <2>0, <2>a DEF Outer, Frame
  <2>2. /\ UNCHANGED <<session, live, ctx, registry, reg, ran>>
        /\ entered' = [entered EXCEPT ![p] = Outer(p)]
        /\ pc[p] = "idle"
        /\ \/ frames' = [frames EXCEPT ![p] = Tail(@)] /\ UNCHANGED <<pc, arg>>
           \/ Suspend(p, "callbacks", Nothing) /\ UNCHANGED frames
        /\ reported' = reported \/ reported' = reported \cup Head(frames[p]).left
    BY <1>28 DEF CallbackReturns, CallbackRaises, InCallback, Idle, history
  <2>3. entered' \in [Tasks -> SUBSET Txs] /\ HistoryTypeOK'
    BY <1>2, <2>1, <2>2 DEF TaskTypeOK, HistoryTypeOK, Frame
  <2>4. /\ pc' \in [Tasks -> PC] /\ arg' \in [Tasks -> Arg]
        /\ frames' \in [Tasks -> Seq(Frame)] /\ AwaitOK'
    <3>1. CASE frames' = [frames EXCEPT ![p] = Tail(@)] /\ UNCHANGED <<pc, arg>>
      BY <1>2, <2>1, <2>2, <3>1 DEF TaskTypeOK, AwaitOK
    <3>2. CASE Suspend(p, "callbacks", Nothing) /\ UNCHANGED frames
      BY <1>2, <2>0, <3>2 DEF Suspend, TaskTypeOK, AwaitOK, PC, Nothing, Arg
    <3> QED BY <2>2, <3>1, <3>2
  <2> QED BY <1>9, <1>2, <1>3, <1>4, <2>2, <2>3, <2>4 DEF TaskTypeOK
<1>29. CASE Spawn(p)
  <2> PICK q \in Tasks \ live, c \in {ctx[p], NoConn} :
         live' = live \cup {q} /\ ctx' = [ctx EXCEPT ![q] = c]
    BY <1>29 DEF Spawn
  <2>1. ctx' \in [Tasks -> Conns \cup {NoConn}] /\ live' \subseteq Tasks
    BY <1>2 DEF TaskTypeOK
  <2> QED BY <1>9, <1>29, <1>2, <1>3, <1>4, <1>5, <2>1 DEF Spawn, TaskTypeOK, AwaitOK
<1> QED BY <1>1, <1>10, <1>11, <1>12, <1>13, <1>14, <1>15, <1>16, <1>17, <1>18, <1>19, <1>20,
           <1>21, <1>22, <1>23, <1>24, <1>25, <1>26, <1>27, <1>28, <1>29
        DEF Step, Begin, Continue, EndCallback

(* The type invariant holds initially.                                       *)
LEMMA InitTypeInv == Init => TypeInv
<1> SUFFICES ASSUME Init PROVE TypeInv
  OBVIOUS
<1>1. SessionTypeOK
  BY DEF Init, SessionInit, SessionTypeOK, ConnState, Fate
<1>2. TaskTypeOK /\ AwaitOK
  BY DEF Init, TaskTypeOK, AwaitOK, PC, Arg, Nothing
<1>3. RegistryTypeOK /\ HistoryTypeOK
  BY DEF Init, RegistryTypeOK, HistoryTypeOK
<1> QED BY <1>1, <1>2, <1>3, TransactionsAssumption, TypeOKParts DEF Init, TypeInv

(* Type correctness of every reachable state, for any constants.             *)
THEOREM TypeCorrect == Spec => []TypeOK
<1>1. Init => TypeInv
  BY InitTypeInv
<1>2. TypeInv /\ [Next]_vars => TypeInv'
  BY TypeInvStep
<1>3. TypeInv => TypeOK
  BY DEF TypeInv
<1> QED BY <1>1, <1>2, <1>3, PTL DEF Spec

-----------------------------------------------------------------------------
(* No callback runs twice.  Once says, callback by callback, that it is in   *)
(* one place at most, and in none before it is registered.                   *)

Once ==
    /\ \A k \in Callbacks, t, u \in Txs : k \in cbs[t] /\ k \in cbs[u] => t = u
    /\ \A k \in Callbacks, p, q \in Tasks : k \in arg[p].batch /\ k \in arg[q].batch => p = q
    /\ \A k \in Callbacks, p, q \in Tasks : \A i \in DOMAIN frames[p], j \in DOMAIN frames[q] :
        k \in frames[p][i].left /\ k \in frames[q][j].left => p = q /\ i = j
    /\ \A k \in Callbacks, t \in Txs, p \in Tasks : k \in cbs[t] => k \notin arg[p].batch
    /\ \A k \in Callbacks, t \in Txs, p \in Tasks : \A i \in DOMAIN frames[p] :
        k \in cbs[t] => k \notin frames[p][i].left
    /\ \A k \in Callbacks, p, q \in Tasks : \A i \in DOMAIN frames[q] :
        k \in arg[p].batch => k \notin frames[q][i].left
    /\ \A k \in Callbacks : k \in ran \/ reg[k] = Unused =>
        /\ \A t \in Txs : k \notin cbs[t]
        /\ \A p \in Tasks : k \notin arg[p].batch
        /\ \A p \in Tasks : \A i \in DOMAIN frames[p] : k \notin frames[p][i].left
    /\ \A k \in Callbacks : k \in ran => reg[k] # Unused

(* Nothing moves: records, batches and loops keep some of what they have.    *)
Shrinks ==
    /\ \A t \in Txs : cbs'[t] \subseteq cbs[t]
    /\ \A p \in Tasks : arg'[p].batch \subseteq arg[p].batch
    /\ \A p \in Tasks : \E d \in Nat : \A i \in DOMAIN frames'[p] :
        i + d \in DOMAIN frames[p] /\ frames'[p][i].left = frames[p][i + d].left
    /\ ran' = ran
    /\ \A k \in Callbacks : reg'[k] = Unused => reg[k] = Unused

LEMMA OnceShrinks == ASSUME TypeInv, TypeInv', Once, Shrinks PROVE Once'
<1>1. \A p \in Tasks : DOMAIN frames'[p] \subseteq Nat /\ DOMAIN frames[p] \subseteq Nat
  BY DEF TypeInv, TypeOK
<1>2. PICK d \in [Tasks -> Nat] : \A p \in Tasks : \A i \in DOMAIN frames'[p] :
         i + d[p] \in DOMAIN frames[p] /\ frames'[p][i].left = frames[p][i + d[p]].left
  <2> DEFINE P(p, n) == \A i \in DOMAIN frames'[p] :
               i + n \in DOMAIN frames[p] /\ frames'[p][i].left = frames[p][i + n].left
  <2>1. \A p \in Tasks : \E n \in Nat : P(p, n)
    BY DEF Shrinks
  <2> HIDE DEF P
  <2>2. [p \in Tasks |-> CHOOSE n \in Nat : P(p, n)] \in [Tasks -> Nat]
    BY <2>1
  <2>3. \A p \in Tasks : P(p, [q \in Tasks |-> CHOOSE n \in Nat : P(q, n)][p])
    BY <2>1
  <2> QED BY <2>2, <2>3 DEF P
<1>3. \A k \in Callbacks, p, q \in Tasks : \A i \in DOMAIN frames'[p], j \in DOMAIN frames'[q] :
        k \in frames'[p][i].left /\ k \in frames'[q][j].left => p = q /\ i = j
  BY <1>1, <1>2 DEF Once
<1>4. \A k \in Callbacks, p \in Tasks : \A i \in DOMAIN frames'[p] :
        k \in frames'[p][i].left => \E j \in DOMAIN frames[p] : k \in frames[p][j].left
  BY <1>2
<1>5. \A k \in Callbacks, t, u \in Txs : k \in cbs'[t] /\ k \in cbs'[u] => t = u
  BY DEF Once, Shrinks
<1>6. \A k \in Callbacks, p, q \in Tasks : k \in arg'[p].batch /\ k \in arg'[q].batch => p = q
  BY DEF Once, Shrinks
<1>7. \A k \in Callbacks, t \in Txs, p \in Tasks : k \in cbs'[t] => k \notin arg'[p].batch
  BY DEF Once, Shrinks
<1>8. \A k \in Callbacks, t \in Txs, p \in Tasks : \A i \in DOMAIN frames'[p] :
        k \in cbs'[t] => k \notin frames'[p][i].left
  BY <1>4 DEF Once, Shrinks
<1>9. \A k \in Callbacks, p, q \in Tasks : \A i \in DOMAIN frames'[q] :
        k \in arg'[p].batch => k \notin frames'[q][i].left
  BY <1>4 DEF Once, Shrinks
<1>10. \A k \in Callbacks : k \in ran' \/ reg'[k] = Unused =>
        /\ \A t \in Txs : k \notin cbs'[t]
        /\ \A p \in Tasks : k \notin arg'[p].batch
        /\ \A p \in Tasks : \A i \in DOMAIN frames'[p] : k \notin frames'[p][i].left
  BY <1>4 DEF Once, Shrinks
<1>11. \A k \in Callbacks : k \in ran' => reg'[k] # Unused
  BY DEF Once, Shrinks
<1> QED BY <1>3, <1>5, <1>6, <1>7, <1>8, <1>9, <1>10, <1>11 DEF Once

(* A set M of callbacks has left the place it was in.                        *)
Leaves(M) ==
    /\ \A t \in Txs : cbs'[t] \subseteq cbs[t] \ M
    /\ \A k \in M : k \notin ran /\ reg[k] # Unused
    /\ \A k \in M, p \in Tasks : \A i \in DOMAIN frames[p] : k \notin frames[p][i].left
    /\ ran' = ran /\ reg' = reg

LEMMA OnceBatch ==
    ASSUME TypeInv, TypeInv', Once, NEW p \in Tasks, NEW M \in SUBSET Callbacks, Leaves(M),
           \A q \in Tasks : arg'[q].batch = IF q = p THEN M ELSE arg[q].batch,
           \A q \in Tasks : arg[q].batch \cap M = {},
           frames' = frames
    PROVE  Once'
<1>1. \A k \in Callbacks, t, u \in Txs : k \in cbs'[t] /\ k \in cbs'[u] => t = u
  BY DEF Once, Leaves
<1>2. \A k \in Callbacks, q, r \in Tasks : k \in arg'[q].batch /\ k \in arg'[r].batch => q = r
  BY DEF Once
<1>3. \A k \in Callbacks, t \in Txs, q \in Tasks : k \in cbs'[t] => k \notin arg'[q].batch
  BY DEF Once, Leaves
<1>4. \A k \in Callbacks, t \in Txs, q \in Tasks : \A i \in DOMAIN frames'[q] :
        k \in cbs'[t] => k \notin frames'[q][i].left
  BY DEF Once, Leaves
<1>5. \A k \in Callbacks, q, r \in Tasks : \A i \in DOMAIN frames'[r] :
        k \in arg'[q].batch => k \notin frames'[r][i].left
  BY DEF Once, Leaves
<1>6. \A k \in Callbacks : k \in ran' \/ reg'[k] = Unused =>
        /\ \A t \in Txs : k \notin cbs'[t]
        /\ \A q \in Tasks : k \notin arg'[q].batch
        /\ \A q \in Tasks : \A i \in DOMAIN frames'[q] : k \notin frames'[q][i].left
  BY DEF Once, Leaves
<1>7. \A k \in Callbacks : k \in ran' => reg'[k] # Unused
  BY DEF Once, Leaves
<1> QED BY <1>1, <1>2, <1>3, <1>4, <1>5, <1>6, <1>7 DEF Once

LEMMA OncePush ==
    ASSUME TypeInv, TypeInv', Once, NEW p \in Tasks, NEW M \in SUBSET Callbacks, NEW O, Leaves(M),
           \A q \in Tasks : arg'[q].batch \subseteq arg[q].batch \ M,
           frames' = [frames EXCEPT ![p] = <<[left |-> M, outer |-> O]>> \o @]
    PROVE  Once'
<1> DEFINE top == [left |-> M, outer |-> O]
<1>0. \A q \in Tasks : frames[q] \in Seq(Frame)
  BY DEF TypeInv, TypeOK
<1>1. \A q \in Tasks \ {p} : frames'[q] = frames[q]
  BY <1>0 DEF TypeInv, TypeOK
<1>2. /\ DOMAIN frames'[p] = 1 .. Len(frames[p]) + 1
      /\ \A i \in DOMAIN frames'[p] : frames'[p][i] = IF i = 1 THEN top ELSE frames[p][i - 1]
  <2>1. frames'[p] = <<top>> \o frames[p]
    BY DEF TypeInv, TypeOK
  <2>2. frames[p] \in Seq(Frame \cup {top}) /\ top \in Frame \cup {top}
    BY <1>0
  <2> HIDE DEF top
  <2> QED BY <2>1, <2>2, Pushed
<1>3. DOMAIN frames[p] = 1 .. Len(frames[p]) /\ Len(frames[p]) \in Nat
  BY <1>0
<1>4. \A k \in Callbacks, q \in Tasks : \A i \in DOMAIN frames'[q] : k \in frames'[q][i].left =>
        \/ q = p /\ i = 1 /\ k \in M
        \/ q = p /\ i # 1 /\ i - 1 \in DOMAIN frames[p] /\ k \in frames[p][i - 1].left
        \/ q # p /\ i \in DOMAIN frames[q] /\ k \in frames[q][i].left
  BY <1>1, <1>2, <1>3
<1>5. \A k \in Callbacks, q \in Tasks : \A i \in DOMAIN frames'[q] : k \in frames'[q][i].left =>
        k \in M \/ \E j \in DOMAIN frames[q] : k \in frames[q][j].left
  BY <1>4
<1>6. \A k \in Callbacks, q, r \in Tasks : \A i \in DOMAIN frames'[q], j \in DOMAIN frames'[r] :
        k \in frames'[q][i].left /\ k \in frames'[r][j].left => q = r /\ i = j
  <2> SUFFICES ASSUME NEW k \in Callbacks, NEW q \in Tasks, NEW r \in Tasks,
                      NEW i \in DOMAIN frames'[q], NEW j \in DOMAIN frames'[r],
                      k \in frames'[q][i].left, k \in frames'[r][j].left
               PROVE  q = r /\ i = j
    OBVIOUS
  <2>0. (q = p => i \in Int) /\ (r = p => j \in Int)
    BY <1>2, <1>3
  <2>1. CASE k \in M
    BY <1>4, <2>1 DEF Leaves
  <2>2. CASE k \notin M
    BY <1>4, <2>0, <2>2 DEF Once
  <2> QED BY <2>1, <2>2
<1>7. \A k \in Callbacks, t, u \in Txs : k \in cbs'[t] /\ k \in cbs'[u] => t = u
  BY DEF Once, Leaves
<1>8. \A k \in Callbacks, q, r \in Tasks : k \in arg'[q].batch /\ k \in arg'[r].batch => q = r
  BY DEF Once
<1>9. \A k \in Callbacks, t \in Txs, q \in Tasks : k \in cbs'[t] => k \notin arg'[q].batch
  BY DEF Once, Leaves
<1>10. \A k \in Callbacks, t \in Txs, q \in Tasks : \A i \in DOMAIN frames'[q] :
        k \in cbs'[t] => k \notin frames'[q][i].left
  BY <1>5 DEF Once, Leaves
<1>11. \A k \in Callbacks, q, r \in Tasks : \A i \in DOMAIN frames'[r] :
        k \in arg'[q].batch => k \notin frames'[r][i].left
  BY <1>5 DEF Once, Leaves
<1>12. \A k \in Callbacks : k \in ran' \/ reg'[k] = Unused =>
        /\ \A t \in Txs : k \notin cbs'[t]
        /\ \A q \in Tasks : k \notin arg'[q].batch
        /\ \A q \in Tasks : \A i \in DOMAIN frames'[q] : k \notin frames'[q][i].left
  BY <1>5 DEF Once, Leaves
<1>13. \A k \in Callbacks : k \in ran' => reg'[k] # Unused
  BY DEF Once, Leaves
<1> QED BY <1>6, <1>7, <1>8, <1>9, <1>10, <1>11, <1>12, <1>13 DEF Once

(* A collected callback was on one detached record, and is on no other.      *)
LEMMA CollectedFrom ==
    ASSUME TypeInv, NEW t
    PROVE  \A k \in Collected(t) : \E u \in Txs : u \in Detached(t) /\ k \in cbs[u]
BY DEF Collected, Detached, TypeInv, TypeOK

(* commit() of a nested record moves its callbacks to the parent's list.     *)
LEMMA OnceMerge ==
    ASSUME TypeInv, TypeInv', Once, NEW t \in Txs, NEW h,
           \A u \in Txs : cbs'[u] \subseteq cbs[u] \cup (IF u = h THEN Collected(t) ELSE {}),
           \A u \in Detached(t) : cbs'[u] = {},
           \A p \in Tasks : arg'[p].batch = {} \/ arg'[p].batch = arg[p].batch,
           frames' = frames, ran' = ran, reg' = reg
    PROVE  Once'
<1>1. \A k \in Callbacks, u \in Txs : k \in cbs'[u] =>
        k \in cbs[u] \/ (u = h /\ \E w \in Txs : w \in Detached(t) /\ k \in cbs[w])
  BY CollectedFrom
<1>2. \A k \in Callbacks, u \in Txs : k \in cbs'[u] => \E w \in Txs : k \in cbs[w]
  BY <1>1
<1>3. \A k \in Callbacks, u, v \in Txs : k \in cbs'[u] /\ k \in cbs'[v] => u = v
  BY <1>1 DEF Once
<1>4. \A k \in Callbacks, p, q \in Tasks : k \in arg'[p].batch /\ k \in arg'[q].batch => p = q
  BY DEF Once
<1>5. \A k \in Callbacks, u \in Txs, p \in Tasks : k \in cbs'[u] => k \notin arg'[p].batch
  BY <1>2 DEF Once
<1>6. \A k \in Callbacks, u \in Txs, p \in Tasks : \A i \in DOMAIN frames'[p] :
        k \in cbs'[u] => k \notin frames'[p][i].left
  BY <1>2 DEF Once
<1>7. \A k \in Callbacks, p, q \in Tasks : \A i \in DOMAIN frames'[q] :
        k \in arg'[p].batch => k \notin frames'[q][i].left
  BY DEF Once
<1>8. \A k \in Callbacks : k \in ran' \/ reg'[k] = Unused =>
        /\ \A u \in Txs : k \notin cbs'[u]
        /\ \A p \in Tasks : k \notin arg'[p].batch
        /\ \A p \in Tasks : \A i \in DOMAIN frames'[p] : k \notin frames'[p][i].left
  BY <1>2 DEF Once
<1>9. \A k \in Callbacks : k \in ran' => reg'[k] # Unused
  BY DEF Once
<1> QED BY <1>3, <1>4, <1>5, <1>6, <1>7, <1>8, <1>9 DEF Once

(* The operations that only drop callbacks from records and suspend a task.  *)
LEMMA SmallSteps ==
    ASSUME TypeInv, NEW p \in Tasks
    PROVE  /\ UNCHANGED frames => \A q \in Tasks : \E d \in Nat : \A i \in DOMAIN frames'[q] :
                i + d \in DOMAIN frames[q] /\ frames'[q][i].left = frames[q][i + d].left
           /\ \A S : Keep(S) => \A t \in Txs : cbs'[t] \subseteq cbs[t]
           /\ \A c, t, parent : ManagerBegin(c, t, parent) => \A u \in Txs : cbs'[u] \subseteq cbs[u]
           /\ \A c, t, forget : ManagerRollback(c, t, forget) => \A u \in Txs : cbs'[u] \subseteq cbs[u]
           /\ \A c : ManagerForget(c) => \A u \in Txs : cbs'[u] \subseteq cbs[u]
           /\ \A where, a : Suspend(p, where, a) =>
                \A q \in Tasks : arg'[q].batch = IF q = p THEN a.batch ELSE arg[q].batch
<1>1. UNCHANGED frames => \A q \in Tasks : \E d \in Nat : \A i \in DOMAIN frames'[q] :
         i + d \in DOMAIN frames[q] /\ frames'[q][i].left = frames[q][i + d].left
  <2>1. \A q \in Tasks : DOMAIN frames[q] \subseteq Nat
    BY DEF TypeInv, TypeOK
  <2>2. \A q \in Tasks : \A i \in DOMAIN frames[q] : i + 0 = i
    BY <2>1
  <2>3. 0 \in Nat
    OBVIOUS
  <2> QED BY <2>2, <2>3
<1>2. ASSUME NEW S, Keep(S) PROVE \A t \in Txs : cbs'[t] \subseteq cbs[t]
  BY <1>2 DEF Keep
<1>3. ASSUME NEW where, NEW a, Suspend(p, where, a)
      PROVE  \A q \in Tasks : arg'[q].batch = IF q = p THEN a.batch ELSE arg[q].batch
  BY <1>3 DEF Suspend, TypeInv, TypeOK
<1> QED BY <1>1, <1>2, <1>3 DEF ManagerBegin, ManagerRollback, ManagerForget

LEMMA OnceStep == ASSUME TypeInv, TypeInv', Once, [Next]_vars PROVE Once'
<1> DEFINE Same == \A q \in Tasks : \E d \in Nat : \A i \in DOMAIN frames'[q] :
               i + d \in DOMAIN frames[q] /\ frames'[q][i].left = frames[q][i + d].left
           Fewer == \A t \in Txs : cbs'[t] \subseteq cbs[t]
           Batches1 == \A q \in Tasks : arg'[q].batch \subseteq arg[q].batch
<1>1. UNCHANGED frames => Same
  BY SmallSteps DEF TypeInv, TypeOK
<1>2. UNCHANGED cbs => Fewer
  OBVIOUS
<1>3. UNCHANGED arg => Batches1
  OBVIOUS
<1>4. Same /\ Fewer /\ Batches1 /\ UNCHANGED <<ran, reg>> => Once'
  BY OnceShrinks DEF Shrinks
<1>5. ASSUME NEW p \in Tasks, NEW where, NEW a, Suspend(p, where, a), a.batch = {} PROVE Batches1
  BY <1>5, SmallSteps
<1>6. Nothing.batch = {} /\ (\A t : [Nothing EXCEPT !.tx = t].batch = {})
      /\ (\A c : [Nothing EXCEPT !.conn = c].batch = {})
      /\ (\A c, t : [Nothing EXCEPT !.conn = c, !.tx = t].batch = {})
  BY DEF Nothing
<1> HIDE DEF Same, Fewer, Batches1
<1>7. CASE UNCHANGED vars
  BY <1>1, <1>2, <1>3, <1>4, <1>7 DEF vars, session, tasks, registry, history
<1>8. SUFFICES ASSUME NEW p \in Tasks, Step(p) PROVE Once'
  BY <1>7 DEF Next
<1>9. Resume(p) => Batches1
  BY <1>5, <1>6 DEF Resume
<1>10. \A c : Release(p, c, {}) => Batches1
  BY <1>5 DEF Release
<1>11. \A t, how : End(p, t, how) => Batches1
  BY <1>5, <1>6 DEF End
<1>12. \A S : Keep(S) => Fewer
  BY SmallSteps DEF Fewer
<1>13. CASE StartConnect(p) \/ FailConnect(p) \/ StartSavepoint(p) \/ FailSavepoint(p)
  <2>1. Batches1
    BY <1>5, <1>6, <1>9, <1>13 DEF StartConnect, FailConnect, StartSavepoint, FailSavepoint
  <2> QED BY <1>1, <1>2, <1>4, <1>13, <2>1
          DEF StartConnect, FailConnect, StartSavepoint, FailSavepoint, registry, history
<1>14. CASE FinishConnect(p) \/ FinishSavepoint(p) \/ BeginOnConnection(p)
  <2>1. Fewer
    BY <1>12, <1>14 DEF FinishConnect, FinishSavepoint, BeginOnConnection, ManagerBegin
  <2>2. Batches1
    BY <1>3, <1>9, <1>14 DEF FinishConnect, FinishSavepoint, BeginOnConnection
  <2> QED BY <1>1, <1>4, <1>14, <2>1, <2>2
          DEF FinishConnect, FinishSavepoint, BeginOnConnection, history
<1>15. CASE BeginFails(p)
  <2>1. Fewer
    BY <1>12, <1>15 DEF BeginFails, ManagerForget
  <2>2. Batches1
    BY <1>5, <1>6, <1>15 DEF BeginFails
  <2> QED BY <1>1, <1>4, <1>15, <2>1, <2>2 DEF BeginFails, history
<1>16. CASE Commit(p) \/ Rollback(p)
  <2>1. Batches1
    BY <1>11, <1>16 DEF Commit, Rollback
  <2> QED BY <1>1, <1>2, <1>4, <1>16, <2>1 DEF Commit, Rollback, registry, history
<1>17. CASE FinishCommit(p)
  <2> DEFINE t == arg[p].tx
             c == home[t]
  <2>0. t \in Txs
    BY <1>17 DEF FinishCommit, TypeInv, AwaitOK
  <2>1. ManagerCommit(c, t, ~StaysIn(c)) /\ UNCHANGED <<ran, reg>>
    BY <1>17 DEF FinishCommit, history
  <2>2. Execute(p, Batch(t)) \/ (Release(p, c, Batch(t)) /\ UNCHANGED frames)
    BY <1>17 DEF FinishCommit
  <2>3. \A u \in Detached(t) : u \in Txs /\ cbs'[u] = {}
    BY <2>1 DEF ManagerCommit, Detached, TypeInv, TypeOK
  <2>4. \A u \in Txs : cbs'[u] \subseteq cbs[u] \cup (IF u = Heir(t) THEN Collected(t) ELSE {})
    BY <2>1 DEF ManagerCommit
  <2>5. CASE Batch(t) = {}
    <3>1. (Resume(p) /\ UNCHANGED frames) \/ (Release(p, c, {}) /\ UNCHANGED frames)
      BY <2>2, <2>5 DEF Execute
    <3>2. \A q \in Tasks : arg'[q].batch = {} \/ arg'[q].batch = arg[q].batch
      BY <3>1, <1>6, SmallSteps DEF Resume, Release
    <3> QED BY <2>0, <2>1, <2>3, <2>4, <3>1, <3>2, OnceMerge
  <2>6. CASE Batch(t) # {}
    <3>1. Heir(t) = NoTx /\ Batch(t) = Collected(t)
      BY <2>6 DEF Batch
    <3>2. Batch(t) \in SUBSET Callbacks
      BY <3>1, CollectedType, TypeOKParts DEF TypeInv
    <3>3. \A u \in Txs : cbs'[u] \subseteq cbs[u]
      BY <2>4, <3>1, TransactionsAssumption, SessionAssumption DEF NoTx
    <3>4. \A k \in Batch(t) : \E u \in Txs : u \in Detached(t) /\ k \in cbs[u]
      BY <3>1, CollectedFrom
    <3>5. \A u \in Txs : cbs'[u] \cap Batch(t) = {}
      BY <2>3, <3>2, <3>3, <3>4 DEF Once
    <3>6. Leaves(Batch(t))
      BY <2>1, <3>2, <3>3, <3>4, <3>5 DEF Leaves, Once
    <3>7. \A q \in Tasks : arg[q].batch \cap Batch(t) = {}
      BY <3>2, <3>4 DEF Once
    <3>8. CASE Execute(p, Batch(t))
      <4>1. /\ Suspend(p, "callbacks", Nothing)
            /\ frames' = [frames EXCEPT ![p] = <<[left |-> Batch(t), outer |-> entered[p]]>> \o @]
        BY <2>6, <3>8 DEF Execute
      <4>2. \A q \in Tasks : arg'[q].batch \subseteq arg[q].batch \ Batch(t)
        BY <4>1, <1>6, <3>7, SmallSteps
      <4> QED BY <3>2, <3>6, <4>1, <4>2, OncePush
    <3>9. CASE Release(p, c, Batch(t)) /\ UNCHANGED frames
      <4>1. \A q \in Tasks : arg'[q].batch = IF q = p THEN Batch(t) ELSE arg[q].batch
        BY <3>9, SmallSteps DEF Release
      <4> QED BY <3>2, <3>6, <3>7, <3>9, <4>1, OnceBatch
    <3> QED BY <2>2, <3>8, <3>9
  <2> QED BY <2>5, <2>6
<1>18. CASE FailCommit(p)
  <2>1. Fewer /\ Batches1
    BY <1>9, <1>12, <1>18 DEF FailCommit, ManagerRollback
  <2> QED BY <1>1, <1>4, <1>18, <2>1 DEF FailCommit
<1>19. CASE FinishRollback(p) \/ FailRollback(p)
  <2>1. Fewer /\ Batches1
    BY <1>9, <1>10, <1>12, <1>19 DEF FinishRollback, FailRollback, AfterRollback, ManagerRollback
  <2> QED BY <1>1, <1>4, <1>19, <2>1 DEF FinishRollback, FailRollback, history
<1>20. CASE Exit(p)
  <2>1. Fewer /\ Batches1
    BY <1>2, <1>3, <1>10, <1>11, <1>12, <1>20 DEF Exit, ManagerForget, registry
  <2> QED BY <1>1, <1>4, <1>20, <2>1 DEF Exit, history
<1>21. CASE Close(p)
  <2>1. Fewer /\ Batches1
    BY <1>10, <1>12, <1>21 DEF Close, ManagerForget
  <2> QED BY <1>1, <1>4, <1>21, <2>1 DEF Close, history
<1>22. CASE FinishClose(p)
  <2> DEFINE M == arg[p].batch
  <2>0. M \in SUBSET Callbacks
    BY DEF TypeInv, TypeOK, Arg
  <2>1. Execute(p, M) /\ UNCHANGED <<cbs, ran, reg>>
    BY <1>22 DEF FinishClose, registry, history
  <2>2. CASE M = {}
    BY <1>1, <1>2, <1>4, <1>9, <2>1, <2>2 DEF Execute
  <2>3. CASE M # {}
    <3>1. /\ Suspend(p, "callbacks", Nothing)
          /\ frames' = [frames EXCEPT ![p] = <<[left |-> M, outer |-> entered[p]]>> \o @]
      BY <2>1, <2>3 DEF Execute
    <3>2. Leaves(M)
      BY <2>0, <2>1 DEF Leaves, Once
    <3>3. \A q \in Tasks : arg'[q].batch \subseteq arg[q].batch \ M
      <4>1. \A q \in Tasks : arg'[q].batch = IF q = p THEN {} ELSE arg[q].batch
        <5>1. Nothing.batch = {} /\ Suspend(p, "callbacks", Nothing)
          BY <1>6, <3>1
        <5> QED BY <5>1, SmallSteps
      <4>2. \A q \in Tasks : \A k \in M : k \in arg[q].batch => q = p
        BY <2>0 DEF Once
      <4> HIDE DEF M
      <4> QED BY <4>1, <4>2
    <3> QED BY <2>0, <3>1, <3>2, <3>3, OncePush
  <2> QED BY <2>2, <2>3
<1>23. CASE FailClose(p)
  BY <1>1, <1>2, <1>4, <1>9, <1>23 DEF FailClose, registry
<1>24. CASE AfterCommit(p)
  <2> PICK k \in Callbacks :
         /\ \A j \in Callbacks : reg[j] = Unused <=> j >= k
         /\ IF CurrentTx(p) \in recorded THEN Queue(k, CurrentTx(p)) ELSE RunAtOnce(k)
    BY <1>24 DEF AfterCommit
  <2>1. UNCHANGED <<arg, frames, ran>>
    BY <1>24 DEF AfterCommit, tasks
  <2>2. reg[k] = Unused
    BY TransactionsAssumption
  <2>3. CASE RunAtOnce(k)
    <3>1. \A j \in Callbacks : reg'[j] = Unused => reg[j] = Unused
      BY <2>3 DEF RunAtOnce, TypeInv, TypeOK, Unused, Immediate
    <3> QED BY <1>1, <1>2, <1>3, <2>1, <2>3, <3>1, OnceShrinks
            DEF RunAtOnce, Shrinks, Same, Fewer, Batches1
  <2>4. CASE CurrentTx(p) \in recorded /\ Queue(k, CurrentTx(p))
    <3> DEFINE t == CurrentTx(p)
    <3>0. t \in Txs
      BY <2>4 DEF TypeInv, TypeOK
    <3>1. \A u \in Txs : cbs'[u] = IF u = t THEN cbs[u] \cup {k} ELSE cbs[u]
      BY <2>4, <3>0 DEF Queue, TypeInv, TypeOK
    <3>2. \A j \in Callbacks : reg'[j] = IF j = k THEN t ELSE reg[j]
      BY <2>4 DEF Queue, TypeInv, TypeOK
    <3>3. k \notin ran /\ reg'[k] # Unused
      <4>1. reg'[k] # Unused
        BY <3>0, <3>2, SessionAssumption DEF Unused, NoTx
      <4>2. k \notin ran
        BY <2>2 DEF Once
      <4> QED BY <4>1, <4>2
    <3>4. /\ \A u \in Txs : k \notin cbs[u]
          /\ \A q \in Tasks : k \notin arg[q].batch
          /\ \A q \in Tasks : \A i \in DOMAIN frames[q] : k \notin frames[q][i].left
      BY <2>2 DEF Once
    <3> HIDE DEF t
    <3>5. \A j \in Callbacks, u \in Txs : j \in cbs'[u] => j \in cbs[u] \/ (j = k /\ u = t)
      BY <3>1
    <3>6. \A j \in Callbacks, u, v \in Txs : j \in cbs'[u] /\ j \in cbs'[v] => u = v
      BY <3>4, <3>5 DEF Once
    <3>7. \A j \in Callbacks, u \in Txs, q \in Tasks : j \in cbs'[u] => j \notin arg'[q].batch
      BY <2>1, <3>4, <3>5 DEF Once
    <3>8. \A j \in Callbacks, u \in Txs, q \in Tasks : \A i \in DOMAIN frames'[q] :
            j \in cbs'[u] => j \notin frames'[q][i].left
      BY <2>1, <3>4, <3>5 DEF Once
    <3>9. \A j \in Callbacks : j \in ran' \/ reg'[j] = Unused =>
            j # k /\ (j \in ran \/ reg[j] = Unused)
      BY <2>1, <3>2, <3>3
    <3>10. \A j \in Callbacks : j \in ran' \/ reg'[j] = Unused =>
            /\ \A u \in Txs : j \notin cbs'[u]
            /\ \A q \in Tasks : j \notin arg'[q].batch
            /\ \A q \in Tasks : \A i \in DOMAIN frames'[q] : j \notin frames'[q][i].left
      BY <2>1, <3>5, <3>9 DEF Once
    <3>11. \A j \in Callbacks : j \in ran' => reg'[j] # Unused
      BY <2>1, <3>2, <3>3 DEF Once
    <3>12. \A j \in Callbacks, q, r \in Tasks : j \in arg'[q].batch /\ j \in arg'[r].batch => q = r
      BY <2>1 DEF Once
    <3>13. \A j \in Callbacks, q, r \in Tasks : \A i \in DOMAIN frames'[r] :
            j \in arg'[q].batch => j \notin frames'[r][i].left
      BY <2>1 DEF Once
    <3>14. \A j \in Callbacks, q, r \in Tasks : \A i \in DOMAIN frames'[q], m \in DOMAIN frames'[r] :
            j \in frames'[q][i].left /\ j \in frames'[r][m].left => q = r /\ i = m
      BY <2>1 DEF Once
    <3> QED BY <3>6, <3>7, <3>8, <3>10, <3>11, <3>12, <3>13, <3>14 DEF Once
  <2> QED BY <2>3, <2>4
<1>25. CASE Invoke(p)
  <2> PICK k \in First(Head(frames[p]).left) :
         /\ ran' = ran \cup {k}
         /\ frames' = [frames EXCEPT ![p] = <<Without(Head(@), k)>> \o Tail(@)]
    BY <1>25 DEF Invoke
  <2> DEFINE top == Without(Head(frames[p]), k)
  <2>0. frames[p] \in Seq(Frame) /\ frames[p] # <<>>
    BY <1>25 DEF Invoke, TypeInv, TypeOK, AwaitOK
  <2>1. Head(frames[p]) = frames[p][1] /\ 1 \in DOMAIN frames[p] /\ Head(frames[p]) \in Frame
    BY <2>0
  <2>2. k \in Callbacks /\ k \in frames[p][1].left /\ top \in Frame
    BY <2>1 DEF First, Frame, Without
  <2>3. Tail(frames[p]) \in Seq(Frame) /\ Len(Tail(frames[p])) = Len(frames[p]) - 1
        /\ \A i \in 1 .. Len(frames[p]) - 1 : Tail(frames[p])[i] = frames[p][i + 1]
    BY <2>0
  <2>4. /\ DOMAIN frames'[p] = DOMAIN frames[p]
        /\ \A i \in DOMAIN frames[p] : frames'[p][i] = IF i = 1 THEN top ELSE frames[p][i]
    <3>1. frames'[p] = <<top>> \o Tail(frames[p])
      BY DEF TypeInv, TypeOK
    <3>2. DOMAIN frames[p] = 1 .. Len(frames[p]) /\ Len(frames[p]) \in Nat
      BY <2>0
    <3> HIDE DEF top
    <3> QED BY <2>2, <2>3, <3>1, <3>2, Pushed
  <2>5. \A q \in Tasks : /\ DOMAIN frames'[q] = DOMAIN frames[q]
                         /\ \A i \in DOMAIN frames[q] : frames'[q][i].left = frames[q][i].left \ {k}
    <3>1. top.left = frames[p][1].left \ {k}
      BY <2>1 DEF Without
    <3>2. \A q \in Tasks : \A i \in DOMAIN frames[q] :
             ~(q = p /\ i = 1) => k \notin frames[q][i].left
      BY <2>1, <2>2 DEF Once
    <3>3. \A q \in Tasks \ {p} : frames'[q] = frames[q]
      BY DEF TypeInv, TypeOK
    <3> HIDE DEF top
    <3> QED BY <2>4, <3>1, <3>2, <3>3
  <2>6. /\ \A t \in Txs : k \notin cbs[t]
        /\ \A q \in Tasks : k \notin arg[q].batch
        /\ reg[k] # Unused
    BY <2>1, <2>2 DEF Once
  <2>7. UNCHANGED <<cbs, reg>> /\ \A q \in Tasks : arg'[q].batch \subseteq arg[q].batch
    BY <1>25, <1>6, SmallSteps DEF Invoke, registry
  <2>8. \A j \in Callbacks : j \in ran' => j = k \/ j \in ran
    OBVIOUS
  <2>9. \A q \in Tasks : \A i \in DOMAIN frames'[q] : i \in DOMAIN frames[q]
          /\ \A j \in Callbacks : j \in frames'[q][i].left => j # k /\ j \in frames[q][i].left
    BY <2>5
  <2> HIDE DEF top
  <2>10. \A j \in Callbacks, t, u \in Txs : j \in cbs'[t] /\ j \in cbs'[u] => t = u
    BY <2>7 DEF Once
  <2>11. \A j \in Callbacks, q, r \in Tasks : j \in arg'[q].batch /\ j \in arg'[r].batch => q = r
    BY <2>7 DEF Once
  <2>12. \A j \in Callbacks, q, r \in Tasks : \A i \in DOMAIN frames'[q], m \in DOMAIN frames'[r] :
           j \in frames'[q][i].left /\ j \in frames'[r][m].left => q = r /\ i = m
    BY <2>9 DEF Once
  <2>13. \A j \in Callbacks, t \in Txs, q \in Tasks : j \in cbs'[t] => j \notin arg'[q].batch
    BY <2>7 DEF Once
  <2>14. \A j \in Callbacks, t \in Txs, q \in Tasks : \A i \in DOMAIN frames'[q] :
           j \in cbs'[t] => j \notin frames'[q][i].left
    BY <2>7, <2>9 DEF Once
  <2>15. \A j \in Callbacks, q, r \in Tasks : \A i \in DOMAIN frames'[r] :
           j \in arg'[q].batch => j \notin frames'[r][i].left
    BY <2>7, <2>9 DEF Once
  <2>16. \A j \in Callbacks : j \in ran' \/ reg'[j] = Unused =>
           /\ \A t \in Txs : j \notin cbs'[t]
           /\ \A q \in Tasks : j \notin arg'[q].batch
           /\ \A q \in Tasks : \A i \in DOMAIN frames'[q] : j \notin frames'[q][i].left
    BY <2>6, <2>7, <2>8, <2>9 DEF Once
  <2>17. \A j \in Callbacks : j \in ran' => reg'[j] # Unused
    BY <2>6, <2>7, <2>8 DEF Once
  <2> QED BY <2>10, <2>11, <2>12, <2>13, <2>14, <2>15, <2>16, <2>17 DEF Once
<1>26. CASE CallbackReturns(p) \/ CallbackRaises(p)
  <2>0. frames[p] \in Seq(Frame) /\ frames[p] # <<>>
    BY <1>26 DEF CallbackReturns, CallbackRaises, InCallback, TypeInv, TypeOK
  <2>1. /\ UNCHANGED <<cbs, ran, reg>>
        /\ \/ frames' = [frames EXCEPT ![p] = Tail(@)] /\ UNCHANGED <<pc, arg>>
           \/ Suspend(p, "callbacks", Nothing) /\ UNCHANGED frames
    BY <1>26 DEF CallbackReturns, CallbackRaises, registry, history
  <2>2. CASE Suspend(p, "callbacks", Nothing) /\ UNCHANGED frames
    BY <1>1, <1>2, <1>4, <1>5, <1>6, <2>1, <2>2
  <2>3. CASE frames' = [frames EXCEPT ![p] = Tail(@)] /\ UNCHANGED <<pc, arg>>
    <3>1. \A i \in DOMAIN frames'[p] : i + 1 \in DOMAIN frames[p] /\ frames'[p][i] = frames[p][i + 1]
      <4>1. frames'[p] = Tail(frames[p])
        BY <2>3 DEF TypeInv, TypeOK
      <4> QED BY <2>0, <4>1
    <3>2. \A q \in Tasks \ {p} : \A i \in DOMAIN frames'[q] :
             i + 0 \in DOMAIN frames[q] /\ frames'[q][i] = frames[q][i + 0]
      <4>1. \A q \in Tasks \ {p} : frames'[q] = frames[q] /\ DOMAIN frames[q] \subseteq Nat
        BY <2>3 DEF TypeInv, TypeOK
      <4> QED BY <4>1
    <3>3. Same
      BY <3>1, <3>2 DEF Same
    <3> QED BY <1>2, <1>3, <1>4, <2>1, <2>3, <3>3
  <2> QED BY <2>1, <2>2, <2>3
<1>27. CASE Spawn(p)
  BY <1>1, <1>2, <1>3, <1>4, <1>27 DEF Spawn, registry, history
<1> QED BY <1>8, <1>13, <1>14, <1>15, <1>16, <1>17, <1>18, <1>19, <1>20, <1>21, <1>22, <1>23,
           <1>24, <1>25, <1>26, <1>27 DEF Step, Begin, Continue, EndCallback

(* No merge, detach or callback loop can make a callback run twice, however  *)
(* many tasks share a connection and in whatever order transactions end.     *)
THEOREM CallbacksRunOnce == Spec => []AtMostOnce
<1>1. Init => TypeInv /\ Once
  BY InitTypeInv DEF Init, Once, Nothing
<1>2. TypeInv /\ Once /\ [Next]_vars => TypeInv' /\ Once'
  BY TypeInvStep, OnceStep
<1>3. TypeInv /\ Once => AtMostOnce
  <2> SUFFICES ASSUME TypeInv, Once PROVE AtMostOnce
    OBVIOUS
  <2>0. /\ \A t \in Txs : cbs[t] \subseteq Callbacks
        /\ \A p \in Tasks : arg[p].batch \subseteq Callbacks
        /\ \A p \in Tasks : \A i \in DOMAIN frames[p] : frames[p][i].left \subseteq Callbacks
    <3>1. \A t \in Txs : cbs[t] \subseteq Callbacks
      BY DEF TypeInv, TypeOK
    <3>2. \A p \in Tasks : arg[p].batch \subseteq Callbacks
      BY DEF TypeInv, TypeOK, Arg
    <3>3. \A p \in Tasks : frames[p] \in Seq(Frame)
      BY DEF TypeInv, TypeOK
    <3>4. \A p \in Tasks : \A i \in DOMAIN frames[p] : frames[p][i] \in Frame
      BY <3>3
    <3> QED BY <3>1, <3>2, <3>4 DEF Frame
  <2>1. \A p \in Tasks : \A k \in FrameOf(p) : \E i \in DOMAIN frames[p] : k \in frames[p][i].left
    BY DEF FrameOf
  <2>2. \A t, u \in Txs : t # u => cbs[t] \cap cbs[u] = {}
    BY <2>0 DEF Once
  <2>3. \A p, q \in Tasks : p # q => arg[p].batch \cap arg[q].batch = {}
    BY <2>0 DEF Once
  <2>4. \A p, q \in Tasks : \A i \in DOMAIN frames[p], j \in DOMAIN frames[q] :
          <<p, i>> # <<q, j>> => frames[p][i].left \cap frames[q][j].left = {}
    BY <2>0 DEF Once
  <2>5. \A t \in Txs, p \in Tasks : cbs[t] \cap (arg[p].batch \cup FrameOf(p)) = {}
    BY <2>0, <2>1 DEF Once
  <2>6. \A p, q \in Tasks : arg[p].batch \cap FrameOf(q) = {}
    BY <2>0, <2>1 DEF Once
  <2>7. ran \cap Waiting = {}
    <3>1. ASSUME NEW k \in Waiting
          PROVE  \/ \E t \in Txs : k \in cbs[t]
                 \/ \E p \in Tasks : k \in arg[p].batch
                 \/ \E p \in Tasks : \E i \in DOMAIN frames[p] : k \in frames[p][i].left
      <4>1. k \in UNION {cbs[t] : t \in Txs} => \E t \in Txs : k \in cbs[t]
        OBVIOUS
      <4>2. k \in UNION {arg[p].batch \cup FrameOf(p) : p \in Tasks} =>
              \E p \in Tasks : k \in arg[p].batch \cup FrameOf(p)
        OBVIOUS
      <4>3. \/ k \in UNION {cbs[t] : t \in Txs}
            \/ k \in UNION {arg[p].batch \cup FrameOf(p) : p \in Tasks}
        BY DEF Waiting
      <4> QED BY <2>1, <4>1, <4>2, <4>3
    <3>2. \A k \in Waiting : k \in Callbacks
      BY <2>0, <3>1
    <3> QED BY <3>1, <3>2 DEF Once
  <2> QED BY <2>2, <2>3, <2>4, <2>5, <2>6, <2>7 DEF AtMostOnce
<1> QED BY <1>1, <1>2, <1>3, PTL DEF Spec

-----------------------------------------------------------------------------
(* Which connection a task works on.  For any number of tasks: an open       *)
(* connection is held by a transaction and named by a task that does not     *)
(* wait for one.  Where no task is created inside a transaction, a           *)
(* connection belongs to one task, and no record outlives its root.          *)

\* The transactions a task can still name, and the connections.
Stacked(p, t) == \E i \in DOMAIN frames[p] : t \in frames[p][i].outer
Object(p, t) == t \in entered[p] \/ t = arg[p].tx \/ Stacked(p, t)
Names(p, c) == \/ ctx[p] = c
               \/ arg[p].conn = c
               \/ \E t \in Txs : Object(p, t) /\ home[t] = c

(* A transaction stays on the connection it began on, and begins after all   *)
(* that began before it.                                                     *)
Placed ==
    /\ \A c \in Conns : /\ root[c] # NoTx => home[root[c]] = c
                        /\ nested[c] # NoTx => home[nested[c]] = c
    /\ \A t \in Txs : /\ prev[t] # NoTx => home[t] # NoConn /\ home[prev[t]] = home[t]
                      /\ home[t] # NoConn => conn[home[t]] # "free"
                      /\ active[t] \/ fate[t] # "none" => home[t] # NoConn
    /\ \A t, u \in Txs : home[t] # NoConn /\ home[u] = NoConn => t < u

(* What a task names was made.                                               *)
Named ==
    /\ \A p \in Tasks, t \in Txs : Object(p, t) => home[t] # NoConn
    /\ \A p \in Tasks, c \in Conns : Names(p, c) => conn[c] # "free"
    /\ \A p \in Tasks : pc[p] = "close" => arg[p].conn \in Conns
    /\ \A p \in Tasks : pc[p] = "savepoint" => arg[p].conn = ctx[p]
    /\ \A p \in Tasks \ live : pc[p] = "idle"
    /\ \A t \in recorded : home[t] # NoConn

(* A statement that begins nothing works on one connection, and takes        *)
(* transactions off it.                                                      *)
Winds(c) ==
    /\ UNCHANGED <<home, prev>>
    /\ \A t \in Txs : active'[t] => active[t]
    /\ \A t \in Txs : fate'[t] # fate[t] => fate[t] \in {"open", "merged"}
    /\ \A t \in Txs : home[t] # c => active'[t] = active[t] /\ fate'[t] = fate[t]
    /\ \A d \in Conns \ {c} : conn'[d] = conn[d] /\ root'[d] = root[d] /\ nested'[d] = nested[d]
    /\ root'[c] \in {root[c], NoTx}
    /\ \/ nested'[c] \in {nested[c], NoTx}
       \/ nested[c] # NoTx /\ nested'[c] = prev[nested[c]]
    /\ \/ conn'[c] = conn[c]
       \/ conn[c] = "open" /\ conn'[c] = "lost"
       \/ conn'[c] = "closed"

LEMMA Settled == ASSUME SessionTypeOK, NEW c \in Conns, NEW f \in Fate,
                        NEW S \in SUBSET Live(c), Settle(S, f)
                 PROVE  /\ \A t \in Txs : home[t] # c => fate'[t] = fate[t]
                        /\ \A t \in Txs : fate'[t] # fate[t] => fate[t] \in {"open", "merged"}
BY DEF SessionTypeOK, Settle, Live, OnConn

LEMMA Quieted == ASSUME SessionTypeOK, NEW S, Deactivate(S)
                 PROVE  /\ \A t \in Txs : active'[t] => active[t]
                        /\ \A t \in Txs : t \notin S => active'[t] = active[t]
BY DEF SessionTypeOK, Deactivate

LEMMA Dropped == ASSUME SessionTypeOK, NEW c \in Conns, NEW f \in Fate, Drop(c, f)
                 PROVE  /\ \A t \in Txs : home[t] # c => fate'[t] = fate[t]
                        /\ \A t \in Txs : fate'[t] # fate[t] => fate[t] \in {"open", "merged"}
                        /\ conn[c] = "open" /\ conn'[c] = "lost"
                        /\ \A d \in Conns \ {c} : conn'[d] = conn[d]
<1>1. Settle(Live(c), f)
  BY DEF Drop
<1> QED BY <1>1, Settled DEF Drop, SessionTypeOK

LEMMA DropWinds ==
    ASSUME SessionTypeOK, NEW c \in Conns, Drop(c, "undone"),
           UNCHANGED <<home, root, nested, prev, active>>
    PROVE  Winds(c)
BY Dropped DEF Winds, Fate

LEMMA CloseWinds ==
    ASSUME SessionTypeOK, NEW c \in Conns, root[c] \in OnConn(c) \cup {NoTx}
    PROVE  /\ CloseOk(c) => Winds(c)
           /\ CloseFails(c) => Winds(c)
<1>a. "undone" \in Fate
  BY DEF Fate
<1>b. Live(c) \in SUBSET Live(c)
  OBVIOUS
<1>d. NoTx \notin Txs
  BY SessionAssumption
<1>1. ASSUME CloseOk(c) PROVE Winds(c)
  <2>1. \A u \in Txs : home[u] # c => u \notin OnConn(c)
    BY DEF OnConn
  <2>2. /\ \A u \in Txs : active'[u] => active[u]
        /\ \A u \in Txs : home[u] # c => active'[u] = active[u]
    BY <1>1, <2>1, Quieted DEF EndRoot, CloseOk
  <2>3. /\ \A u \in Txs : home[u] # c => fate'[u] = fate[u]
        /\ \A u \in Txs : fate'[u] # fate[u] => fate[u] \in {"open", "merged"}
    BY <1>1, <1>a, <1>b, Settled DEF CloseOk
  <2>4. /\ \A d \in Conns \ {c} : conn'[d] = conn[d] /\ root'[d] = root[d] /\ nested'[d] = nested[d]
        /\ root'[c] = NoTx /\ nested'[c] = NoTx /\ conn'[c] = "closed"
    BY <1>1 DEF CloseOk, EndRoot, SessionTypeOK
  <2> QED BY <1>1, <2>2, <2>3, <2>4 DEF Winds, CloseOk
<1>2. ASSUME CloseFails(c) PROVE Winds(c)
  <2>1. \A u \in Txs : home[u] # c => u \notin {root[c]}
    BY <1>2, <1>d DEF OnConn
  <2>2. /\ \A u \in Txs : active'[u] => active[u]
        /\ \A u \in Txs : home[u] # c => active'[u] = active[u]
    BY <1>2, <2>1, Quieted DEF CloseFails
  <2>3. Drop(c, "undone")
    BY <1>2 DEF CloseFails
  <2>4. /\ \A d \in Conns \ {c} : root'[d] = root[d]
        /\ root'[c] = NoTx
    BY <1>2 DEF CloseFails, SessionTypeOK
  <2> QED BY <1>2, <1>a, <2>2, <2>3, <2>4, Dropped DEF Winds, CloseFails
<1> QED BY <1>1, <1>2

(* Every statement that begins nothing is of this kind.                      *)
LEMMA WindsOps ==
    ASSUME SessionTypeOK, NEW t \in Txs, NEW c \in Conns
    PROVE  /\ home[t] = c /\ CommitOk(t) => Winds(c)
           /\ home[t] = c /\ CommitFails(t) => Winds(c)
           /\ home[t] = c /\ RollbackOk(t) => Winds(c)
           /\ home[t] = c /\ RollbackFails(t) => Winds(c)
<1>a. {"undone", "merged", "durable", "open"} \subseteq Fate
  BY DEF Fate
<1>b. {} \in SUBSET Live(c) /\ Live(c) \in SUBSET Live(c) /\ {u \in Live(c) : u >= t} \in SUBSET Live(c)
  OBVIOUS
<1>d. NoTx \notin Txs
  BY SessionAssumption
<1>2. ASSUME home[t] = c PROVE Popped(t) = [nested EXCEPT ![c] = IF nested[c] = t THEN prev[t] ELSE @]
  BY <1>2 DEF Popped, SessionTypeOK
<1>3. ASSUME home[t] = c, CommitOk(t) PROVE Winds(c)
  <2>1. CASE t = root[c] /\ Settle(Live(c), "durable") /\ EndRoot(c)
    <3>1. \A u \in Txs : home[u] # c => u \notin OnConn(c)
      BY DEF OnConn
    <3>2. /\ \A u \in Txs : home[u] # c => fate'[u] = fate[u]
          /\ \A u \in Txs : fate'[u] # fate[u] => fate[u] \in {"open", "merged"}
      BY <1>a, <1>b, <2>1, Settled
    <3>3. /\ \A u \in Txs : active'[u] => active[u]
          /\ \A u \in Txs : home[u] # c => active'[u] = active[u]
      BY <2>1, <3>1, Quieted DEF EndRoot
    <3>4. UNCHANGED <<conn, home, prev>>
      BY <1>3 DEF CommitOk
    <3>5. /\ \A d \in Conns \ {c} : root'[d] = root[d] /\ nested'[d] = nested[d]
          /\ root'[c] = NoTx /\ nested'[c] = NoTx
      BY <2>1 DEF EndRoot, SessionTypeOK
    <3> QED BY <3>2, <3>3, <3>4, <3>5 DEF Winds
  <2>2. CASE /\ t # root[c] /\ Settle({u \in Live(c) : u >= t}, "merged")
             /\ Deactivate({t}) /\ nested' = Popped(t) /\ UNCHANGED root
    <3>2. /\ \A u \in Txs : home[u] # c => fate'[u] = fate[u]
          /\ \A u \in Txs : fate'[u] # fate[u] => fate[u] \in {"open", "merged"}
      BY <1>a, <1>b, <2>2, Settled
    <3>3. /\ \A u \in Txs : active'[u] => active[u]
          /\ \A u \in Txs : home[u] # c => active'[u] = active[u]
      BY <1>3, <2>2, Quieted
    <3>4. UNCHANGED <<conn, home, prev>>
      BY <1>3 DEF CommitOk
    <3>5. /\ \A d \in Conns \ {c} : nested'[d] = nested[d]
          /\ nested'[c] = IF nested[c] = t THEN prev[t] ELSE nested[c]
      BY <1>2, <1>3, <2>2 DEF SessionTypeOK
    <3> QED BY <1>d, <2>2, <3>2, <3>3, <3>4, <3>5 DEF Winds
  <2> QED BY <1>3, <2>1, <2>2 DEF CommitOk
<1>4. ASSUME home[t] = c, CommitFails(t) PROVE Winds(c)
  <2>1. /\ \A u \in Txs : active'[u] => active[u]
        /\ \A u \in Txs : home[u] # c => active'[u] = active[u]
        /\ \A d \in Conns \ {c} : nested'[d] = nested[d]
        /\ nested'[c] \in {nested[c], NoTx}
    <3>1. CASE t = root[c] /\ Deactivate(OnConn(c)) /\ nested' = [nested EXCEPT ![c] = NoTx]
      <4>1. \A u \in Txs : home[u] # c => u \notin OnConn(c)
        BY DEF OnConn
      <4> QED BY <3>1, <4>1, Quieted DEF SessionTypeOK
    <3>2. CASE Deactivate({t}) /\ UNCHANGED nested
      BY <1>4, <3>2, Quieted
    <3> QED BY <1>4, <3>1, <3>2 DEF CommitFails
  <2>2. /\ \A u \in Txs : home[u] # c => fate'[u] = fate[u]
        /\ \A u \in Txs : fate'[u] # fate[u] => fate[u] \in {"open", "merged"}
        /\ \A d \in Conns \ {c} : conn'[d] = conn[d]
        /\ conn'[c] = conn[c] \/ (conn[c] = "open" /\ conn'[c] = "lost")
    <3>1. CASE UNCHANGED <<conn, fate>>
      BY <3>1
    <3>2. CASE Settle(Live(c), "undone") /\ UNCHANGED conn
      BY <1>a, <1>b, <3>2, Settled
    <3>3. CASE Drop(c, "undone") \/ Drop(c, "durable")
      BY <1>a, <3>3, Dropped
    <3> QED BY <1>4, <3>1, <3>2, <3>3 DEF CommitFails
  <2> QED BY <1>4, <2>1, <2>2 DEF Winds, CommitFails
<1>5. ASSUME home[t] = c, RollbackOk(t) PROVE Winds(c)
  <2>0. \E S \in SUBSET Live(c) : Settle(S, "undone")
    BY <1>5, <1>b DEF RollbackOk
  <2>1. /\ \A u \in Txs : home[u] # c => fate'[u] = fate[u]
        /\ \A u \in Txs : fate'[u] # fate[u] => fate[u] \in {"open", "merged"}
    BY <1>a, <2>0, Settled
  <2>2. CASE t = root[c] /\ EndRoot(c)
    <3>1. \A u \in Txs : home[u] # c => u \notin OnConn(c)
      BY DEF OnConn
    <3>2. /\ \A u \in Txs : active'[u] => active[u]
          /\ \A u \in Txs : home[u] # c => active'[u] = active[u]
      BY <2>2, <3>1, Quieted DEF EndRoot
    <3>3. /\ \A d \in Conns \ {c} : root'[d] = root[d] /\ nested'[d] = nested[d]
          /\ root'[c] = NoTx /\ nested'[c] = NoTx
      BY <2>2 DEF EndRoot, SessionTypeOK
    <3> QED BY <1>5, <2>1, <3>2, <3>3 DEF Winds, RollbackOk
  <2>3. CASE Deactivate({t}) /\ nested' = Popped(t) /\ UNCHANGED root
    <3>2. /\ \A u \in Txs : active'[u] => active[u]
          /\ \A u \in Txs : home[u] # c => active'[u] = active[u]
      BY <1>5, <2>3, Quieted
    <3>3. /\ \A d \in Conns \ {c} : nested'[d] = nested[d]
          /\ nested'[c] = IF nested[c] = t THEN prev[t] ELSE nested[c]
      BY <1>2, <1>5, <2>3 DEF SessionTypeOK
    <3> QED BY <1>d, <1>5, <2>1, <2>3, <3>2, <3>3 DEF Winds, RollbackOk
  <2> QED BY <1>5, <2>2, <2>3 DEF RollbackOk
<1>6. ASSUME home[t] = c, RollbackFails(t) PROVE Winds(c)
  <2>1. /\ \A u \in Txs : active'[u] => active[u]
        /\ \A u \in Txs : home[u] # c => active'[u] = active[u]
    BY <1>6, Quieted DEF RollbackFails
  <2>2. /\ \A u \in Txs : home[u] # c => fate'[u] = fate[u]
        /\ \A u \in Txs : fate'[u] # fate[u] => fate[u] \in {"open", "merged"}
        /\ \A d \in Conns \ {c} : conn'[d] = conn[d]
        /\ conn'[c] = conn[c] \/ (conn[c] = "open" /\ conn'[c] = "lost")
    BY <1>6, <1>a, Dropped DEF RollbackFails
  <2>3. /\ \A d \in Conns \ {c} : root'[d] = root[d] /\ nested'[d] = nested[d]
        /\ root'[c] \in {root[c], NoTx}
        /\ \/ nested'[c] = nested[c]
           \/ nested[c] # NoTx /\ nested'[c] = prev[nested[c]]
    <3>1. CASE root' = [root EXCEPT ![c] = NoTx] /\ UNCHANGED nested
      BY <3>1 DEF SessionTypeOK
    <3>2. CASE nested' = Popped(t) /\ UNCHANGED root
      BY <1>2, <1>6, <1>d, <3>2 DEF SessionTypeOK
    <3> QED BY <1>6, <3>1, <3>2 DEF RollbackFails
  <2> QED BY <1>6, <2>1, <2>2, <2>3 DEF Winds, RollbackFails
<1> QED BY <1>3, <1>4, <1>5, <1>6

-----------------------------------------------------------------------------
(* A statement that begins transaction t on connection c.                    *)
Begins(c, t) ==
    /\ home[t] = NoConn /\ \A u \in Txs : home[u] = NoConn => t <= u
    /\ home'[t] = c /\ prev'[t] \in {prev[t], nested[c]}
    /\ \A u \in Txs \ {t} : /\ home'[u] = home[u] /\ active'[u] = active[u]
                            /\ fate'[u] = fate[u] /\ prev'[u] = prev[u]
    /\ \A d \in Conns \ {c} : conn'[d] = conn[d] /\ root'[d] = root[d] /\ nested'[d] = nested[d]
    /\ \/ root[c] = NoTx /\ root'[c] = t /\ nested'[c] = nested[c]
       \/ root'[c] = root[c] /\ nested'[c] = t
    /\ conn'[c] = conn[c] \/ conn[c] = "free"
    /\ conn'[c] # "free"

LEMMA BeginsOps ==
    ASSUME SessionTypeOK, NEW c \in Conns, NEW t \in Txs
    PROVE  /\ Connect(c) /\ BeginRoot(c, t) => Begins(c, t) /\ conn[c] = "free" /\ root'[c] = t
           /\ BeginRoot(c, t) /\ UNCHANGED conn /\ conn[c] # "free" => Begins(c, t) /\ root'[c] = t
           /\ BeginNested(c, t) => Begins(c, t) /\ UNCHANGED <<conn, root>>
<1>1. t \in Fresh => home[t] = NoConn
  BY DEF Fresh
<1>2. (\A u \in Fresh : t <= u) => \A u \in Txs : home[u] = NoConn => t <= u
  BY DEF Fresh
<1>3. ASSUME Start(c, t)
      PROVE  /\ home'[t] = c /\ home[t] = NoConn /\ \A u \in Txs : home[u] = NoConn => t <= u
             /\ \A u \in Txs \ {t} : home'[u] = home[u] /\ active'[u] = active[u]
  BY <1>1, <1>2, <1>3 DEF Start, SessionTypeOK
<1>4. ASSUME BeginRoot(c, t)
      PROVE  /\ \A u \in Txs \ {t} : fate'[u] = fate[u]
             /\ \A d \in Conns \ {c} : root'[d] = root[d]
             /\ root[c] = NoTx /\ root'[c] = t /\ UNCHANGED <<nested, prev>>
  BY <1>4 DEF BeginRoot, SessionTypeOK
<1>5. ASSUME Connect(c), BeginRoot(c, t) PROVE Begins(c, t) /\ conn[c] = "free" /\ root'[c] = t
  <2>1. conn[c] = "free" /\ conn'[c] = "open" /\ \A d \in Conns \ {c} : conn'[d] = conn[d]
    BY <1>5 DEF Connect, SessionTypeOK
  <2> QED BY <1>3, <1>4, <1>5, <2>1 DEF BeginRoot, Begins
<1>6. ASSUME BeginRoot(c, t), UNCHANGED conn, conn[c] # "free" PROVE Begins(c, t) /\ root'[c] = t
  BY <1>3, <1>4, <1>6 DEF BeginRoot, Begins
<1>7. ASSUME BeginNested(c, t) PROVE Begins(c, t) /\ UNCHANGED <<conn, root>>
  <2>1. /\ \A u \in Txs \ {t} : fate'[u] = fate[u] /\ prev'[u] = prev[u]
        /\ prev'[t] = nested[c] /\ nested'[c] = t
        /\ \A d \in Conns \ {c} : nested'[d] = nested[d]
        /\ conn[c] = "open"
    BY <1>7 DEF BeginNested, SessionTypeOK
  <2> QED BY <1>3, <1>7, <2>1 DEF BeginNested, Begins
<1> QED BY <1>5, <1>6, <1>7

(* Placement survives both kinds of statement.                               *)
LEMMA PlacedOps ==
    ASSUME SessionTypeOK, SessionTypeOK', Placed, NEW c \in Conns
    PROVE  /\ Winds(c) => Placed'
           /\ \A t \in Txs : Begins(c, t) => Placed'
           /\ UNCHANGED session => Placed'
           /\ Connect(c) /\ UNCHANGED <<home, root, nested, prev, active, fate>> => Placed'
<1>0. /\ \A t \in Txs : t # NoTx /\ t \in Nat /\ prev[t] \in Txs \cup {NoTx}
      /\ \A d \in Conns : /\ root[d] \in Txs \cup {NoTx} /\ nested[d] \in Txs \cup {NoTx}
                          /\ d # NoConn
  BY SessionAssumption DEF SessionTypeOK, NoTx, NoConn
<1>1. ASSUME Winds(c) PROVE Placed'
  <2>1. \A d \in Conns : /\ root'[d] # NoTx => home'[root'[d]] = d
                         /\ nested'[d] # NoTx => home'[nested'[d]] = d
    BY <1>0, <1>1 DEF Winds, Placed
  <2>2. \A t \in Txs : /\ prev'[t] # NoTx => home'[t] # NoConn /\ home'[prev'[t]] = home'[t]
                       /\ active'[t] \/ fate'[t] # "none" => home'[t] # NoConn
    BY <1>0, <1>1 DEF Winds, Placed
  <2>3. \A t \in Txs : home'[t] # NoConn => conn'[home'[t]] # "free"
    BY <1>0, <1>1 DEF Winds, Placed, SessionTypeOK
  <2> QED BY <1>1, <2>1, <2>2, <2>3 DEF Winds, Placed
<1>2. ASSUME NEW t \in Txs, Begins(c, t) PROVE Placed'
  <2>0. /\ \A d \in Conns : /\ root[d] # NoTx => root[d] \in Txs /\ root[d] # t
                            /\ nested[d] # NoTx => nested[d] \in Txs /\ nested[d] # t
        /\ prev[t] = NoTx
        /\ \A u \in Txs : prev[u] # NoTx => prev[u] \in Txs /\ prev[u] # t
    BY <1>0, <1>2 DEF Begins, Placed
  <2>1. \A d \in Conns : /\ root'[d] # NoTx => home'[root'[d]] = d
                         /\ nested'[d] # NoTx => home'[nested'[d]] = d
    BY <1>0, <1>2, <2>0 DEF Begins, Placed
  <2>2. \A u \in Txs : prev'[u] # NoTx => home'[u] # NoConn /\ home'[prev'[u]] = home'[u]
    BY <1>0, <1>2, <2>0 DEF Begins, Placed
  <2>3. \A u \in Txs : active'[u] \/ fate'[u] # "none" => home'[u] # NoConn
    BY <1>0, <1>2 DEF Begins, Placed
  <2>4. \A u \in Txs : home'[u] # NoConn => conn'[home'[u]] # "free"
    BY <1>0, <1>2 DEF Begins, Placed, SessionTypeOK
  <2>5. \A u, v \in Txs : home'[u] # NoConn /\ home'[v] = NoConn => u < v
    BY <1>0, <1>2 DEF Begins, Placed
  <2> QED BY <2>1, <2>2, <2>3, <2>4, <2>5 DEF Placed
<1>3. UNCHANGED session => Placed'
  BY DEF session, Placed
<1>4. Connect(c) /\ UNCHANGED <<home, root, nested, prev, active, fate>> => Placed'
  BY <1>0 DEF Connect, Placed, SessionTypeOK
<1> QED BY <1>1, <1>2, <1>3, <1>4

-----------------------------------------------------------------------------
(* A step of task p changes no other task, unless it creates one.            *)
Others(p) == \A q \in Tasks \ {p} : /\ pc'[q] = pc[q] /\ arg'[q] = arg[q]
                                    /\ entered'[q] = entered[q] /\ frames'[q] = frames[q]

(* What p names after its step, it named before or has just made.            *)
Gains(p) ==
    /\ \A t \in Txs : Object(p, t)' =>
         home'[t] # NoConn /\ (Names(p, home'[t]) \/ conn[home'[t]] = "free")
    /\ \A c \in Conns : ctx'[p] = c \/ arg'[p].conn = c =>
         Names(p, c) \/ (conn[c] = "free" /\ conn'[c] # "free")

LEMMA OthersStay ==
    ASSUME TypeInv, NEW p \in Tasks, Step(p)
    PROVE  /\ Others(p)
           /\ (\A q \in Tasks \ {p} : ctx'[q] = ctx[q]) \/ Spawn(p)
<1>1. \A where, a : Suspend(p, where, a) => \A q \in Tasks \ {p} : pc'[q] = pc[q] /\ arg'[q] = arg[q]
  BY DEF Suspend, TypeInv, TypeOK
<1>2. \A batch : Execute(p, batch) => \A q \in Tasks \ {p} : pc'[q] = pc[q] /\ arg'[q] = arg[q] /\ frames'[q] = frames[q]
  BY <1>1 DEF Execute, Resume, TypeInv, TypeOK
<1>3. \A t : Entered(p, t) => \A q \in Tasks \ {p} : entered'[q] = entered[q]
  BY DEF Entered, TypeInv, TypeOK
<1>4. \A S : entered' = [entered EXCEPT ![p] = S] => \A q \in Tasks \ {p} : entered'[q] = entered[q]
  BY DEF TypeInv, TypeOK
<1>5. \A S : frames' = [frames EXCEPT ![p] = S] => \A q \in Tasks \ {p} : frames'[q] = frames[q]
  BY DEF TypeInv, TypeOK
<1>6. \A c : ctx' = [ctx EXCEPT ![p] = c] => \A q \in Tasks \ {p} : ctx'[q] = ctx[q]
  BY DEF TypeInv, TypeOK
<1>10. CASE Begin(p)
  BY <1>1, <1>3, <1>10 DEF Begin, StartConnect, BeginOnConnection, StartSavepoint, Others
<1>11. CASE FinishConnect(p) \/ BeginFails(p) \/ FailConnect(p)
  BY <1>1, <1>3, <1>6, <1>11 DEF FinishConnect, BeginFails, FailConnect, Resume, Others
<1>12. CASE FinishSavepoint(p) \/ FailSavepoint(p)
  BY <1>1, <1>3, <1>12 DEF FinishSavepoint, FailSavepoint, Resume, Others
<1>13. CASE Commit(p) \/ Rollback(p)
  BY <1>1, <1>13 DEF Commit, Rollback, End, Others
<1>14. CASE FinishCommit(p)
  BY <1>1, <1>2, <1>14 DEF FinishCommit, Release, Others
<1>15. CASE FailCommit(p)
  BY <1>1, <1>15 DEF FailCommit, Resume, Others
<1>16. CASE FinishRollback(p) \/ FailRollback(p)
  BY <1>1, <1>16 DEF FinishRollback, FailRollback, AfterRollback, Release, Resume, Others
<1>17. CASE Exit(p)
  BY <1>1, <1>4, <1>17 DEF Exit, End, Release, Others
<1>18. CASE Close(p)
  BY <1>1, <1>18 DEF Close, Release, Others
<1>19. CASE FinishClose(p)
  BY <1>2, <1>19 DEF FinishClose, Others
<1>20. CASE FailClose(p)
  BY <1>1, <1>6, <1>20 DEF FailClose, Resume, Others
<1>21. CASE AfterCommit(p)
  BY <1>21 DEF AfterCommit, tasks, Others
<1>22. CASE Invoke(p)
  BY <1>1, <1>5, <1>22 DEF Invoke, Others
<1>23. CASE EndCallback(p)
  BY <1>1, <1>4, <1>5, <1>23 DEF EndCallback, CallbackReturns, CallbackRaises, Others
<1>24. CASE Spawn(p)
  BY <1>24 DEF Spawn, Others
<1> QED BY <1>10, <1>11, <1>12, <1>13, <1>14, <1>15, <1>16, <1>17, <1>18, <1>19, <1>20, <1>21,
           <1>22, <1>23, <1>24 DEF Step, Begin, Continue

(* A callback loop remembers the objects its task had when it began.         *)
LEMMA Stacks ==
    ASSUME TypeInv, NEW p \in Tasks, NEW t
    PROVE  /\ t \in Outer(p) => Stacked(p, t)
           /\ UNCHANGED frames => (Stacked(p, t)' => Stacked(p, t))
           /\ \A batch \in SUBSET Callbacks :
                Execute(p, batch) => (Stacked(p, t)' => Stacked(p, t) \/ t \in entered[p])
           /\ Invoke(p) => (Stacked(p, t)' => Stacked(p, t))
           /\ frames' = [frames EXCEPT ![p] = Tail(@)] /\ frames[p] # <<>>
                => (Stacked(p, t)' => Stacked(p, t))
<1>0. frames[p] \in Seq(Frame) /\ DOMAIN frames[p] = 1 .. Len(frames[p]) /\ Len(frames[p]) \in Nat
  BY DEF TypeInv, TypeOK
<1>1. t \in Outer(p) => Stacked(p, t)
  <2>1. frames[p] # <<>> => 1 \in DOMAIN frames[p] /\ Head(frames[p]) = frames[p][1]
    BY <1>0
  <2> QED BY <2>1 DEF Outer, Stacked
<1>2. UNCHANGED frames => (Stacked(p, t)' => Stacked(p, t))
  BY DEF Stacked
<1>3. ASSUME NEW batch \in SUBSET Callbacks, Execute(p, batch), Stacked(p, t)'
      PROVE  Stacked(p, t) \/ t \in entered[p]
  <2>1. CASE UNCHANGED frames
    BY <1>2, <1>3, <2>1
  <2>2. CASE frames' = [frames EXCEPT ![p] = <<[left |-> batch, outer |-> entered[p]]>> \o @]
    <3> DEFINE top == [left |-> batch, outer |-> entered[p]]
    <3>1. top \in Frame /\ top.outer = entered[p]
      BY DEF Frame, TypeInv, TypeOK
    <3>2. frames'[p] = <<top>> \o frames[p]
      BY <2>2 DEF TypeInv, TypeOK
    <3>3. PICK i \in DOMAIN frames'[p] : t \in frames'[p][i].outer
      BY <1>3 DEF Stacked
    <3> HIDE DEF top
    <3>4. /\ i \in 1 .. Len(frames[p]) + 1
          /\ frames'[p][i] = IF i = 1 THEN top ELSE frames[p][i - 1]
      BY <1>0, <3>1, <3>2, <3>3, Pushed
    <3>5. i # 1 => i - 1 \in DOMAIN frames[p]
      BY <1>0, <3>4
    <3> QED BY <3>1, <3>3, <3>4, <3>5 DEF Stacked
  <2> QED BY <1>3, <2>1, <2>2 DEF Execute
<1>4. ASSUME frames[p] # <<>>
      PROVE  /\ Tail(frames[p]) \in Seq(Frame) /\ Len(Tail(frames[p])) = Len(frames[p]) - 1
             /\ \A i \in 1 .. Len(frames[p]) - 1 : Tail(frames[p])[i] = frames[p][i + 1] /\ i + 1 \in DOMAIN frames[p]
             /\ Head(frames[p]) = frames[p][1] /\ 1 \in DOMAIN frames[p] /\ Head(frames[p]) \in Frame
             /\ DOMAIN Tail(frames[p]) = 1 .. Len(frames[p]) - 1
  BY <1>0, <1>4
<1>5. ASSUME frames' = [frames EXCEPT ![p] = Tail(@)], frames[p] # <<>>, Stacked(p, t)' PROVE Stacked(p, t)
  <2>1. frames'[p] = Tail(frames[p])
    BY <1>5 DEF TypeInv, TypeOK
  <2> QED BY <1>4, <1>5, <2>1 DEF Stacked
<1>6. ASSUME Invoke(p), Stacked(p, t)' PROVE Stacked(p, t)
  <2>0. frames[p] # <<>>
    BY <1>6 DEF Invoke, TypeInv, AwaitOK
  <2> PICK k \in First(Head(frames[p]).left) : frames' = [frames EXCEPT ![p] = <<Without(Head(@), k)>> \o Tail(@)]
    BY <1>6 DEF Invoke
  <2> DEFINE top == Without(Head(frames[p]), k)
  <2>1. top \in Frame /\ top.outer = frames[p][1].outer
    BY <1>4, <2>0 DEF Without, Frame
  <2>2. frames'[p] = <<top>> \o Tail(frames[p])
    BY DEF TypeInv, TypeOK
  <2>3. PICK i \in DOMAIN frames'[p] : t \in frames'[p][i].outer
    BY <1>6 DEF Stacked
  <2> HIDE DEF top
  <2>4. /\ i \in 1 .. Len(frames[p])
        /\ frames'[p][i] = IF i = 1 THEN top ELSE Tail(frames[p])[i - 1]
    BY <1>0, <1>4, <2>0, <2>1, <2>2, <2>3, Pushed
  <2>5. i # 1 => i - 1 \in 1 .. Len(frames[p]) - 1 /\ i \in DOMAIN frames[p] /\ Tail(frames[p])[i - 1] = frames[p][i]
    BY <1>0, <1>4, <2>0, <2>4
  <2> QED BY <1>4, <2>0, <2>1, <2>3, <2>4, <2>5 DEF Stacked
<1> QED BY <1>1, <1>2, <1>3, <1>5, <1>6

-----------------------------------------------------------------------------
(* The connection an operation was awaited on.                               *)
LEMMA Works ==
    ASSUME TypeInv, Placed, Named, NEW p \in Tasks
    PROVE  /\ pc[p] \in {"commit", "rollback"} =>
                /\ arg[p].tx \in Txs /\ home[arg[p].tx] \in Conns
                /\ Names(p, home[arg[p].tx])
           /\ pc[p] = "savepoint" => arg[p].conn \in Conns /\ Names(p, arg[p].conn)
           /\ pc[p] = "close" => arg[p].conn \in Conns /\ Names(p, arg[p].conn)
           /\ Current(p) # NoConn => Current(p) \in Conns /\ Names(p, Current(p))
           /\ CurrentTx(p) # NoTx => /\ CurrentTx(p) \in Txs /\ Current(p) # NoConn
                                     /\ home[CurrentTx(p)] = Current(p)
           /\ \A t \in Txs : Object(p, t) => home[t] \in Conns /\ Names(p, home[t])
           /\ \A c \in Conns : root[c] \in OnConn(c) \cup {NoTx}
<1>1. \A t \in Txs : Object(p, t) => home[t] \in Conns /\ Names(p, home[t])
  BY DEF Named, Names, TypeInv, TypeOK, SessionTypeOK
<1>2. pc[p] \in {"commit", "rollback"} => arg[p].tx \in Txs /\ Object(p, arg[p].tx)
  BY DEF TypeInv, AwaitOK, Object
<1>3. Current(p) # NoConn => Current(p) \in Conns /\ Names(p, Current(p))
  BY CurrentType DEF Current, Names
<1>4. CurrentTx(p) # NoTx => Current(p) # NoConn /\ CurrentTx(p) \in Txs
  BY CurrentType DEF CurrentTx
<1>5. CurrentTx(p) # NoTx => home[CurrentTx(p)] = Current(p)
  BY <1>3, <1>4 DEF CurrentTx, Innermost, Placed
<1>6. \A c \in Conns : root[c] \in OnConn(c) \cup {NoTx}
  BY DEF TypeInv, TypeOK, SessionTypeOK, Placed, OnConn
<1> QED BY <1>1, <1>2, <1>3, <1>4, <1>5, <1>6 DEF Named, Names, TypeInv, AwaitOK

(* What a step does to the database session.                                 *)
Moves(p) ==
    \/ UNCHANGED session
    \/ \E c \in Conns : Winds(c) /\ Names(p, c)
    \/ \E c \in Conns, t \in Txs : Begins(c, t) /\ (Names(p, c) \/ conn[c] = "free")
    \/ \E c \in Conns : Connect(c) /\ UNCHANGED <<home, root, nested, prev, active, fate>>

LEMMA SessionMoves == ASSUME TypeInv, Placed, Named, NEW p \in Tasks, Step(p) PROVE Moves(p)
<1>0. SessionTypeOK
  BY DEF TypeInv, TypeOK
<1>1. CASE UNCHANGED session
  BY <1>1 DEF Moves
<1>2. CASE FinishConnect(p)
  BY <1>0, <1>2, BeginsOps DEF FinishConnect, Moves
<1>3. CASE BeginFails(p)
  BY <1>3 DEF BeginFails, Moves
<1>4. CASE BeginOnConnection(p)
  <2>1. Current(p) \in Conns /\ Names(p, Current(p)) /\ conn[Current(p)] # "free"
    BY <1>4, Works DEF BeginOnConnection, Named
  <2> QED BY <1>0, <1>4, <2>1, BeginsOps DEF BeginOnConnection, Moves
<1>5. CASE FinishSavepoint(p)
  <2>1. arg[p].conn \in Conns /\ Names(p, arg[p].conn)
    BY <1>5, Works DEF FinishSavepoint
  <2> QED BY <1>0, <1>5, <2>1, BeginsOps DEF FinishSavepoint, Moves
<1>6. CASE FailSavepoint(p) /\ ~UNCHANGED session
  <2>1. arg[p].conn \in Conns /\ Names(p, arg[p].conn)
    BY <1>6, Works DEF FailSavepoint
  <2> QED BY <1>0, <1>6, <2>1, DropWinds DEF FailSavepoint, Moves
<1>7. CASE FinishCommit(p) \/ FailCommit(p) \/ FinishRollback(p) \/ FailRollback(p)
  <2>1. pc[p] \in {"commit", "rollback"} /\ (CommitOk(arg[p].tx) \/ CommitFails(arg[p].tx)
        \/ RollbackOk(arg[p].tx) \/ RollbackFails(arg[p].tx))
    BY <1>7 DEF FinishCommit, FailCommit, FinishRollback, FailRollback
  <2> QED BY <1>0, <2>1, Works, WindsOps DEF Moves
<1>8. CASE FinishClose(p) \/ FailClose(p)
  <2>1. pc[p] = "close" /\ (CloseOk(arg[p].conn) \/ CloseFails(arg[p].conn))
    BY <1>8 DEF FinishClose, FailClose
  <2> QED BY <1>0, <2>1, Works, CloseWinds DEF Moves
<1>9. CASE \/ StartConnect(p) \/ StartSavepoint(p) \/ Commit(p) \/ Rollback(p) \/ Exit(p) \/ Close(p)
           \/ AfterCommit(p) \/ EndCallback(p) \/ Spawn(p) \/ FailConnect(p) \/ Invoke(p)
  <2>1. UNCHANGED session
    BY <1>9 DEF StartConnect, StartSavepoint, Commit, Rollback, Exit, Close, AfterCommit, EndCallback,
                CallbackReturns, CallbackRaises, Spawn, FailConnect, Invoke
  <2> QED BY <1>1, <2>1
<1> QED BY <1>1, <1>2, <1>3, <1>4, <1>5, <1>6, <1>7, <1>8, <1>9 DEF Step, Begin, Continue

(* A connection once made or closed stays so, a transaction on its own.      *)
Keeps ==
    /\ \A c \in Conns : /\ conn[c] # "free" => conn'[c] # "free"
                        /\ conn[c] = "closed" => conn'[c] = "closed"
    /\ \A t \in Txs : home[t] # NoConn => home'[t] = home[t]

LEMMA KeepsStep == ASSUME TypeInv, Placed, Named, NEW p \in Tasks, Step(p) PROVE Keeps
<1>1. Moves(p)
  BY SessionMoves
<1>2. CASE UNCHANGED session
  BY <1>2 DEF session, Keeps
<1>3. ASSUME NEW c \in Conns, Winds(c) PROVE Keeps
  BY <1>3 DEF Winds, Keeps
<1>4. ASSUME NEW c \in Conns, NEW t \in Txs, Begins(c, t) PROVE Keeps
  BY <1>4 DEF Begins, Keeps
<1>5. ASSUME NEW c \in Conns, Connect(c), UNCHANGED home PROVE Keeps
  BY <1>5 DEF Connect, Keeps, TypeInv, TypeOK, SessionTypeOK
<1> QED BY <1>1, <1>2, <1>3, <1>4, <1>5 DEF Moves

LEMMA GainsStep == ASSUME TypeInv, Placed, Named, NEW p \in Tasks, Step(p) PROVE Gains(p)
<1> USE DEF Nothing
<1>a. Keeps
  BY KeepsStep
<1>b. \A t \in Txs : Object(p, t) => home'[t] # NoConn /\ Names(p, home'[t])
  BY <1>a, Works DEF Named, Keeps
<1>c. \A where, a : Suspend(p, where, a) => arg'[p] = a
  BY DEF Suspend, TypeInv, TypeOK
<1>d. \A t \in Txs : t # NoTx
  BY SessionAssumption
<1>e. \A c \in Conns : c # NoConn
  BY SessionAssumption
<1>f. \A t : Entered(p, t) => entered'[p] = entered[p] \cup {t}
  BY DEF Entered, TypeInv, TypeOK
<1>g. \A S : entered' = [entered EXCEPT ![p] = S] => entered'[p] = S
  BY DEF TypeInv, TypeOK
<1>h. \A t : UNCHANGED frames => (Stacked(p, t)' => Stacked(p, t))
  BY DEF Stacked
<1>i. \A S : ctx' = [ctx EXCEPT ![p] = S] => ctx'[p] = S
  BY DEF TypeInv, TypeOK
<1>j. ctx'[p] = ctx[p] =>
        ((\A c \in Conns : arg'[p].conn = c => Names(p, c))
         => (\A c \in Conns : ctx'[p] = c \/ arg'[p].conn = c => Names(p, c)))
  BY DEF Names
<1>k. \A t : t \in Outer(p) => Object(p, t)
  BY Stacks DEF Object
<1>1. CASE StartConnect(p) \/ FailConnect(p) \/ FailSavepoint(p) \/ FailCommit(p)
  <2>1. arg'[p] = Nothing /\ UNCHANGED <<ctx, entered, frames>>
    BY <1>1, <1>c DEF StartConnect, FailConnect, FailSavepoint, FailCommit, Resume
  <2> QED BY <1>b, <1>d, <1>e, <1>h, <1>j, <2>1 DEF Gains, Object
<1>2. CASE FinishConnect(p)
  <2> PICK c \in Conns, t \in Txs : /\ Connect(c) /\ BeginRoot(c, t)
                                   /\ ctx' = [ctx EXCEPT ![p] = c] /\ Entered(p, t)
    BY <1>2 DEF FinishConnect
  <2>1. /\ arg'[p] = Nothing /\ UNCHANGED frames /\ ctx'[p] = c
        /\ entered'[p] = entered[p] \cup {t}
    BY <1>2, <1>c, <1>f, <1>i DEF FinishConnect, Resume
  <2>2. home'[t] = c /\ conn[c] = "free" /\ conn'[c] # "free"
    BY BeginsOps DEF TypeInv, TypeOK, Begins
  <2> QED BY <1>b, <1>d, <1>e, <1>h, <2>1, <2>2 DEF Gains, Object
<1>3. CASE BeginFails(p)
  <2> PICK c \in Conns : /\ Connect(c) /\ ctx' = [ctx EXCEPT ![p] = c]
                        /\ Suspend(p, "close", [Nothing EXCEPT !.conn = c])
    BY <1>3 DEF BeginFails
  <2>1. /\ arg'[p].tx = NoTx /\ arg'[p].conn = c /\ ctx'[p] = c
        /\ UNCHANGED <<entered, frames>>
    BY <1>3, <1>c, <1>i DEF BeginFails
  <2>2. conn[c] = "free" /\ conn'[c] # "free"
    BY DEF Connect, TypeInv, TypeOK, SessionTypeOK
  <2> QED BY <1>b, <1>d, <1>h, <2>1, <2>2 DEF Gains, Object
<1>4. CASE BeginOnConnection(p)
  <2> PICK t \in Txs : BeginRoot(Current(p), t) /\ UNCHANGED conn /\ Entered(p, t)
    BY <1>4 DEF BeginOnConnection
  <2>1. /\ UNCHANGED <<ctx, arg, frames>> /\ entered'[p] = entered[p] \cup {t}
    BY <1>4, <1>f DEF BeginOnConnection
  <2>2. Current(p) \in Conns /\ Names(p, Current(p)) /\ conn[Current(p)] # "free"
    BY <1>4, Works DEF BeginOnConnection, Named
  <2>3. home'[t] = Current(p)
    BY <2>2, BeginsOps DEF TypeInv, TypeOK, Begins
  <2>4. \A c \in Conns : arg'[p].conn = c => Names(p, c)
    BY <2>1 DEF Names
  <2> QED BY <1>b, <1>e, <1>h, <1>j, <2>1, <2>2, <2>3, <2>4 DEF Gains, Object
<1>5. CASE StartSavepoint(p)
  <2>0. Current(p) # NoConn
    BY <1>5, Works DEF StartSavepoint
  <2>1. /\ arg'[p].tx = CurrentTx(p) /\ arg'[p].conn = Current(p)
        /\ UNCHANGED <<ctx, entered, frames, session>>
    BY <1>5, <1>c DEF StartSavepoint
  <2>2. home'[CurrentTx(p)] = Current(p) /\ CurrentTx(p) \in Txs
    BY <1>5, <2>1, Works DEF StartSavepoint, session
  <2> QED BY <1>b, <1>e, <1>h, <1>j, <2>0, <2>1, <2>2, Works DEF Gains, Object
<1>6. CASE FinishSavepoint(p)
  <2> PICK t \in Txs : BeginNested(arg[p].conn, t) /\ Entered(p, t)
    BY <1>6 DEF FinishSavepoint
  <2>1. /\ UNCHANGED <<ctx, frames>> /\ arg'[p] = Nothing /\ entered'[p] = entered[p] \cup {t}
    BY <1>6, <1>c, <1>f DEF FinishSavepoint, Resume
  <2>2. arg[p].conn \in Conns /\ Names(p, arg[p].conn)
    BY <1>6, Works DEF FinishSavepoint
  <2>3. home'[t] = arg[p].conn
    BY <2>2, BeginsOps DEF TypeInv, TypeOK, Begins
  <2> QED BY <1>b, <1>d, <1>e, <1>h, <1>j, <2>1, <2>2, <2>3 DEF Gains, Object
<1>7. CASE Commit(p) \/ Rollback(p)
  <2> PICK t \in Given(p), how \in {"commit", "rollback"} : End(p, t, how)
    BY <1>7 DEF Commit, Rollback
  <2>1. /\ arg'[p].tx = t /\ arg'[p].conn = NoConn
        /\ UNCHANGED <<ctx, entered, frames, session>>
    BY <1>7, <1>c DEF Commit, Rollback, End
  <2>2. Object(p, t) \/ (t = CurrentTx(p) /\ CurrentTx(p) # NoTx)
    BY DEF Given, Object
  <2>3. t \in Txs => home'[t] # NoConn /\ Names(p, home'[t])
    BY <1>b, <2>1, <2>2, Works DEF session
  <2> QED BY <1>b, <1>e, <1>h, <1>j, <2>1, <2>3 DEF Gains, Object
<1>8. CASE FinishCommit(p)
  <2> DEFINE c == home[arg[p].tx]
             M == Batch(arg[p].tx)
  <2>0. /\ c \in Conns /\ Names(p, c) /\ M \in SUBSET Callbacks
    BY <1>8, Works, CollectedType, TypeOKParts DEF FinishCommit, TypeInv
  <2>1. /\ UNCHANGED <<ctx, entered>>
        /\ Execute(p, M) \/ (Release(p, c, M) /\ UNCHANGED frames)
    BY <1>8 DEF FinishCommit
  <2>2. arg'[p] = Nothing \/ arg'[p] = [tx |-> NoTx, conn |-> c, batch |-> M]
    BY <1>c, <2>1 DEF Execute, Release, Resume
  <2>3. \A t \in Txs : Stacked(p, t)' => Stacked(p, t) \/ t \in entered[p]
    BY <1>h, <2>0, <2>1, Stacks
  <2> HIDE DEF c, M
  <2> QED BY <1>b, <1>d, <1>e, <1>j, <2>0, <2>1, <2>2, <2>3 DEF Gains, Object
<1>9. CASE FinishRollback(p) \/ FailRollback(p)
  <2> DEFINE c == home[arg[p].tx]
  <2>0. c \in Conns /\ Names(p, c)
    BY <1>9, Works DEF FinishRollback, FailRollback
  <2>1. UNCHANGED <<ctx, entered, frames>> /\ (Resume(p) \/ Release(p, c, {}))
    BY <1>9 DEF FinishRollback, FailRollback, AfterRollback
  <2>2. arg'[p] = Nothing \/ arg'[p] = [tx |-> NoTx, conn |-> c, batch |-> {}]
    BY <1>c, <2>1 DEF Release, Resume
  <2> HIDE DEF c
  <2> QED BY <1>b, <1>d, <1>e, <1>h, <1>j, <2>0, <2>1, <2>2 DEF Gains, Object
<1>10. CASE Exit(p)
  <2> PICK t \in entered[p] \ Outer(p) :
         /\ entered' = [entered EXCEPT ![p] = {u \in @ : u < t}]
         /\ \/ End(p, t, "commit") \/ End(p, t, "rollback")
            \/ UNCHANGED arg
            \/ Release(p, home[t], {})
    BY <1>10 DEF Exit
  <2>0. t \in Txs /\ Object(p, t)
    BY DEF Object, TypeInv, TypeOK
  <2>1. UNCHANGED <<ctx, frames>> /\ entered'[p] \subseteq entered[p]
    BY <1>10, <1>g DEF Exit
  <2>2. \/ arg'[p].tx = t /\ arg'[p].conn = NoConn
        \/ arg'[p] = arg[p]
        \/ arg'[p].tx = NoTx /\ arg'[p].conn = home[t]
    BY <1>c DEF End, Release
  <2>3. \A c \in Conns : arg'[p].conn = c => Names(p, c)
    BY <1>e, <2>0, <2>2 DEF Names
  <2> QED BY <1>b, <1>d, <1>h, <1>j, <2>0, <2>1, <2>2, <2>3 DEF Gains, Object
<1>11. CASE Close(p)
  <2>1. /\ UNCHANGED <<ctx, entered, frames>> /\ arg'[p].tx = NoTx /\ arg'[p].conn = Current(p)
        /\ Current(p) # NoConn
    BY <1>11, <1>c DEF Close, Release
  <2> QED BY <1>b, <1>d, <1>h, <1>j, <2>1, Works DEF Gains, Object
<1>12. CASE FinishClose(p)
  <2>0. arg[p].batch \in SUBSET Callbacks
    BY DEF TypeInv, TypeOK, Arg
  <2>1. UNCHANGED <<ctx, entered>> /\ Execute(p, arg[p].batch)
    BY <1>12 DEF FinishClose
  <2>2. arg'[p] = Nothing
    BY <1>c, <2>1 DEF Execute, Resume
  <2>3. \A t \in Txs : Stacked(p, t)' => Stacked(p, t) \/ t \in entered[p]
    BY <2>0, <2>1, Stacks
  <2> QED BY <1>b, <1>d, <1>e, <1>j, <2>1, <2>2, <2>3 DEF Gains, Object
<1>13. CASE FailClose(p)
  <2>1. /\ UNCHANGED <<entered, frames>> /\ arg'[p] = Nothing
        /\ ctx'[p] \in {ctx[p], NoConn}
    BY <1>13, <1>c, <1>i DEF FailClose, Resume
  <2>2. \A c \in Conns : ctx'[p] = c => Names(p, c)
    BY <1>e, <2>1 DEF Names
  <2> QED BY <1>b, <1>d, <1>e, <1>h, <2>1, <2>2 DEF Gains, Object
<1>14. CASE AfterCommit(p)
  <2>1. UNCHANGED <<ctx, arg, entered, frames>>
    BY <1>14 DEF AfterCommit, tasks
  <2> QED BY <1>b, <1>h, <2>1 DEF Gains, Object, Names
<1>15. CASE Invoke(p)
  <2>1. UNCHANGED <<ctx, entered>> /\ arg'[p] = Nothing
    BY <1>15, <1>c DEF Invoke
  <2>2. \A t \in Txs : Stacked(p, t)' => Stacked(p, t)
    BY <1>15, Stacks
  <2> QED BY <1>b, <1>d, <1>e, <1>j, <2>1, <2>2 DEF Gains, Object
<1>16. CASE EndCallback(p)
  <2>1. /\ UNCHANGED ctx /\ (arg'[p] = arg[p] \/ arg'[p] = Nothing) /\ entered'[p] = Outer(p)
        /\ frames[p] # <<>>
        /\ UNCHANGED frames \/ frames' = [frames EXCEPT ![p] = Tail(@)]
    BY <1>16, <1>c, <1>g DEF EndCallback, CallbackReturns, CallbackRaises, InCallback
  <2>2. \A t \in Txs : Stacked(p, t)' => Stacked(p, t)
    BY <1>h, <2>1, Stacks
  <2>3. \A c \in Conns : arg'[p].conn = c => Names(p, c)
    BY <1>e, <2>1 DEF Names
  <2> QED BY <1>b, <1>d, <1>j, <1>k, <2>1, <2>2, <2>3 DEF Gains, Object
<1>17. CASE Spawn(p)
  <2> PICK q \in Tasks \ live, c \in {ctx[p], NoConn} : ctx' = [ctx EXCEPT ![q] = c]
    BY <1>17 DEF Spawn
  <2>1. UNCHANGED <<arg, entered, frames>> /\ ctx'[p] = ctx[p]
    BY <1>17 DEF Spawn, Idle, TypeInv, TypeOK
  <2> QED BY <1>b, <1>h, <2>1 DEF Gains, Object, Names
<1> QED BY <1>1, <1>2, <1>3, <1>4, <1>5, <1>6, <1>7, <1>8, <1>9, <1>10, <1>11, <1>12, <1>13, <1>14,
           <1>15, <1>16, <1>17 DEF Step, Begin, Continue

(* Records are made for transactions that begin, of the task's connection.   *)
LEMMA RecordedStep ==
    ASSUME TypeInv, Placed, Named, NEW p \in Tasks, Step(p), NEW t \in recorded'
    PROVE  t \in recorded \/ (home[t] = NoConn /\ home'[t] # NoConn)
<1>a. \A c \in Conns, u \in Txs : Begins(c, u) => home[u] = NoConn /\ home'[u] # NoConn
  BY SessionAssumption DEF Begins
<1>b. \A c, u, parent : ManagerBegin(c, u, parent) => recorded' \subseteq recorded \cup {u}
  BY DEF ManagerBegin, Keep
<1>c. SessionTypeOK
  BY DEF TypeInv, TypeOK
<1>1. CASE FinishConnect(p)
  BY <1>a, <1>b, <1>c, <1>1, BeginsOps DEF FinishConnect
<1>2. CASE BeginOnConnection(p)
  <2>1. Current(p) \in Conns /\ Names(p, Current(p)) /\ conn[Current(p)] # "free"
    BY <1>2, Works DEF BeginOnConnection, Named
  <2> QED BY <1>a, <1>b, <1>c, <1>2, <2>1, BeginsOps DEF BeginOnConnection
<1>3. CASE FinishSavepoint(p)
  <2>1. arg[p].conn \in Conns
    BY <1>3, Works DEF FinishSavepoint
  <2> QED BY <1>a, <1>b, <1>c, <1>3, <2>1, BeginsOps DEF FinishSavepoint
<1>4. CASE \/ FinishCommit(p) \/ FailCommit(p) \/ FinishRollback(p) \/ FailRollback(p)
           \/ Exit(p) \/ Close(p) \/ BeginFails(p)
  BY <1>4 DEF FinishCommit, FailCommit, FinishRollback, FailRollback, AfterRollback, Exit, Close, BeginFails,
              ManagerCommit, ManagerRollback, ManagerForget, Keep, registry
<1>5. CASE \/ StartConnect(p) \/ StartSavepoint(p) \/ Commit(p) \/ Rollback(p) \/ AfterCommit(p)
           \/ EndCallback(p) \/ Spawn(p) \/ FailConnect(p) \/ FailSavepoint(p) \/ FinishClose(p)
           \/ FailClose(p) \/ Invoke(p)
  BY <1>5 DEF StartConnect, StartSavepoint, Commit, Rollback, AfterCommit, EndCallback, CallbackReturns,
              CallbackRaises, Spawn, FailConnect, FailSavepoint, FinishClose, FailClose, Invoke, registry
<1> QED BY <1>1, <1>2, <1>3, <1>4, <1>5 DEF Step, Begin, Continue

(* Only a task that was created takes steps.                                 *)
LEMMA LiveStep == ASSUME TypeInv, Named, NEW p \in Tasks, Step(p) PROVE p \in live /\ live \subseteq live'
<1>1. live \subseteq live'
  BY DEF Step, Begin, Continue, EndCallback, StartConnect, BeginOnConnection, StartSavepoint, Commit, Rollback,
         Exit, Close, AfterCommit, CallbackReturns, CallbackRaises, Spawn, FinishConnect, BeginFails,
         FailConnect, FinishSavepoint, FailSavepoint, FinishCommit, FailCommit, FinishRollback,
         FailRollback, FinishClose, FailClose, Invoke, tasks
<1>2. Idle(p) \/ pc[p] # "idle"
  BY DEF Step, Begin, Continue, EndCallback, StartConnect, BeginOnConnection, StartSavepoint, Commit, Rollback,
         Exit, Close, AfterCommit, CallbackReturns, CallbackRaises, Spawn, FinishConnect, BeginFails,
         FailConnect, FinishSavepoint, FailSavepoint, FinishCommit, FailCommit, FinishRollback,
         FailRollback, FinishClose, FailClose, Invoke, InCallback
<1> QED BY <1>1, <1>2 DEF Idle, Named

(* A task that closes or waits for a savepoint knows the connection.         *)
LEMMA AwaitsStep ==
    ASSUME TypeInv, Placed, Named, NEW p \in Tasks, Step(p)
    PROVE  /\ pc'[p] = "close" => arg'[p].conn \in Conns
           /\ pc'[p] = "savepoint" => arg'[p].conn = ctx'[p]
<1>a. \A where, a : Suspend(p, where, a) => pc'[p] = where /\ arg'[p] = a
  BY DEF Suspend, TypeInv, TypeOK
<1>b. \A batch : Execute(p, batch) => pc'[p] \in {"idle", "callbacks"}
  BY <1>a DEF Execute, Resume
<1>c. \A c, batch : Release(p, c, batch) => pc'[p] = "close" /\ arg'[p].conn = c
  BY <1>a DEF Release
<1>1. CASE StartConnect(p) \/ FinishConnect(p) \/ FailConnect(p) \/ FinishSavepoint(p)
           \/ FailSavepoint(p) \/ Commit(p) \/ Rollback(p) \/ FailCommit(p) \/ FinishClose(p)
           \/ FailClose(p) \/ Invoke(p)
  <2>1. pc'[p] \in {"idle", "connect", "commit", "rollback", "callbacks"}
    <3>1. CASE StartConnect(p) \/ FinishConnect(p) \/ FailConnect(p) \/ FinishSavepoint(p) \/ FailSavepoint(p)
      BY <1>a, <3>1 DEF StartConnect, FinishConnect, FailConnect, FinishSavepoint, FailSavepoint, Resume
    <3>2. CASE Commit(p) \/ Rollback(p)
      BY <1>a, <3>2 DEF Commit, Rollback, End
    <3>3. CASE FailCommit(p) \/ FinishClose(p) \/ FailClose(p) \/ Invoke(p)
      BY <1>a, <1>b, <3>3 DEF FailCommit, FinishClose, FailClose, Invoke, Resume
    <3> QED BY <1>1, <3>1, <3>2, <3>3
  <2> QED BY <2>1
<1>2. CASE BeginFails(p)
  BY <1>a, <1>2 DEF BeginFails, Nothing
<1>3. CASE StartSavepoint(p)
  <2>0. Suspend(p, "savepoint", [Nothing EXCEPT !.conn = Current(p), !.tx = CurrentTx(p)]) /\ UNCHANGED ctx
    BY <1>3 DEF StartSavepoint
  <2>1. pc'[p] = "savepoint" /\ arg'[p].conn = Current(p)
    <3>1. arg'[p] = [Nothing EXCEPT !.conn = Current(p), !.tx = CurrentTx(p)] /\ pc'[p] = "savepoint"
      BY <1>a, <2>0
    <3>2. [Nothing EXCEPT !.conn = Current(p), !.tx = CurrentTx(p)].conn = Current(p)
      BY DEF Nothing
    <3> QED BY <3>1, <3>2
  <2>2. Current(p) = ctx[p]
    BY <1>3, Works DEF StartSavepoint, Current
  <2> QED BY <2>0, <2>1, <2>2
<1>4. CASE FinishCommit(p) \/ FinishRollback(p) \/ FailRollback(p)
  <2>1. home[arg[p].tx] \in Conns
    BY <1>4, Works DEF FinishCommit, FinishRollback, FailRollback
  <2>2. \/ pc'[p] \in {"idle", "callbacks"}
        \/ pc'[p] = "close" /\ arg'[p].conn = home[arg[p].tx]
    BY <1>a, <1>b, <1>c, <1>4 DEF FinishCommit, FinishRollback, FailRollback, AfterRollback, Resume
  <2> QED BY <2>1, <2>2
<1>5. CASE Exit(p)
  <2> PICK t \in entered[p] \ Outer(p) :
         \/ End(p, t, "commit") \/ End(p, t, "rollback")
         \/ UNCHANGED <<pc, arg>>
         \/ Release(p, home[t], {})
    BY <1>5 DEF Exit
  <2>1. home[t] \in Conns
    BY Works DEF Object, TypeInv, TypeOK
  <2>2. pc[p] = "idle"
    BY <1>5 DEF Exit, Idle
  <2> QED BY <1>a, <1>c, <2>1, <2>2 DEF End
<1>6. CASE Close(p)
  BY <1>c, <1>6, Works DEF Close
<1>7. CASE BeginOnConnection(p) \/ AfterCommit(p) \/ Spawn(p)
  BY <1>7 DEF BeginOnConnection, AfterCommit, Spawn, Idle, tasks
<1>8. CASE EndCallback(p)
  <2>1. pc'[p] \in {pc[p], "callbacks"} /\ pc[p] = "idle"
    BY <1>a, <1>8 DEF EndCallback, CallbackReturns, CallbackRaises, InCallback, Idle
  <2> QED BY <2>1
<1> QED BY <1>1, <1>2, <1>3, <1>4, <1>5, <1>6, <1>7, <1>8 DEF Step, Begin, Continue

LEMMA NamedStep ==
    ASSUME TypeInv, TypeInv', Placed, Placed', Named, NEW p \in Tasks, Step(p)
    PROVE  Named'
<1>1. Keeps /\ Gains(p) /\ Others(p) /\ ((\A q \in Tasks \ {p} : ctx'[q] = ctx[q]) \/ Spawn(p))
  BY KeepsStep, GainsStep, OthersStay
<1>2. \A q \in Tasks \ {p}, t \in Txs : Object(q, t)' => Object(q, t) /\ home'[t] = home[t]
  BY <1>1 DEF Others, Keeps, Object, Stacked, Named
<1>3. \A q \in Tasks \ {p}, c \in Conns : ctx'[q] = c => ctx[q] = c \/ ctx[p] = c
  <2>1. CASE Spawn(p)
    <3> PICK r \in Tasks \ live, d \in {ctx[p], NoConn} : ctx' = [ctx EXCEPT ![r] = d]
      BY <2>1 DEF Spawn
    <3> QED BY SessionAssumption DEF TypeInv, TypeOK
  <2> QED BY <1>1, <2>1
<1>4. \A q \in Tasks \ {p}, c \in Conns : Names(q, c)' => Names(q, c) \/ Names(p, c)
  <2>1. \A q \in Tasks \ {p} : arg'[q] = arg[q]
    BY <1>1 DEF Others
  <2>2. \A q \in Tasks \ {p}, c \in Conns :
          (\E t \in Txs : Object(q, t)' /\ home'[t] = c) => Names(q, c)
    BY <1>2 DEF Names
  <2> QED BY <1>3, <2>1, <2>2 DEF Names
<1>5. \A q \in Tasks, t \in Txs : Object(q, t)' => home'[t] # NoConn
  BY <1>1, <1>2 DEF Gains, Named
<1>6. \A c \in Conns : Names(p, c)' => conn'[c] # "free"
  <2>1. \A c \in Conns : ctx'[p] = c \/ arg'[p].conn = c => conn'[c] # "free"
    BY <1>1 DEF Gains, Keeps, Named
  <2>2. \A t \in Txs : Object(p, t)' => conn'[home'[t]] # "free"
    BY <1>5 DEF Placed
  <2> QED BY <2>1, <2>2 DEF Names
<1>7. \A q \in Tasks, c \in Conns : Names(q, c)' => conn'[c] # "free"
  BY <1>1, <1>4, <1>6 DEF Keeps, Named
<1>8. \A t \in recorded' : home'[t] # NoConn
  <2> TAKE t \in recorded'
  <2>1. t \in recorded \/ (home[t] = NoConn /\ home'[t] # NoConn)
    BY RecordedStep
  <2> QED BY <1>1, <2>1 DEF Named, Keeps, TypeInv, TypeOK
<1>9. \A q \in Tasks : /\ pc'[q] = "close" => arg'[q].conn \in Conns
                       /\ pc'[q] = "savepoint" => arg'[q].conn = ctx'[q]
  <2>1. ASSUME NEW q \in Tasks \ {p}
        PROVE  /\ pc'[q] = "close" => arg'[q].conn \in Conns
               /\ pc'[q] = "savepoint" => arg'[q].conn = ctx'[q]
    <3>1. pc'[q] = pc[q] /\ arg'[q] = arg[q]
      BY <1>1 DEF Others
    <3>2. CASE ctx'[q] = ctx[q]
      BY <3>1, <3>2 DEF Named
    <3>3. CASE ctx'[q] # ctx[q]
      <4>1. Spawn(p)
        BY <1>1, <3>3
      <4>2. q \notin live
        BY <3>3, <4>1 DEF Spawn, TypeInv, TypeOK
      <4> QED BY <3>1, <4>2 DEF Named
    <3> QED BY <3>2, <3>3
  <2> QED BY <2>1, AwaitsStep
<1>10. \A q \in Tasks \ live' : pc'[q] = "idle"
  BY <1>1, LiveStep DEF Others, Named
<1> QED BY <1>5, <1>7, <1>8, <1>9, <1>10 DEF Named

-----------------------------------------------------------------------------
Begun == TypeInv /\ Placed /\ Named

LEMMA InitBegun == Init => Begun
<1> SUFFICES ASSUME Init PROVE Begun
  OBVIOUS
<1>1. TypeInv
  BY InitTypeInv
<1>2. Placed
  BY SessionAssumption DEF Init, SessionInit, Placed
<1>3. \A p \in Tasks, t \in Txs : ~Object(p, t)
  BY SessionAssumption DEF Init, Object, Stacked, Nothing
<1>4. \A p \in Tasks, c \in Conns : ~Names(p, c)
  BY <1>3, SessionAssumption DEF Init, Names, Nothing
<1> QED BY <1>1, <1>2, <1>3, <1>4 DEF Init, Begun, Named

LEMMA BegunStep == ASSUME Begun, NEW p \in Tasks, Step(p) PROVE Begun'
<1>1. TypeInv'
  BY TypeInvStep DEF Begun, Next
<1>2. Placed'
  <2>1. Moves(p)
    BY SessionMoves DEF Begun
  <2>2. SessionTypeOK /\ SessionTypeOK'
    BY <1>1 DEF Begun, TypeInv, TypeOK
  <2>3. CASE UNCHANGED session
    BY <2>3 DEF Begun, Placed, session
  <2> QED BY <2>1, <2>2, <2>3, PlacedOps DEF Moves, Begun
<1> QED BY <1>1, <1>2, NamedStep DEF Begun

LEMMA BegunStays == ASSUME Begun, UNCHANGED vars PROVE Begun'
<1>1. TypeInv'
  BY TypeInvStep DEF Begun
<1>2. UNCHANGED <<conn, home, root, nested, prev, active, fate, live, ctx, pc, arg, entered, frames, recorded>>
  BY DEF vars, session, tasks, registry
<1>3. Placed'
  BY <1>2 DEF Begun, Placed
<1>4. \A p \in Tasks : \A t \in Txs : Object(p, t)' <=> Object(p, t)
  BY <1>2 DEF Object, Stacked
<1>5. \A p \in Tasks : \A c \in Conns : Names(p, c)' <=> Names(p, c)
  BY <1>2, <1>4 DEF Names
<1> QED BY <1>1, <1>2, <1>3, <1>4, <1>5 DEF Begun, Named

\* A task is about to return the connection to the pool.
Closing(c) == \E p \in Tasks : pc[p] = "close" /\ arg[p].conn = c

(* A task closes a connection until it is not open any more.                 *)
LEMMA ClosingStays ==
    ASSUME Begun, NEW p \in Tasks, Step(p), NEW c \in Conns, Closing(c)
    PROVE  Closing(c)' \/ (pc[p] = "close" /\ arg[p].conn = c /\ (FinishClose(p) \/ FailClose(p)))
<1> PICK q \in Tasks : pc[q] = "close" /\ arg[q].conn = c
  BY DEF Closing
<1>1. CASE q # p
  <2>1. pc'[q] = "close" /\ arg'[q].conn = c
    BY <1>1, OthersStay DEF Others, Begun
  <2> QED BY <2>1 DEF Closing
<1>2. CASE q = p
  BY <1>2 DEF Step, Begin, Continue, EndCallback, StartConnect, BeginOnConnection, StartSavepoint, Commit, Rollback,
         Exit, Close, AfterCommit, CallbackReturns, CallbackRaises, Spawn, FinishConnect, BeginFails,
         FailConnect, FinishSavepoint, FailSavepoint, FinishCommit, FailCommit, FinishRollback,
         FailRollback, Invoke, InCallback, Idle
<1> QED BY <1>1, <1>2

LEMMA ClosesConn ==
    ASSUME Begun, NEW p \in Tasks, FinishClose(p) \/ FailClose(p)
    PROVE  /\ arg[p].conn \in Conns /\ Winds(arg[p].conn)
           /\ conn'[arg[p].conn] \in {"closed", "lost"} /\ root'[arg[p].conn] = NoTx
<1>1. pc[p] = "close" /\ (CloseOk(arg[p].conn) \/ CloseFails(arg[p].conn))
  BY DEF FinishClose, FailClose
<1>2. arg[p].conn \in Conns /\ Winds(arg[p].conn)
  BY <1>1, Works, CloseWinds DEF Begun, TypeInv, TypeOK
<1> QED BY <1>1, <1>2 DEF CloseOk, CloseFails, Drop, EndRoot, Begun, TypeInv, TypeOK, SessionTypeOK

(* Ending the root releases the connection.                                  *)
LEMMA EndsReleased ==
    ASSUME Begun, NEW p \in Tasks, NEW c, c = home[arg[p].tx],
           FinishCommit(p) \/ FailCommit(p) \/ FinishRollback(p) \/ FailRollback(p)
    PROVE  /\ c \in Conns /\ Winds(c) /\ Names(p, c)
           /\ root'[c] = NoTx => root[c] = NoTx \/ Closing(c)'
<1>1. pc[p] \in {"commit", "rollback"} /\ arg[p].tx \in Txs /\ c \in Conns /\ Names(p, c)
  BY Works DEF Begun, FinishCommit, FailCommit, FinishRollback, FailRollback
<1>2. Winds(c)
  BY <1>1, WindsOps DEF FinishCommit, FailCommit, FinishRollback, FailRollback, Begun, TypeInv, TypeOK
<1>3. \A batch : Release(p, c, batch) => Closing(c)'
  <2> SUFFICES ASSUME NEW batch, Release(p, c, batch) PROVE Closing(c)'
    OBVIOUS
  <2>1. pc'[p] = "close" /\ arg'[p].conn = c
    BY DEF Release, Suspend, Begun, TypeInv, TypeOK
  <2> QED BY <2>1 DEF Closing
<1>4. FailCommit(p) => root' = root
  BY DEF FailCommit, CommitFails
<1>5. ~FailCommit(p) /\ root'[c] = NoTx => Closing(c)'
  BY <1>3 DEF FinishCommit, FinishRollback, FailRollback, AfterRollback, StaysIn
<1> QED BY <1>1, <1>2, <1>4, <1>5

(* Every other step of a task leaves the roots, or begins one.               *)
LEMMA RootsKept ==
    ASSUME Begun, NEW p \in Tasks, Step(p), NEW c \in Conns,
           ~(FinishCommit(p) \/ FailCommit(p) \/ FinishRollback(p) \/ FailRollback(p)),
           ~(FinishClose(p) \/ FailClose(p))
    PROVE  /\ root'[c] = root[c] \/ (root[c] = NoTx /\ root'[c] \in Txs)
           /\ conn'[c] = conn[c] \/ (conn[c] = "open" /\ conn'[c] = "lost")
              \/ root'[c] \in Txs \/ Closing(c)'
<1>0. SessionTypeOK
  BY DEF Begun, TypeInv, TypeOK
<1>1. CASE FinishConnect(p)
  <2> PICK d \in Conns, t \in Txs : Connect(d) /\ BeginRoot(d, t)
    BY <1>1 DEF FinishConnect
  <2>1. Begins(d, t) /\ root'[d] = t /\ root[d] = NoTx
    BY <1>0, BeginsOps DEF BeginRoot
  <2> QED BY <2>1 DEF Begins
<1>2. CASE BeginFails(p)
  <2> PICK d \in Conns : Connect(d) /\ Suspend(p, "close", [Nothing EXCEPT !.conn = d]) /\ UNCHANGED root
    BY <1>2 DEF BeginFails
  <2>1. /\ \A e \in Conns \ {d} : conn'[e] = conn[e]
        /\ pc'[p] = "close" /\ arg'[p].conn = d
    BY <1>0 DEF Connect, SessionTypeOK, Suspend, Begun, TypeInv, TypeOK, Nothing
  <2> QED BY <2>1 DEF Closing
<1>3. CASE BeginOnConnection(p)
  <2> PICK t \in Txs : BeginRoot(Current(p), t) /\ UNCHANGED conn
    BY <1>3 DEF BeginOnConnection
  <2> QED BY <1>0, CurrentType DEF BeginRoot, SessionTypeOK, Begun
<1>4. CASE FinishSavepoint(p)
  BY <1>4 DEF FinishSavepoint, BeginNested
<1>5. CASE FailSavepoint(p)
  BY <1>0, <1>5 DEF FailSavepoint, Drop, SessionTypeOK, session
<1>6. CASE \/ StartConnect(p) \/ StartSavepoint(p) \/ Commit(p) \/ Rollback(p) \/ Exit(p) \/ Close(p)
           \/ AfterCommit(p) \/ EndCallback(p) \/ Spawn(p) \/ FailConnect(p) \/ Invoke(p)
  <2>1. UNCHANGED session
    BY <1>6 DEF StartConnect, StartSavepoint, Commit, Rollback, Exit, Close, AfterCommit, EndCallback,
                CallbackReturns, CallbackRaises, Spawn, FailConnect, Invoke
  <2> QED BY <2>1 DEF session
<1> QED BY <1>1, <1>2, <1>3, <1>4, <1>5, <1>6 DEF Step, Begin, Continue

LEMMA HeldStep ==
    ASSUME Begun, HeldByTransaction, NEW p \in Tasks, Step(p) PROVE HeldByTransaction'
<1> SUFFICES ASSUME NEW c \in Conns, conn'[c] = "open", root'[c] = NoTx PROVE Closing(c)'
  BY DEF HeldByTransaction, Closing
<1>0. NoTx \notin Txs
  BY SessionAssumption
<1>1. ASSUME root[c] = NoTx, conn[c] = "open" PROVE Closing(c)'
  <2>1. Closing(c)
    BY <1>1 DEF HeldByTransaction, Closing
  <2>2. ~(arg[p].conn = c /\ (FinishClose(p) \/ FailClose(p)))
    BY ClosesConn
  <2> QED BY <2>1, <2>2, ClosingStays
<1>2. CASE FinishCommit(p) \/ FailCommit(p) \/ FinishRollback(p) \/ FailRollback(p)
  <2> DEFINE d == home[arg[p].tx]
  <2>1. d \in Conns /\ Winds(d) /\ (root'[d] = NoTx /\ c = d => root[c] = NoTx \/ Closing(c)')
    <3>1. c = home[arg[p].tx] => (root'[c] = NoTx => root[c] = NoTx \/ Closing(c)')
      BY <1>2, EndsReleased
    <3>2. d \in Conns /\ Winds(d)
      BY <1>2, EndsReleased
    <3> QED BY <3>1, <3>2
  <2>2. conn[c] = "open"
    BY <2>1 DEF Winds
  <2>3. c # d => root[c] = NoTx
    BY <2>1 DEF Winds
  <2> QED BY <1>1, <2>1, <2>2, <2>3
<1>3. CASE FinishClose(p) \/ FailClose(p)
  <2>1. c # arg[p].conn
    BY <1>3, ClosesConn
  <2>2. root[c] = NoTx /\ conn[c] = "open"
    BY <1>3, <2>1, ClosesConn DEF Winds
  <2> QED BY <1>1, <2>2
<1>4. CASE ~(FinishCommit(p) \/ FailCommit(p) \/ FinishRollback(p) \/ FailRollback(p))
           /\ ~(FinishClose(p) \/ FailClose(p))
  BY <1>0, <1>1, <1>4, RootsKept
<1> QED BY <1>2, <1>3, <1>4

(* An open connection is held by a transaction or is being closed, however   *)
(* statements fail and whichever task shares it: no error path leaks one.    *)
THEOREM ConnectionsHeld == Spec => []HeldByTransaction
<1>1. Init => Begun /\ HeldByTransaction
  BY InitBegun DEF Init, SessionInit, HeldByTransaction
<1>2. Begun /\ HeldByTransaction /\ [Next]_vars => Begun' /\ HeldByTransaction'
  <2>1. Begun /\ HeldByTransaction /\ Next => Begun' /\ HeldByTransaction'
    BY BegunStep, HeldStep DEF Next
  <2>2. Begun /\ HeldByTransaction /\ UNCHANGED vars => Begun' /\ HeldByTransaction'
    BY BegunStays DEF vars, session, tasks, HeldByTransaction
  <2> QED BY <2>1, <2>2
<1> QED BY <1>1, <1>2, PTL DEF Spec

-----------------------------------------------------------------------------
(* An open connection is in the context of a task that does not wait.        *)
Owned == \A c \in Conns : conn[c] = "open" => \E q \in live : ctx[q] = c /\ pc[q] # "connect"

LEMMA Connects ==
    ASSUME Begun, NEW p \in Tasks, Step(p), NEW c \in Conns, conn'[c] = "open", conn[c] # "open"
    PROVE  pc[p] = "connect" /\ ctx'[p] = c /\ pc'[p] # "connect"
<1>0. SessionTypeOK
  BY DEF Begun, TypeInv, TypeOK
<1>1. CASE FinishConnect(p) \/ BeginFails(p)
  <2>1. PICK d \in Conns : Connect(d) /\ ctx' = [ctx EXCEPT ![p] = d]
    BY <1>1 DEF FinishConnect, BeginFails
  <2>2. d = c /\ ctx'[p] = d
    BY <1>0, <2>1 DEF Connect, SessionTypeOK, Begun, TypeInv, TypeOK
  <2>3. pc'[p] \in {"idle", "close"} /\ pc[p] = "connect"
    BY <1>1 DEF FinishConnect, BeginFails, Resume, Suspend, Begun, TypeInv, TypeOK
  <2> QED BY <2>2, <2>3
<1>2. CASE FinishCommit(p) \/ FailCommit(p) \/ FinishRollback(p) \/ FailRollback(p)
  <2>1. \E d \in Conns : Winds(d)
    BY <1>2, EndsReleased
  <2> QED BY <2>1 DEF Winds
<1>3. CASE FinishClose(p) \/ FailClose(p)
  BY <1>3, ClosesConn DEF Winds
<1>4. CASE BeginOnConnection(p) \/ FinishSavepoint(p)
  BY <1>4 DEF BeginOnConnection, FinishSavepoint, BeginNested
<1>5. CASE FailSavepoint(p)
  BY <1>0, <1>5 DEF FailSavepoint, Drop, SessionTypeOK, session
<1>6. CASE \/ StartConnect(p) \/ StartSavepoint(p) \/ Commit(p) \/ Rollback(p) \/ Exit(p) \/ Close(p)
           \/ AfterCommit(p) \/ EndCallback(p) \/ Spawn(p) \/ FailConnect(p) \/ Invoke(p)
  <2>1. UNCHANGED session
    BY <1>6 DEF StartConnect, StartSavepoint, Commit, Rollback, Exit, Close, AfterCommit, EndCallback,
                CallbackReturns, CallbackRaises, Spawn, FailConnect, Invoke
  <2> QED BY <2>1 DEF session
<1> QED BY <1>1, <1>2, <1>3, <1>4, <1>5, <1>6 DEF Step, Begin, Continue

(* Only closing its connection, or waiting for one, changes a task's context.*)
LEMMA ContextKept ==
    ASSUME Begun, NEW p \in Tasks, Step(p), pc[p] # "connect"
    PROVE  /\ ctx'[p] = ctx[p] \/ (FailClose(p) /\ ctx[p] = arg[p].conn /\ ctx'[p] = NoConn)
           /\ pc'[p] = "connect" => Current(p) = NoConn
<1>a. \A where, a : Suspend(p, where, a) => pc'[p] = where
  BY DEF Suspend, Begun, TypeInv, TypeOK
<1>b. \A batch : Execute(p, batch) => pc'[p] # "connect"
  BY <1>a DEF Execute, Resume
<1>1. CASE StartConnect(p)
  BY <1>1 DEF StartConnect
<1>2. CASE FailClose(p)
  BY <1>a, <1>2 DEF FailClose, Resume, Begun, TypeInv, TypeOK
<1>3. CASE BeginOnConnection(p) \/ StartSavepoint(p) \/ FinishSavepoint(p) \/ FailSavepoint(p)
  BY <1>a, <1>3 DEF BeginOnConnection, StartSavepoint, FinishSavepoint, FailSavepoint, Resume
<1>4. CASE Commit(p) \/ Rollback(p)
  BY <1>a, <1>4 DEF Commit, Rollback, End
<1>5. CASE FinishCommit(p) \/ FailCommit(p)
  BY <1>a, <1>b, <1>5 DEF FinishCommit, FailCommit, Release, Resume
<1>6. CASE FinishRollback(p) \/ FailRollback(p)
  BY <1>a, <1>6 DEF FinishRollback, FailRollback, AfterRollback, Release, Resume
<1>7. CASE Exit(p)
  BY <1>a, <1>7 DEF Exit, End, Release
<1>8. CASE Close(p) \/ FinishClose(p)
  BY <1>a, <1>b, <1>8 DEF Close, FinishClose, Release
<1>9. CASE AfterCommit(p) \/ Invoke(p) \/ EndCallback(p)
  BY <1>a, <1>9 DEF AfterCommit, Invoke, EndCallback, CallbackReturns, CallbackRaises, tasks
<1>10. CASE Spawn(p)
  BY <1>10 DEF Spawn, Idle, Begun, TypeInv, TypeOK
<1> QED BY <1>1, <1>2, <1>3, <1>4, <1>5, <1>6, <1>7, <1>8, <1>9, <1>10
        DEF Step, Begin, Continue, FinishConnect, BeginFails, FailConnect

LEMMA OwnedStep == ASSUME Begun, Owned, NEW p \in Tasks, Step(p) PROVE Owned'
<1> SUFFICES ASSUME NEW c \in Conns, conn'[c] = "open"
             PROVE  \E q \in live' : ctx'[q] = c /\ pc'[q] # "connect"
  BY DEF Owned
<1>0. p \in live /\ live \subseteq live'
  BY LiveStep DEF Begun
<1>1. CASE conn[c] # "open"
  BY <1>0, <1>1, Connects
<1>2. CASE conn[c] = "open"
  <2> PICK q \in live : ctx[q] = c /\ pc[q] # "connect"
    BY <1>2 DEF Owned
  <2>0. q \in Tasks
    BY DEF Begun, TypeInv, TypeOK
  <2>1. CASE q # p
    <3>1. ctx'[q] = ctx[q]
      BY <2>0, <2>1, OthersStay DEF Spawn, Begun, TypeInv, TypeOK
    <3>2. pc'[q] = pc[q]
      BY <2>0, <2>1, OthersStay DEF Others, Begun
    <3> QED BY <1>0, <3>1, <3>2
  <2>2. CASE q = p
    <3>1. ctx'[p] = c
      BY <2>2, ContextKept, ClosesConn
    <3>2. Current(p) = c
      BY <1>2, <2>2, SessionAssumption DEF Current
    <3>3. pc'[p] # "connect"
      BY <2>2, <3>2, ContextKept, SessionAssumption
    <3> QED BY <1>0, <3>1, <3>3
  <2> QED BY <2>1, <2>2
<1> QED BY <1>1, <1>2

(* A task that waits for a connection owns none: it never waits for itself,  *)
(* whatever the pool's size and however many tasks there are.                *)
THEOREM NoTaskBlocksItself == Spec => []NoSelfWait
<1>1. Init => Begun /\ Owned
  BY InitBegun DEF Init, SessionInit, Owned
<1>2. Begun /\ Owned /\ [Next]_vars => Begun' /\ Owned'
  <2>1. Begun /\ Owned /\ Next => Begun' /\ Owned'
    BY BegunStep, OwnedStep DEF Next
  <2>2. Begun /\ Owned /\ UNCHANGED vars => Begun' /\ Owned'
    BY BegunStays DEF vars, session, tasks, Owned
  <2> QED BY <2>1, <2>2
<1>3. Owned => NoSelfWait
  BY DEF Owned, NoSelfWait
<1> QED BY <1>1, <1>2, <1>3, PTL DEF Spec

-----------------------------------------------------------------------------
(* No task is created inside a transaction: connections are not shared.      *)
Apart == \A p, q \in Tasks, c \in Conns : Names(p, c) /\ Names(q, c) /\ conn[c] # "closed" => p = q

LEMMA ApartStep == ASSUME ~Inherit, Begun, Begun', Apart, NEW p \in Tasks, Step(p) PROVE Apart'
<1>0. Keeps /\ Gains(p) /\ Others(p)
  BY KeepsStep, GainsStep, OthersStay DEF Begun
<1>1. ASSUME NEW c \in Conns, Names(p, c)' PROVE Names(p, c) \/ conn[c] = "free"
  <2>1. CASE ctx'[p] = c \/ arg'[p].conn = c
    BY <1>0, <2>1 DEF Gains
  <2>2. CASE \E t \in Txs : Object(p, t)' /\ home'[t] = c
    BY <1>0, <2>2 DEF Gains
  <2> QED BY <1>1, <2>1, <2>2 DEF Names
<1>2. ASSUME NEW c \in Conns, NEW q \in Tasks \ {p}, Names(q, c)', conn[c] # "closed" PROVE Names(q, c)
  <2>1. arg'[q] = arg[q] /\ \A t \in Txs : Object(q, t)' => Object(q, t)
    BY <1>0 DEF Others, Object, Stacked
  <2>2. \A t \in Txs : Object(q, t) => home'[t] = home[t]
    BY <1>0 DEF Keeps, Begun, Named
  <2>3. ctx'[q] = c => ctx[q] = c
    <3>1. CASE Spawn(p)
      <4> PICK r \in Tasks \ live, d \in {ctx[p], NoConn} :
             /\ d # NoConn => Inherit \/ Current(p) = NoConn
             /\ ctx' = [ctx EXCEPT ![r] = d]
        BY <3>1 DEF Spawn
      <4>1. d = c => conn[c] = "closed"
        BY SessionAssumption DEF Current
      <4> QED BY <1>2, <4>1 DEF Begun, TypeInv, TypeOK
    <3> QED BY <3>1, OthersStay DEF Begun
  <2> QED BY <1>2, <2>1, <2>2, <2>3 DEF Names
<1>3. ASSUME NEW q \in Tasks, NEW r \in Tasks, NEW c \in Conns, Names(q, c)', Names(r, c)', conn'[c] # "closed"
      PROVE  q = r
  <2>1. conn[c] # "closed"
    BY <1>0, <1>3 DEF Keeps
  <2>2. \A s \in Tasks : Names(s, c) => conn[c] # "free"
    BY DEF Begun, Named
  <2> QED BY <1>1, <1>2, <1>3, <2>1, <2>2 DEF Apart
<1> QED BY <1>3 DEF Apart

(* A record is new with its transaction, on a connection the task names.     *)
LEMMA RecordsNew ==
    ASSUME Begun, NEW p \in Tasks, Step(p), NEW t \in recorded', t \notin recorded
    PROVE  /\ t \in Txs /\ home'[t] \in Conns /\ pc'[p] = "idle"
           /\ conn[home'[t]] = "free" \/ (Names(p, home'[t]) /\ conn[home'[t]] # "closed" /\ pc[p] # "close")
           /\ root'[home'[t]] \in Txs /\ root'[home'[t]] <= t
<1>b. \A c, u, parent : ManagerBegin(c, u, parent) => recorded' \subseteq recorded \cup {u}
  BY DEF ManagerBegin, Keep
<1>c. SessionTypeOK /\ \A u \in Txs : u \in Nat /\ u # NoTx
  BY SessionAssumption DEF Begun, TypeInv, TypeOK
<1>1. CASE FinishConnect(p)
  <2> PICK c \in Conns, u \in Txs : Connect(c) /\ BeginRoot(c, u) /\ ManagerBegin(c, u, NoTx)
    BY <1>1 DEF FinishConnect
  <2>1. Begins(c, u) /\ conn[c] = "free" /\ root'[c] = u /\ t = u
    BY <1>b, <1>c, BeginsOps
  <2>2. pc'[p] = "idle"
    BY <1>1 DEF FinishConnect, Resume, Suspend, Begun, TypeInv, TypeOK
  <2> QED BY <1>c, <2>1, <2>2 DEF Begins
<1>2. CASE BeginOnConnection(p)
  <2>1. Current(p) \in Conns /\ Names(p, Current(p)) /\ conn[Current(p)] \notin {"free", "closed"}
    BY <1>2, Works, SessionAssumption DEF BeginOnConnection, Named, Begun, Current
  <2> PICK u \in Txs : BeginRoot(Current(p), u) /\ UNCHANGED conn /\ ManagerBegin(Current(p), u, NoTx)
    BY <1>2 DEF BeginOnConnection
  <2>2. Begins(Current(p), u) /\ root'[Current(p)] = u /\ t = u
    BY <1>b, <1>c, <2>1, BeginsOps
  <2>3. pc'[p] = "idle" /\ pc[p] = "idle"
    BY <1>2 DEF BeginOnConnection, Idle
  <2> QED BY <1>c, <2>1, <2>2, <2>3 DEF Begins
<1>3. CASE FinishSavepoint(p)
  <2> DEFINE c == arg[p].conn
  <2>1. c \in Conns /\ Names(p, c) /\ pc[p] = "savepoint"
    BY <1>3, Works DEF FinishSavepoint, Begun
  <2> PICK u \in Txs : BeginNested(c, u) /\ ManagerBegin(c, u, arg[p].tx)
    BY <1>3 DEF FinishSavepoint
  <2>2. Begins(c, u) /\ UNCHANGED root /\ t = u
    BY <1>b, <1>c, <2>1, BeginsOps
  <2>3. conn[c] = "open" /\ root[c] # NoTx
    BY DEF BeginNested, Usable, InTransaction
  <2>4. root[c] \in Txs /\ home[root[c]] = c /\ c # NoConn
    <3> HIDE DEF c
    <3>1. root[c] \in Txs /\ c # NoConn
      BY <1>c, <2>1, <2>3, SessionAssumption DEF SessionTypeOK
    <3> QED BY <2>1, <2>3, <3>1 DEF Begun, Placed
  <2>5. root[c] < u
    BY <2>2, <2>4 DEF Begins, Begun, Placed
  <2>6. pc'[p] = "idle"
    BY <1>3 DEF FinishSavepoint, Resume, Suspend, Begun, TypeInv, TypeOK
  <2> HIDE DEF c
  <2> QED BY <1>c, <2>1, <2>2, <2>3, <2>4, <2>5, <2>6 DEF Begins
<1>4. CASE \/ FinishCommit(p) \/ FailCommit(p) \/ FinishRollback(p) \/ FailRollback(p)
           \/ Exit(p) \/ Close(p) \/ BeginFails(p)
  BY <1>4 DEF FinishCommit, FailCommit, FinishRollback, FailRollback, AfterRollback, Exit, Close, BeginFails,
              ManagerCommit, ManagerRollback, ManagerForget, Keep, registry
<1>5. CASE \/ StartConnect(p) \/ StartSavepoint(p) \/ Commit(p) \/ Rollback(p) \/ AfterCommit(p)
           \/ EndCallback(p) \/ Spawn(p) \/ FailConnect(p) \/ FailSavepoint(p) \/ FinishClose(p)
           \/ FailClose(p) \/ Invoke(p)
  BY <1>5 DEF StartConnect, StartSavepoint, Commit, Rollback, AfterCommit, EndCallback, CallbackReturns,
              CallbackRaises, Spawn, FailConnect, FailSavepoint, FinishClose, FailClose, Invoke, registry
<1> QED BY <1>1, <1>2, <1>3, <1>4, <1>5 DEF Step, Begin, Continue

(* Whoever starts to close a connection has forgotten its records.           *)
LEMMA CloseForgets ==
    ASSUME Begun, NEW p \in Tasks, Step(p), pc'[p] = "close", NEW t \in recorded'
    PROVE  t \in recorded /\ home[t] # arg'[p].conn
<1>a. \A where, a : Suspend(p, where, a) => pc'[p] = where /\ arg'[p] = a
  BY DEF Suspend, Begun, TypeInv, TypeOK
<1>b. \A batch : Execute(p, batch) => pc'[p] \in {"idle", "callbacks"}
  BY <1>a DEF Execute, Resume
<1>c. \A c, batch : Release(p, c, batch) => arg'[p].conn = c
  BY <1>a DEF Release
<1>d. \A c : ManagerForget(c) => t \in recorded /\ t \notin OnConn(c)
  BY DEF ManagerForget, Keep
<1>e. \A c : t \in recorded /\ t \notin OnConn(c) => home[t] # c
  BY DEF OnConn, Begun, TypeInv, TypeOK
<1>1. CASE BeginFails(p)
  <2> PICK c \in Conns : ManagerForget(c) /\ Suspend(p, "close", [Nothing EXCEPT !.conn = c])
    BY <1>1 DEF BeginFails
  <2>1. arg'[p].conn = c
    BY <1>a DEF Nothing
  <2> QED BY <1>d, <1>e, <2>1
<1>2. CASE FinishCommit(p)
  <2> DEFINE c == home[arg[p].tx]
  <2>1. ~StaysIn(c) /\ arg'[p].conn = c
    BY <1>b, <1>c, <1>2 DEF FinishCommit
  <2>2. ManagerCommit(c, arg[p].tx, ~StaysIn(c))
    BY <1>2 DEF FinishCommit
  <2>3. t \in recorded /\ t \notin OnConn(c)
    BY <2>1, <2>2 DEF ManagerCommit
  <2> QED BY <1>e, <2>1, <2>3
<1>3. CASE FinishRollback(p) \/ FailRollback(p)
  <2> DEFINE c == home[arg[p].tx]
  <2>0. AfterRollback(p, arg[p].tx)
    BY <1>3 DEF FinishRollback, FailRollback
  <2>1. ~StaysIn(c) /\ arg'[p].conn = c
    BY <1>a, <1>c, <2>0 DEF AfterRollback, Resume
  <2>2. ManagerRollback(c, arg[p].tx, ~StaysIn(c))
    BY <2>0 DEF AfterRollback
  <2>3. t \in recorded /\ t \notin OnConn(c)
    BY <2>1, <2>2 DEF ManagerRollback, Keep
  <2> QED BY <1>e, <2>1, <2>3
<1>4. CASE Exit(p)
  <2> PICK u \in entered[p] \ Outer(p) :
         \/ End(p, u, "commit") \/ End(p, u, "rollback")
         \/ UNCHANGED pc
         \/ ManagerForget(home[u]) /\ Release(p, home[u], {})
    BY <1>4 DEF Exit
  <2>1. pc[p] = "idle"
    BY <1>4 DEF Exit, Idle
  <2>2. ManagerForget(home[u]) /\ Release(p, home[u], {})
    BY <1>a, <2>1 DEF End
  <2> QED BY <1>c, <1>d, <1>e, <2>2
<1>5. CASE Close(p)
  BY <1>c, <1>d, <1>e, <1>5 DEF Close
<1>6. CASE StartConnect(p) \/ FinishConnect(p) \/ FailConnect(p) \/ StartSavepoint(p)
           \/ FinishSavepoint(p) \/ FailSavepoint(p)
  BY <1>a, <1>6 DEF StartConnect, FinishConnect, FailConnect, StartSavepoint, FinishSavepoint, FailSavepoint, Resume
<1>7. CASE Commit(p) \/ Rollback(p)
  <2> PICK u \in Given(p), how \in {"commit", "rollback"} : End(p, u, how)
    BY <1>7 DEF Commit, Rollback
  <2>1. pc'[p] = how
    BY <1>a DEF End
  <2> QED BY <2>1
<1>8. CASE FailCommit(p) \/ FinishClose(p) \/ FailClose(p) \/ Invoke(p)
  <2>1. pc'[p] \in {"idle", "callbacks"}
    BY <1>a, <1>b, <1>8 DEF FailCommit, FinishClose, FailClose, Invoke, Resume
  <2> QED BY <2>1
<1>9. CASE BeginOnConnection(p) \/ AfterCommit(p) \/ Spawn(p) \/ EndCallback(p)
  BY <1>a, <1>9 DEF BeginOnConnection, AfterCommit, Spawn, EndCallback, CallbackReturns, CallbackRaises,
                   InCallback, Idle, tasks
<1> QED BY <1>1, <1>2, <1>3, <1>4, <1>5, <1>6, <1>7, <1>8, <1>9 DEF Step, Begin, Continue

CloseClean == \A t \in recorded : ~Closing(home[t])

LEMMA CloseCleanStep ==
    ASSUME Begun, Apart, CloseClean, NEW p \in Tasks, Step(p) PROVE CloseClean'
<1> SUFFICES ASSUME NEW t \in recorded', NEW q \in Tasks, pc'[q] = "close", arg'[q].conn = home'[t]
             PROVE  FALSE
  BY DEF CloseClean, Closing
<1>0. t \in Txs /\ (t \in recorded => home'[t] = home[t])
  BY TypeInvStep, KeepsStep DEF Begun, TypeInv, TypeOK, Next, Keeps, Named
<1>1. CASE q = p
  BY <1>0, <1>1, CloseForgets
<1>2. CASE q # p
  <2>1. pc[q] = "close" /\ arg[q].conn = home'[t]
    BY <1>2, OthersStay DEF Begun, Others
  <2>2. CASE t \in recorded
    BY <1>0, <2>1, <2>2 DEF CloseClean, Closing
  <2>3. CASE t \notin recorded
    <3>1. home'[t] \in Conns /\ Names(q, home'[t])
      BY <2>1, <2>3, RecordsNew DEF Names
    <3>2. conn[home'[t]] # "free"
      BY <3>1 DEF Begun, Named
    <3> QED BY <1>2, <2>3, <3>1, <3>2, RecordsNew DEF Apart
  <2> QED BY <2>2, <2>3
<1> QED BY <1>1, <1>2

LEMMA SurvivorsStep ==
    ASSUME Begun, Apart, CloseClean, NoSurvivors, NEW p \in Tasks, Step(p)
    PROVE  NoSurvivors'
<1> SUFFICES ASSUME NEW t \in recorded' PROVE root'[home'[t]] # NoTx /\ root'[home'[t]] <= t
  BY DEF NoSurvivors
<1>0. NoTx \notin Txs
  BY SessionAssumption
<1>1. CASE t \notin recorded
  BY <1>0, <1>1, RecordsNew
<1>2. CASE t \in recorded
  <2> PICK c \in Conns : c = home[t]
    BY <1>2 DEF Begun, TypeInv, TypeOK, SessionTypeOK, Named
  <2>0. home'[t] = c
    BY <1>2, KeepsStep DEF Begun, TypeInv, TypeOK, Keeps, Named
  <2>1. root[c] # NoTx /\ root[c] <= t /\ ~Closing(c)
    BY <1>2 DEF NoSurvivors, CloseClean
  <2>2. ~Closing(c)'
    BY <2>0, CloseCleanStep DEF CloseClean, Closing
  <2>3. root'[c] = root[c]
    <3>1. CASE FinishCommit(p) \/ FailCommit(p) \/ FinishRollback(p) \/ FailRollback(p)
      <4> PICK d : d = home[arg[p].tx]
        OBVIOUS
      <4>1. d \in Conns /\ Winds(d)
        BY <3>1, EndsReleased
      <4>2. c = d /\ root'[c] = NoTx => root[c] = NoTx \/ Closing(c)'
        BY <3>1, EndsReleased
      <4> QED BY <2>0, <2>1, <2>2, <4>1, <4>2 DEF Winds
    <3>2. CASE FinishClose(p) \/ FailClose(p)
      <4>1. pc[p] = "close" /\ arg[p].conn # c
        BY <2>1, <3>2 DEF FinishClose, FailClose, Closing
      <4> QED BY <2>0, <3>2, <4>1, ClosesConn DEF Winds
    <3> QED BY <2>0, <2>1, <3>1, <3>2, RootsKept
  <2> QED BY <2>0, <2>1, <2>3
<1> QED BY <1>1, <1>2

AloneInv == Begun /\ Apart /\ CloseClean /\ NoSurvivors

LEMMA AloneStep == ASSUME ~Inherit, AloneInv, [Next]_vars PROVE AloneInv'
<1>1. ASSUME NEW p \in Tasks, Step(p) PROVE AloneInv'
  BY <1>1, BegunStep, ApartStep, CloseCleanStep, SurvivorsStep DEF AloneInv
<1>2. ASSUME UNCHANGED vars PROVE AloneInv'
  <2>1. UNCHANGED <<conn, home, root, pc, arg, ctx, entered, frames, recorded>>
    BY <1>2 DEF vars, session, tasks, registry
  <2>2. \A p \in Tasks, c \in Conns : Names(p, c)' => Names(p, c)
    BY <2>1 DEF Names, Object, Stacked
  <2>3. Apart'
    BY <2>1, <2>2 DEF Apart, AloneInv
  <2>4. CloseClean' /\ NoSurvivors'
    BY <2>1 DEF CloseClean, Closing, NoSurvivors, AloneInv
  <2> QED BY <1>2, <2>3, <2>4, BegunStays DEF AloneInv
<1> QED BY <1>1, <1>2 DEF Next

LEMMA InitAlone == Init => AloneInv
<1> SUFFICES ASSUME Init PROVE AloneInv
  OBVIOUS
<1>1. \A p \in Tasks, c \in Conns : ~Names(p, c)
  BY SessionAssumption DEF Init, Names, Object, Stacked, Nothing
<1> QED BY <1>1, InitBegun DEF Init, AloneInv, Apart, CloseClean, NoSurvivors

(* Where no task is created inside a transaction, a record belongs to the    *)
(* root its connection is in: nothing queued survives into a later one.      *)
THEOREM RecordsDieWithTheirRoot == ASSUME ~Inherit PROVE Spec => []NoSurvivors
<1>1. AloneInv /\ [Next]_vars => AloneInv'
  BY AloneStep
<1>2. AloneInv => NoSurvivors
  BY DEF AloneInv
<1> QED BY <1>1, <1>2, InitAlone, PTL DEF Spec
===============================================================================
