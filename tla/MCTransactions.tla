---------------------------- MODULE MCTransactions ----------------------------
(* Small instances of Transactions for TLC: one task alone, two tasks on one *)
(* inherited connection, or two tasks that each have their own.              *)
EXTENDS TransactionsProperties

CONSTANTS t1, t2
TwoTasks == {t1, t2}

VARIABLE setting
allvars == <<vars, setting>>

NextIn ==
    /\ Next /\ UNCHANGED setting
    /\ CASE setting = "alone" -> live' = live
         [] setting = "shared" -> conn'[2] = "free"
         [] setting = "own" -> \A q \in live' \ live : ctx'[q] = NoConn

InitAlone == setting = "alone" /\ Init
InitPair == setting \in {"shared", "own"} /\ Init
SpecAlone == InitAlone /\ [][NextIn]_allvars /\ Fairness
SpecPair == InitPair /\ [][NextIn]_allvars
=============================================================================
