----------------------------- MODULE AfterCommit -----------------------------
(***************************************************************************)
(* What ADR 006 promises of after-commit callbacks, without savepoints,    *)
(* records or awaits: every connection has one queue; the outermost commit *)
(* takes the whole queue as one batch; a batch runs in registration order  *)
(* and each callback once; what a rollback, a close or an error drops is   *)
(* never run.                                                              *)
(***************************************************************************)
EXTENDS Naturals

CONSTANTS Conns, Callbacks

VARIABLES
    seen,       \* callbacks that were registered
    queued,     \* the queue of each connection
    due,        \* batches of committed transactions, not yet finished
    ran

vars == <<seen, queued, due, ran>>

Init ==
    /\ seen = {}
    /\ queued = [c \in Conns |-> {}]
    /\ due = {}
    /\ ran = {}

\* Outside a transaction the callback is invoked at once and never queued.
Register(k) ==
    /\ k \notin seen
    /\ seen' = seen \cup {k}
    /\ \/ UNCHANGED queued
       \/ \E c \in Conns : queued' = [queued EXCEPT ![c] = @ \cup {k}]
    /\ UNCHANGED <<due, ran>>

Commit(c) ==
    /\ queued[c] # {}
    /\ due' = due \cup {queued[c]}
    /\ queued' = [queued EXCEPT ![c] = {}]
    /\ UNCHANGED <<seen, ran>>

Discard(c) ==
    /\ \E D \in SUBSET queued[c] : queued' = [queued EXCEPT ![c] = @ \ D]
    /\ UNCHANGED <<seen, due, ran>>

Run(batch) == \E k \in batch :
    /\ \A j \in batch : k <= j
    /\ ran' = ran \cup {k}
    /\ due' = (due \ {batch}) \cup ({batch \ {k}} \ {{}})
    /\ UNCHANGED <<seen, queued>>

\* A callback raised, or the connection could not be released.
Skip(batch) ==
    /\ due' = due \ {batch}
    /\ UNCHANGED <<seen, queued, ran>>

Next ==
    \/ \E k \in Callbacks : Register(k)
    \/ \E c \in Conns : Commit(c) \/ Discard(c)
    \/ \E batch \in due : Run(batch) \/ Skip(batch)

Spec == Init /\ [][Next]_vars
=============================================================================
