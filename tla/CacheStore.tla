------------------------------ MODULE CacheStore ------------------------------
(***************************************************************************)
(* One key of a cache: get, remember, put, forget and flush of a           *)
(* Repository on each of the stores, by tasks of one or more processes.    *)
(*                                                                         *)
(* A store other than array leaves the event loop for every statement it   *)
(* sends or file it touches.  Reading an entry that has expired, or that   *)
(* cannot be unpickled, deletes it in a statement of its own.              *)
(***************************************************************************)
EXTENDS Integers

CONSTANTS
    Tasks,
    Drivers,    \* the stores: "array", "file", "redis", "database"
    Ttl,        \* the seconds a put may give
    MaxClock,   \* bound of the clock
    MaxValues   \* bound of the values that are computed

ASSUME CacheStoreAssumption ==
    /\ Drivers \subseteq {"array", "file", "redis", "database"}
    /\ Ttl \in Nat \ {0} /\ MaxClock \in Nat /\ MaxValues \in Nat

Never == 0
Unreadable == 0
NoRow == [val |-> -1, until |-> Never]
Idle == [at |-> "idle", miss |-> "idle", val |-> -1, ttl |-> Never, until |-> Never]

VARIABLES
    driver,     \* the store that is used: chosen once
    clock,
    row,    \* what the store holds under the key, expired or not
    op,     \* where a task is in its operation, and what it writes
    values, \* the values computed so far: 1 .. values
    past    \* history: what the row held and holds no more

vars == <<driver, clock, row, op, values, past>>

Ats == {"idle", "read", "drop", "factory", "update", "insert", "conflict", "write", "forget"}

TypeOK ==
    /\ driver \in Drivers /\ clock \in Nat /\ values \in Nat /\ past \subseteq Nat
    /\ row \in [val : Nat \cup {-1}, until : Nat]
    /\ op \in [Tasks -> [at : Ats, miss : {"idle", "factory"}, val : Nat \cup {-1}, ttl : Nat, until : Nat]]

Init ==
    /\ driver \in Drivers /\ clock = 1 /\ values = 0 /\ past = {}
    \* What array holds was never pickled.
    /\ row \in {NoRow, [val |-> Unreadable, until |-> Never]} /\ (driver = "array" => row = NoRow)
    /\ op = [p \in Tasks |-> Idle]
-----------------------------------------------------------------------------
Expired(r) == r.until # Never /\ r.until <= clock
Live(r) == r # NoRow /\ ~Expired(r)

\* On the array store nothing happens between the steps of an operation.
Runs(p) == driver = "array" => \A q \in Tasks \ {p} : op[q].at \in {"idle", "factory"}

At(p, where) == Runs(p) /\ op[p].at = where
Go(p, where) == op' = [op EXCEPT ![p].at = where]
Done(p) == op' = [op EXCEPT ![p] = Idle]
Missed(p) == IF op[p].miss = "factory" THEN Go(p, "factory") ELSE Done(p)

\* Repository.get() and has(), or fetch() of remember().
Get(p) ==
    /\ At(p, "idle")
    /\ \E miss \in {"idle", "factory"} : op' = [op EXCEPT ![p] = [Idle EXCEPT !.at = "read", !.miss = miss]]
    /\ UNCHANGED <<clock, row, values>>

\* redis drops an expired entry itself.
Read(p) ==
    /\ At(p, "read")
    /\ CASE row = NoRow \/ (driver = "redis" /\ Expired(row)) -> Missed(p)
         [] Live(row) /\ row.val # Unreadable -> Done(p)
         [] OTHER -> Go(p, "drop")
    /\ UNCHANGED <<clock, row, values>>

\* The entry that was read is forgotten: by its key.
Drop(p) == At(p, "drop") /\ row' = NoRow /\ Missed(p) /\ UNCHANGED <<clock, values>>

\* put() computes the expiration before it sends anything; zero seconds forget.
Store(p, ttl) ==
    /\ values < MaxValues
    /\ values' = values + 1
    /\ op' = [op EXCEPT ![p] = [Idle EXCEPT !.at = IF driver = "database" THEN "update" ELSE "write",
                                            !.val = values', !.ttl = ttl,
                                            !.until = IF ttl = Never THEN Never ELSE clock + ttl]]

Put(p) == At(p, "idle") /\ (\E ttl \in {Never, Ttl} : Store(p, ttl)) /\ UNCHANGED <<clock, row>>

\* The factory of remember() returns a value, or raises.
Factory(p) ==
    /\ At(p, "factory")
    /\ (\E ttl \in {Never, Ttl} : Store(p, ttl)) \/ (Done(p) /\ UNCHANGED values)
    /\ UNCHANGED <<clock, row>>

\* os.replace(), SET PX (which counts from now) or an assignment.
Write(p) ==
    /\ At(p, "write")
    /\ row' = [val |-> op[p].val,
               until |-> IF driver = "redis" /\ op[p].ttl # Never THEN clock + op[p].ttl ELSE op[p].until]
    /\ Done(p)
    /\ UNCHANGED <<clock, values>>

\* Bug: the INSERT is sent whatever the UPDATE answered.
UpdateOnly(p) ==
    /\ At(p, "update") \/ At(p, "conflict")
    /\ row' = IF row = NoRow THEN NoRow ELSE [val |-> op[p].val, until |-> op[p].until]
    /\ IF op[p].at = "update" THEN Go(p, "insert") ELSE Done(p)
    /\ UNCHANGED <<clock, values>>

\* The UPDATE of DatabaseStore.put(), before the INSERT or after its conflict.
Update(p) ==
    /\ At(p, "update") \/ At(p, "conflict")
    /\ row' = IF row = NoRow THEN NoRow ELSE [val |-> op[p].val, until |-> op[p].until]
    /\ IF row = NoRow /\ op[p].at = "update" THEN Go(p, "insert") ELSE Done(p)
    /\ UNCHANGED <<clock, values>>

Insert(p) ==
    /\ At(p, "insert")
    /\ IF row = NoRow THEN row' = [val |-> op[p].val, until |-> op[p].until] /\ Done(p)
                      ELSE UNCHANGED row /\ Go(p, "conflict")
    /\ UNCHANGED <<clock, values>>

\* forget(), flush(), or put() with no seconds left.
Forget(p) ==
    /\ At(p, "idle")
    /\ op' = [op EXCEPT ![p] = [Idle EXCEPT !.at = "forget"]]
    /\ UNCHANGED <<clock, row, values>>
Delete(p) == At(p, "forget") /\ row' = NoRow /\ Done(p) /\ UNCHANGED <<clock, values>>

Tick ==
    /\ clock < MaxClock /\ clock' = clock + 1
    /\ driver = "array" => \A q \in Tasks : op[q].at \in {"idle", "factory"}
    /\ UNCHANGED <<row, op, values>>

Step(p) == Get(p) \/ Read(p) \/ Drop(p) \/ Put(p) \/ Factory(p) \/ Write(p)
           \/ Update(p) \/ Insert(p) \/ Forget(p) \/ Delete(p)

Next == /\ Tick \/ \E p \in Tasks : Step(p)
        /\ UNCHANGED driver
        /\ past' = IF row' = row \/ row = NoRow THEN past ELSE past \cup {row.val}

Spec == Init /\ [][Next]_vars
-----------------------------------------------------------------------------
(* A value that was replaced, forgotten or dropped does not come back: the   *)
(* statements of a put write it at most once.                                *)
NeverBack == [][row' # row => row'.val \notin past]_vars

\* An entry goes that has not expired and that nobody forgets.
Lost == Live(row) /\ row.val # Unreadable /\ row' = NoRow /\ \A p \in Tasks : op[p].at # "forget" \/ ~Delete(p)

(* What was put stays until it expires, is replaced or is forgotten; in      *)
(* particular a reader of what was there before never deletes it.            *)
Kept == [][~Lost]_vars

(* So it is where reading an entry deletes none: in the array store, and in  *)
(* redis as long as no entry was one that cannot be unpickled.               *)
KeptAtOnce == [][Lost => driver \in {"file", "database"} \/ Unreadable \in past]_vars

(* No operation of another task undoes what a put or a forget has done       *)
(* (cache/repository.py 55-112, the four stores).                            *)
NothingUndone == NeverBack /\ KeptAtOnce
=============================================================================
