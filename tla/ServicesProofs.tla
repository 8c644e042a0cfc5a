----------------------------- MODULE ServicesProofs -----------------------------
(* Proofs about the services around the database: the cache's stores, for any  *)
(* tasks and lifetimes, Reverb, for any sockets, channels and events, and the   *)
(* session that Inertia's pages are rendered from, for any pages and forms, the *)
(* commands that write new projects, for any number of them at a time, and the  *)
(* agents' recorded conversations, for any sessions, prompts and tools.         *)
EXTENDS CacheStore, Reverb, Inertia, Installer, AgentRecording, FiniteSetTheorems, TLAPS

Writing(p) == op[p].at \in {"update", "insert", "conflict", "write"}

(* The value of a put under way is its own, and not on the row before it is    *)
(* written.                                                                    *)
OwnValues ==
    /\ past \subseteq 0 .. values /\ row.val \in -1 .. values /\ (row.val = -1 => row = NoRow)
    /\ \A p \in Tasks : Writing(p) => op[p].val \in 1 .. values /\ op[p].val # row.val /\ op[p].val \notin past
    /\ \A p, q \in Tasks : Writing(p) /\ Writing(q) /\ op[p].val = op[q].val => p = q
(* What a task is about to drop: on the array store it is still there, and on  *)
(* redis it was one that cannot be unpickled.                                  *)
DropsOld ==
    /\ \A p, q \in Tasks : driver = "array" /\ op[p].at \notin {"idle", "factory"} /\ op[q].at \notin {"idle", "factory"} => p = q
    /\ \A p \in Tasks : op[p].at = "drop" =>
         /\ driver = "array" => row = NoRow \/ Expired(row) \/ row.val = Unreadable
         /\ driver = "redis" => row.val = Unreadable \/ Unreadable \in past
StoreInv == TypeOK /\ OwnValues /\ DropsOld

LEMMA StoreInit == Init => StoreInv
  BY CacheStoreAssumption DEF Init, StoreInv, TypeOK, OwnValues, DropsOld, Writing, Idle, NoRow, Never, Unreadable, Ats


(* The fields of a task's operation, by what the step makes of it.             *)
LEMMA Fields ==
    ASSUME TypeOK, NEW p \in Tasks
    PROVE  /\ \A w \in Ats : Go(p, w) =>
                /\ op' \in [Tasks -> [at : Ats, miss : {"idle", "factory"}, val : Nat \cup {-1}, ttl : Nat, until : Nat]]
                /\ op'[p].at = w /\ op'[p].val = op[p].val /\ \A q \in Tasks : q # p => op'[q] = op[q]
           /\ Done(p) =>
                /\ op' \in [Tasks -> [at : Ats, miss : {"idle", "factory"}, val : Nat \cup {-1}, ttl : Nat, until : Nat]]
                /\ op'[p].at = "idle" /\ \A q \in Tasks : q # p => op'[q] = op[q]
<1>1. \A w \in Ats : Go(p, w) =>
        /\ op' \in [Tasks -> [at : Ats, miss : {"idle", "factory"}, val : Nat \cup {-1}, ttl : Nat, until : Nat]]
        /\ op'[p].at = w /\ op'[p].val = op[p].val /\ \A q \in Tasks : q # p => op'[q] = op[q]
  BY DEF TypeOK, Go
<1>2. Done(p) =>
        /\ op' \in [Tasks -> [at : Ats, miss : {"idle", "factory"}, val : Nat \cup {-1}, ttl : Nat, until : Nat]]
        /\ op'[p].at = "idle" /\ \A q \in Tasks : q # p => op'[q] = op[q]
  BY DEF TypeOK, Done, Idle, Never, Ats
<1> QED BY <1>1, <1>2

(* A new operation of a task that puts.                                        *)
LEMMA Stored ==
    ASSUME TypeOK, NEW p \in Tasks, \E ttl \in {Never, Ttl} : Store(p, ttl)
    PROVE  /\ op' \in [Tasks -> [at : Ats, miss : {"idle", "factory"}, val : Nat \cup {-1}, ttl : Nat, until : Nat]]
           /\ values' = values + 1 /\ op'[p].at \in {"update", "write"} /\ op'[p].val = values + 1
           /\ \A q \in Tasks : q # p => op'[q] = op[q]
<1>1. PICK ttl \in {Never, Ttl} : Store(p, ttl) OBVIOUS
<1> DEFINE until == IF ttl = Never THEN Never ELSE clock + ttl
           at == IF driver = "database" THEN "update" ELSE "write"
           to == [Idle EXCEPT !.at = at, !.val = values', !.ttl = ttl, !.until = until]
<1>2. to = [at |-> at, miss |-> "idle", val |-> values', ttl |-> ttl, until |-> until]
  <2> HIDE DEF at, until
  <2>1. [Idle EXCEPT !.at = at] = [at |-> at, miss |-> "idle", val |-> -1, ttl |-> Never, until |-> Never] BY DEF Idle
  <2>2. [[at |-> at, miss |-> "idle", val |-> -1, ttl |-> Never, until |-> Never] EXCEPT !.val = values']
          = [at |-> at, miss |-> "idle", val |-> values', ttl |-> Never, until |-> Never] OBVIOUS
  <2>3. [[at |-> at, miss |-> "idle", val |-> values', ttl |-> Never, until |-> Never] EXCEPT !.ttl = ttl]
          = [at |-> at, miss |-> "idle", val |-> values', ttl |-> ttl, until |-> Never] OBVIOUS
  <2>4. [[at |-> at, miss |-> "idle", val |-> values', ttl |-> ttl, until |-> Never] EXCEPT !.until = until]
          = [at |-> at, miss |-> "idle", val |-> values', ttl |-> ttl, until |-> until] OBVIOUS
  <2> QED BY <2>1, <2>2, <2>3, <2>4
<1>3. op' = [op EXCEPT ![p] = to] /\ values' = values + 1 BY <1>1 DEF Store
<1>4. /\ to \in [at : Ats, miss : {"idle", "factory"}, val : Nat \cup {-1}, ttl : Nat, until : Nat]
      /\ to.at \in {"update", "write"} /\ to.val = values + 1
  <2>1. at \in {"update", "write"} /\ until \in Nat /\ ttl \in Nat BY CacheStoreAssumption DEF TypeOK, Never
  <2>2. values' \in Nat BY <1>3 DEF TypeOK
  <2> HIDE DEF at, until, to
  <2> QED BY <1>2, <1>3, <2>1, <2>2 DEF Ats
<1> HIDE DEF to
<1> QED BY <1>3, <1>4 DEF TypeOK

(* Steps that change no row.                                                   *)
LEMMA ReadingSteps ==
    ASSUME StoreInv, Next, NEW p \in Tasks, Get(p) \/ Read(p) \/ Put(p) \/ Factory(p) \/ Forget(p)
    PROVE  StoreInv' /\ row' = row
<1> USE DEF StoreInv
<1>1. row' = row /\ past' = past /\ clock' = clock /\ driver' = driver
  BY DEF Next, Get, Read, Put, Factory, Forget
<1>2. CASE Get(p)
  <2>10. PICK miss \in {"idle", "factory"} : op' = [op EXCEPT ![p] = [Idle EXCEPT !.at = "read", !.miss = miss]]
    BY <1>2 DEF Get
  <2>20. [Idle EXCEPT !.at = "read", !.miss = miss] = [at |-> "read", miss |-> miss, val |-> -1, ttl |-> Never, until |-> Never]
    <3>1. [Idle EXCEPT !.at = "read"] = [at |-> "read", miss |-> "idle", val |-> -1, ttl |-> Never, until |-> Never] BY DEF Idle
    <3>2. [[at |-> "read", miss |-> "idle", val |-> -1, ttl |-> Never, until |-> Never] EXCEPT !.miss = miss]
            = [at |-> "read", miss |-> miss, val |-> -1, ttl |-> Never, until |-> Never] OBVIOUS
    <3> QED BY <3>1, <3>2
  <2>1. TypeOK'
    <3> DEFINE to == [Idle EXCEPT !.at = "read", !.miss = miss]
    <3>1. to \in [at : Ats, miss : {"idle", "factory"}, val : Nat \cup {-1}, ttl : Nat, until : Nat]
      <4>1. to = [at |-> "read", miss |-> miss, val |-> -1, ttl |-> Never, until |-> Never] BY <2>20
      <4> HIDE DEF to
      <4> QED BY <4>1, <2>10 DEF Ats, Never
    <3>2. op' = [op EXCEPT ![p] = to] /\ values' = values BY <1>2, <2>10 DEF Get
    <3> HIDE DEF to
    <3> QED BY <1>1, <3>1, <3>2 DEF TypeOK
  <2>2. op'[p].at = "read" /\ \A q \in Tasks : q # p => op'[q] = op[q] BY <1>2 DEF Get, TypeOK, Idle
  <2>3. values' = values BY <1>2 DEF Get
  <2>4. OwnValues' BY <1>1, <2>2, <2>3 DEF OwnValues, Writing
  <2>5. DropsOld' BY <1>1, <1>2, <2>2 DEF DropsOld, Get, At, Runs, Expired
  <2> QED BY <1>1, <2>1, <2>4, <2>5
<1>3. CASE Read(p)
  <2>1. values' = values /\ op[p].at = "read" /\ Runs(p) BY <1>3 DEF Read, At
  <2>2. \/ Missed(p) \/ Done(p)
        \/ Go(p, "drop") /\ row # NoRow /\ ~(Live(row) /\ row.val # Unreadable) /\ ~(driver = "redis" /\ Expired(row))
    BY <1>3 DEF Read
  <2>3. CASE Done(p) \/ Go(p, "factory")
    <3>1. /\ op' \in [Tasks -> [at : Ats, miss : {"idle", "factory"}, val : Nat \cup {-1}, ttl : Nat, until : Nat]]
          /\ op'[p].at \in {"idle", "factory"} /\ \A q \in Tasks : q # p => op'[q] = op[q]
      BY <2>3, Fields DEF Ats
    <3>2. TypeOK' BY <1>1, <2>1, <3>1 DEF TypeOK
    <3>3. OwnValues' BY <1>1, <2>1, <3>1 DEF OwnValues, Writing
    <3>4. DropsOld' BY <1>1, <3>1 DEF DropsOld, Expired
    <3> QED BY <1>1, <3>2, <3>3, <3>4
  <2>4. CASE Go(p, "drop") /\ row # NoRow /\ ~(Live(row) /\ row.val # Unreadable) /\ ~(driver = "redis" /\ Expired(row))
    <3>1. /\ op' \in [Tasks -> [at : Ats, miss : {"idle", "factory"}, val : Nat \cup {-1}, ttl : Nat, until : Nat]]
          /\ op'[p].at = "drop" /\ \A q \in Tasks : q # p => op'[q] = op[q]
      BY <2>4, Fields DEF Ats
    <3>2. TypeOK' BY <1>1, <2>1, <3>1 DEF TypeOK
    <3>3. OwnValues' BY <1>1, <2>1, <3>1 DEF OwnValues, Writing
    <3>4. DropsOld' BY <1>1, <2>1, <2>4, <3>1 DEF DropsOld, Expired, Live, Runs
    <3> QED BY <1>1, <3>2, <3>3, <3>4
  <2> QED BY <2>2, <2>3, <2>4 DEF Missed
<1>4. CASE Factory(p) /\ Done(p) /\ UNCHANGED values
  <2>1. /\ op' \in [Tasks -> [at : Ats, miss : {"idle", "factory"}, val : Nat \cup {-1}, ttl : Nat, until : Nat]]
        /\ op'[p].at = "idle" /\ \A q \in Tasks : q # p => op'[q] = op[q]
    BY <1>4, Fields
  <2>2. TypeOK' BY <1>1, <1>4, <2>1 DEF TypeOK
  <2>3. OwnValues' BY <1>1, <1>4, <2>1 DEF OwnValues, Writing
  <2>4. DropsOld' BY <1>1, <2>1 DEF DropsOld, Expired
  <2> QED BY <1>1, <2>2, <2>3, <2>4
<1>5. CASE (Put(p) \/ Factory(p)) /\ \E ttl \in {Never, Ttl} : Store(p, ttl)
  <2>1. /\ op' \in [Tasks -> [at : Ats, miss : {"idle", "factory"}, val : Nat \cup {-1}, ttl : Nat, until : Nat]]
        /\ values' = values + 1 /\ op'[p].at \in {"update", "write"} /\ op'[p].val = values + 1
        /\ \A q \in Tasks : q # p => op'[q] = op[q]
    BY <1>5, Stored
  <2>2. Runs(p) BY <1>5 DEF Put, Factory, At
  <2>3. TypeOK' BY <1>1, <2>1 DEF TypeOK
  <2>4. OwnValues'
    <3>1. past' \subseteq 0 .. values' /\ row'.val \in -1 .. values' /\ (row'.val = -1 => row' = NoRow)
      BY <1>1, <2>1 DEF OwnValues, TypeOK
    <3>2. \A q \in Tasks : Writing(q)' => op'[q].val \in 1 .. values' /\ op'[q].val # row'.val /\ op'[q].val \notin past'
      BY <1>1, <2>1 DEF OwnValues, TypeOK, Writing
    <3>3. \A q, r \in Tasks : Writing(q)' /\ Writing(r)' /\ op'[q].val = op'[r].val => q = r
      BY <1>1, <2>1 DEF OwnValues, TypeOK, Writing
    <3> QED BY <3>1, <3>2, <3>3 DEF OwnValues, Writing, NoRow
  <2>5. DropsOld' BY <1>1, <2>1, <2>2 DEF DropsOld, Expired, Runs
  <2> QED BY <1>1, <2>3, <2>4, <2>5
<1>6. CASE Forget(p)
  <2>1. TypeOK' BY <1>1, <1>6 DEF Forget, TypeOK, Idle, Ats, Never
  <2>2. op'[p].at = "forget" /\ \A q \in Tasks : q # p => op'[q] = op[q] BY <1>6 DEF Forget, TypeOK, Idle
  <2>3. values' = values BY <1>6 DEF Forget
  <2>4. OwnValues' BY <1>1, <2>2, <2>3 DEF OwnValues, Writing
  <2>5. DropsOld' BY <1>1, <1>6, <2>2 DEF DropsOld, Forget, At, Runs, Expired
  <2> QED BY <1>1, <2>1, <2>4, <2>5
<1> QED BY <1>2, <1>3, <1>4, <1>5, <1>6 DEF Put, Factory

(* Steps that write the row: what they write is the task's, or nothing.        *)
LEMMA WritingSteps ==
    ASSUME StoreInv, Next, NEW p \in Tasks, Drop(p) \/ Write(p) \/ Update(p) \/ Insert(p) \/ Delete(p)
    PROVE  /\ StoreInv'
           /\ row' # row => row'.val \notin past
           /\ row' = NoRow /\ row # NoRow => op[p].at = "drop" \/ Delete(p)
<1> USE DEF StoreInv
<1>1. clock' = clock /\ driver' = driver /\ values' = values /\ Runs(p)
      /\ past' = IF row' = row \/ row = NoRow THEN past ELSE past \cup {row.val}
  BY DEF Next, Drop, Write, Update, Insert, Delete, At
<1> DEFINE Ops == [Tasks -> [at : Ats, miss : {"idle", "factory"}, val : Nat \cup {-1}, ttl : Nat, until : Nat]]
<1> HIDE DEF Ops
<1>2. past' \subseteq 0 .. values /\ past' \subseteq Nat
  <2>1. past \subseteq 0 .. values /\ values \in Nat BY DEF OwnValues, TypeOK
  <2>2. row # NoRow => row.val \in 0 .. values BY <2>1 DEF OwnValues
  <2>3. past' \subseteq 0 .. values BY <1>1, <2>1, <2>2
  <2> QED BY <2>1, <2>3
<1>3. op[p].val \in Nat \cup {-1} /\ op[p].ttl \in Nat /\ op[p].until \in Nat /\ clock \in Nat BY DEF TypeOK
\* One of the four outcomes.
<1>4. \/ row' = NoRow /\ op[p].at \in {"drop", "forget"} /\ op'[p].at \in {"idle", "factory"}
      \/ /\ Writing(p) /\ row'.val = op[p].val /\ row' \in [val : Nat \cup {-1}, until : Nat]
         /\ op'[p].at = "idle"
      \/ row' = row /\ Writing(p) /\ op'[p].at \in {"insert", "conflict"} /\ op'[p].val = op[p].val
      \/ row' = row /\ op'[p].at = "idle"
  <2>1. CASE Drop(p) BY <2>1, Fields DEF Drop, Missed, At, Ats
  <2>2. CASE Write(p)
    <3>1. op'[p].at = "idle" BY <2>2, Fields DEF Write
    <3>2. Writing(p) /\ row'.val = op[p].val BY <2>2 DEF Write, At, Writing
    <3>3. row' \in [val : Nat \cup {-1}, until : Nat] BY <2>2, <1>3 DEF Write
    <3> QED BY <3>1, <3>2, <3>3
  <2>3. CASE Update(p)
    <3>1. Writing(p) BY <2>3 DEF Update, At, Writing
    <3>2. CASE row = NoRow
      <4>1. row' = row BY <2>3, <3>2 DEF Update
      <4>2. Go(p, "insert") \/ Done(p) BY <2>3 DEF Update
      <4> QED BY <3>1, <4>1, <4>2, Fields DEF Ats
    <3>3. CASE row # NoRow
      <4>1. row' = [val |-> op[p].val, until |-> op[p].until] /\ Done(p) BY <2>3, <3>3 DEF Update
      <4> QED BY <1>3, <3>1, <4>1, Fields
    <3> QED BY <3>2, <3>3
  <2>4. CASE Insert(p)
    <3>1. Writing(p) BY <2>4 DEF Insert, At, Writing
    <3>2. CASE row = NoRow
      <4>1. row' = [val |-> op[p].val, until |-> op[p].until] /\ Done(p) BY <2>4, <3>2 DEF Insert
      <4> QED BY <1>3, <3>1, <4>1, Fields
    <3>3. CASE row # NoRow
      <4>1. row' = row /\ Go(p, "conflict") BY <2>4, <3>3 DEF Insert
      <4> QED BY <3>1, <4>1, Fields DEF Ats
    <3> QED BY <3>2, <3>3
  <2>5. CASE Delete(p) BY <2>5, Fields DEF Delete, At
  <2> QED BY <2>1, <2>2, <2>3, <2>4, <2>5
<1>5. op' \in Ops /\ \A q \in Tasks : q # p => op'[q] = op[q]
  <2>1. Done(p) \/ \E w \in {"factory", "insert", "conflict"} : Go(p, w)
    BY DEF Drop, Missed, Write, Update, Insert, Delete
  <2> QED BY <2>1, Fields DEF Ats, Ops
<1>6. row' \in [val : Nat \cup {-1}, until : Nat] BY <1>4 DEF TypeOK, NoRow, Never
<1>7. TypeOK' BY <1>1, <1>2, <1>5, <1>6 DEF TypeOK, Ops
<1>8. past \subseteq past' /\ past' \subseteq past \cup {row.val} BY <1>1
<1>9. past' \subseteq 0 .. values /\ row'.val \in -1 .. values /\ (row'.val = -1 => row' = NoRow)
  <2>1. past' \subseteq 0 .. values BY <1>2
  <2>2. CASE row' = NoRow BY <2>1, <2>2 DEF NoRow, TypeOK
  <2>3. CASE row' = row BY <2>1, <2>3 DEF OwnValues
  <2>4. CASE Writing(p) /\ row'.val = op[p].val BY <2>1, <2>4 DEF OwnValues, TypeOK
  <2> QED BY <1>4, <2>2, <2>3, <2>4
<1>10. \A q \in Tasks : Writing(q)' => Writing(q) /\ op'[q].val = op[q].val /\ (q = p => row' = row)
  BY <1>4, <1>5 DEF Writing
<1>11. OwnValues'
  <2>1. ASSUME NEW q \in Tasks, Writing(q)' PROVE op'[q].val \in 1 .. values /\ op'[q].val # row'.val /\ op'[q].val \notin past'
    <3>1. Writing(q) /\ op'[q].val = op[q].val /\ (q = p => row' = row) BY <1>10, <2>1
    <3>2. op[q].val \in 1 .. values /\ op[q].val # row.val /\ op[q].val \notin past BY <3>1 DEF OwnValues
    <3>3. op[q].val # row'.val
      <4>1. CASE row' = NoRow BY <3>2, <4>1 DEF NoRow
      <4>2. CASE row' = row BY <3>2, <4>2
      <4>3. CASE Writing(p) /\ row'.val = op[p].val /\ op'[p].at = "idle"
        <5>1. q # p BY <2>1, <4>3 DEF Writing
        <5> QED BY <3>1, <4>3, <5>1 DEF OwnValues
      <4> QED BY <1>4, <4>1, <4>2, <4>3
    <3> QED BY <1>8, <3>1, <3>2, <3>3
  <2>2. \A q, r \in Tasks : Writing(q)' /\ Writing(r)' /\ op'[q].val = op'[r].val => q = r BY <1>10 DEF OwnValues
  <2> QED BY <1>1, <1>9, <2>1, <2>2 DEF OwnValues, Writing, NoRow
<1>12. DropsOld'
  <2>1. \A q \in Tasks : op'[q].at = "drop" => q # p /\ op[q].at = "drop" BY <1>4, <1>5 DEF Writing
  <2>2. driver = "array" => \A q \in Tasks : op'[q].at \in {"idle", "factory"} \/ q = p BY <1>1, <1>5 DEF Runs
  <2>3. ASSUME NEW q \in Tasks, op'[q].at = "drop", driver = "redis" PROVE row'.val = Unreadable \/ Unreadable \in past'
    <3>1. row.val = Unreadable \/ Unreadable \in past BY <2>1, <2>3 DEF DropsOld
    <3>2. row # NoRow \/ Unreadable \in past BY <3>1 DEF NoRow, Unreadable
    <3> QED BY <1>1, <3>1, <3>2
  <2> QED BY <1>1, <2>1, <2>2, <2>3 DEF DropsOld
<1>13. row' # row => row'.val \notin past
  <2>1. CASE row' = NoRow BY <2>1 DEF NoRow, TypeOK
  <2>2. CASE Writing(p) /\ row'.val = op[p].val BY <2>2 DEF OwnValues
  <2> QED BY <1>4, <2>1, <2>2
<1>14. row' = NoRow /\ row # NoRow => op[p].at = "drop" \/ Delete(p)
  <2>1. Writing(p) /\ row'.val = op[p].val => row' # NoRow BY DEF OwnValues, NoRow
  <2>2. op[p].at = "forget" => Delete(p) BY DEF Drop, Write, Update, Insert, Delete, At
  <2> QED BY <1>4, <2>1, <2>2
<1> QED BY <1>7, <1>11, <1>12, <1>13, <1>14

LEMMA TickStep ==
    ASSUME StoreInv, Next, Tick
    PROVE  StoreInv' /\ row' = row
<1>1. clock' = clock + 1 /\ row' = row /\ past' = past /\ op' = op /\ values' = values /\ driver' = driver BY DEF Next, Tick
<1>2. TypeOK' BY <1>1 DEF StoreInv, TypeOK
<1>3. OwnValues' BY <1>1 DEF StoreInv, OwnValues, Writing, NoRow
<1>4. DropsOld' BY <1>1 DEF StoreInv, DropsOld, Tick
<1> QED BY <1>1, <1>2, <1>3, <1>4 DEF StoreInv

LEMMA StoreStep ==
    ASSUME StoreInv, [Next]_vars
    PROVE  StoreInv' /\ (row' # row => row'.val \notin past)
           /\ (Lost => driver \in {"file", "database"} \/ Unreadable \in past)
<1>1. CASE UNCHANGED vars
  <2>1. StoreInv' BY <1>1 DEF vars, StoreInv, TypeOK, OwnValues, DropsOld, Writing, Expired, NoRow
  <2>2. ~Lost BY <1>1 DEF vars, Lost, Live
  <2> QED BY <1>1, <2>1, <2>2 DEF vars
<1>2. CASE Next
  <2>1. CASE Tick BY <1>2, <2>1, TickStep DEF Lost, Live
  <2>2. ASSUME NEW p \in Tasks, Step(p) PROVE StoreInv' /\ (row' # row => row'.val \notin past)
           /\ (Lost => driver \in {"file", "database"} \/ Unreadable \in past)
    <3>1. CASE Get(p) \/ Read(p) \/ Put(p) \/ Factory(p) \/ Forget(p)
      BY <1>2, <3>1, ReadingSteps DEF Lost, Live
    <3>2. CASE Drop(p) \/ Write(p) \/ Update(p) \/ Insert(p) \/ Delete(p)
      <4>1. StoreInv' /\ (row' # row => row'.val \notin past) BY <1>2, <3>2, WritingSteps
      <4>2. ASSUME Lost PROVE driver \in {"file", "database"} \/ Unreadable \in past
        <5>1. row' = NoRow /\ row # NoRow /\ row.val # Unreadable /\ ~Expired(row) BY <4>2 DEF Lost, Live
        <5>2. ~Delete(p) BY <4>2 DEF Lost, Delete, At
        <5>3. op[p].at = "drop" BY <1>2, <3>2, <5>1, <5>2, WritingSteps
        <5>4. driver \in {"array", "file", "redis", "database"} BY CacheStoreAssumption DEF StoreInv, TypeOK
        <5> QED BY <5>1, <5>3, <5>4 DEF StoreInv, DropsOld
      <4> QED BY <4>1, <4>2
    <3> QED BY <2>2, <3>1, <3>2 DEF Step
  <2> QED BY <1>2, <2>1, <2>2 DEF Next
<1> QED BY <1>1, <1>2

(* A value that was replaced, forgotten or dropped never comes back, whatever *)
(* tasks interleave with the put that wrote it; and on the array store, and    *)
(* on redis while no entry was one that cannot be unpickled, an entry that is  *)
(* alive goes only when somebody forgets it.                                   *)
THEOREM NothingIsUndone == Spec => NothingUndone
<1>1. Init => StoreInv BY StoreInit
<1>2. StoreInv /\ [Next]_vars => StoreInv' BY StoreStep
<1>3. StoreInv /\ [Next]_vars => [row' # row => row'.val \notin past]_vars BY StoreStep
<1>4. StoreInv /\ [Next]_vars => [Lost => driver \in {"file", "database"} \/ Unreadable \in past]_vars BY StoreStep
<1> QED BY <1>1, <1>2, <1>3, <1>4, PTL DEF Spec, NothingUndone, NeverBack, KeptAtOnce
-----------------------------------------------------------------------------
(* Reverb *)
SocketsType ==
    /\ handler \in [Sockets -> {"none", "greets", "receives", "confirms", "ended"}]
    /\ alive \subseteq Sockets /\ channels \in [Channels -> SUBSET Sockets]
    /\ signed \subseteq Users \X Sockets \X Channels
    /\ cast \in [Events -> [state : {"none", "next", "sends", "done"}, on : Seq(Channels), to : SUBSET Sockets]]
    /\ heard \in [Sockets -> SUBSET (Events \X Channels)]
    /\ due \subseteq Events \X Channels \X Sockets

\* A user with access has the signature of the socket for the channel.
SignedFor(s, c) == c \in Private => \E u \in Users : <<u, c>> \in Allowed /\ <<u, s, c>> \in signed
Pending(e, c, s) == cast[e].state = "sends" /\ c = Head(cast[e].on) /\ s \in cast[e].to

(* Who is alive is open; who is subscribed is open and signed for.             *)
Subscribed ==
    /\ alive \subseteq Open
    /\ \A t \in signed : <<t[1], t[3]>> \in Allowed
    /\ \A c \in Channels : \A s \in channels[c] : s \in Open /\ SignedFor(s, c)
(* What is sent is due; and who is due has it, will get it next, or is gone.   *)
Reached ==
    /\ \A e \in Events : cast[e].state = "sends" =>
         cast[e].on # <<>> /\ \A s \in cast[e].to : <<e, Head(cast[e].on), s>> \in due
    /\ \A e \in Events, c \in Channels, s \in Sockets : <<e, c, s>> \in due =>
         /\ SignedFor(s, c) /\ handler[s] # "none"
         /\ <<e, c>> \in heard[s] \/ s \notin alive \/ Pending(e, c, s)
    /\ \A s \in Sockets, e \in Events, c \in Channels : <<e, c>> \in heard[s] => <<e, c, s>> \in due
SocketsInv == SocketsType /\ Subscribed /\ Reached

LEMMA SocketsInit == ReverbInit => SocketsInv
  BY DEF ReverbInit, Unsent, SocketsInv, SocketsType, Subscribed, Reached, Open, SignedFor, Pending

(* A step of a socket sends nothing.                                           *)
LEMMA SocketSteps ==
    ASSUME SocketsInv, SocketsAreIds, NEW s \in Sockets,
           Connect(s) \/ Sent(s) \/ GoAway(s) \/ End(s)
             \/ (\E c \in Channels : Subscribe(s, c)) \/ (\E u \in Users, c \in Channels : Sign(u, s, c))
    PROVE  SocketsInv'
<1> USE DEF Broadcasting, SocketsInv, Open
<1>1. CASE Connect(s)
  <2>1. SocketsType' BY <1>1 DEF Connect, SocketsType
  <2>2. Subscribed' BY <1>1 DEF Connect, SocketsType, Subscribed, SignedFor
  <2>3. Reached' BY <1>1 DEF Connect, SocketsType, Reached, SignedFor, Pending
  <2> QED BY <2>1, <2>2, <2>3
<1>2. CASE Sent(s)
  <2>1. SocketsType' BY <1>2 DEF Sent, SocketsType
  <2>2. Subscribed' BY <1>2 DEF Sent, SocketsType, Subscribed, SignedFor
  <2>3. Reached' BY <1>2 DEF Sent, SocketsType, Reached, SignedFor, Pending
  <2> QED BY <2>1, <2>2, <2>3
<1>3. CASE GoAway(s)
  <2>1. SocketsType' BY <1>3 DEF GoAway, SocketsType
  <2>2. Subscribed' BY <1>3 DEF GoAway, SocketsType, Subscribed, SignedFor
  <2>3. Reached' BY <1>3 DEF GoAway, SocketsType, Reached, SignedFor, Pending
  <2> QED BY <2>1, <2>2, <2>3
<1>4. CASE End(s)
  <2>1. SocketsType' BY <1>4 DEF End, SocketsType
  <2>2. Subscribed' BY <1>4 DEF End, SocketsType, Subscribed, SignedFor
  <2>3. Reached' BY <1>4 DEF End, SocketsType, Reached, SignedFor, Pending
  <2> QED BY <2>1, <2>2, <2>3
<1>5. ASSUME NEW c \in Channels, Subscribe(s, c) PROVE SocketsInv'
  <2>1. SocketsType' BY <1>5 DEF Subscribe, SocketsType
  <2>2. SignedFor(s, c)
    <3>1. PICK signature \in signed \cup {<<"none", "none", "none">>} : Verifies(s, c, signature)
      BY <1>5 DEF Subscribe
    <3>2. CASE c \notin Private BY <3>2 DEF SignedFor
    <3>3. CASE c \in Private
      <4>1. signature[2] = s /\ signature[3] = c BY <3>1, <3>3 DEF Verifies
      <4>2. signature \in signed BY <4>1 DEF SocketsAreIds
      <4>3. signature \in Users \X Sockets \X Channels BY <4>2 DEF SocketsType
      <4>4. signature[1] \in Users /\ signature = <<signature[1], s, c>> BY <4>1, <4>3
      <4> QED BY <4>2, <4>4 DEF Subscribed, SignedFor
    <3> QED BY <3>2, <3>3
  <2>3. Subscribed' BY <1>5, <2>2 DEF Subscribe, SocketsType, Subscribed, SignedFor
  <2>4. Reached' BY <1>5 DEF Subscribe, SocketsType, Reached, SignedFor, Pending
  <2> QED BY <2>1, <2>3, <2>4
<1>6. ASSUME NEW u \in Users, NEW c \in Channels, Sign(u, s, c) PROVE SocketsInv'
  <2>1. SocketsType' BY <1>6 DEF Sign, SocketsType
  <2>2. \A t \in signed' : <<t[1], t[3]>> \in Allowed
    <3>1. signed' = signed \cup {<<u, s, c>>} /\ <<u, c>> \in Allowed BY <1>6 DEF Sign
    <3>2. <<u, s, c>>[1] = u /\ <<u, s, c>>[3] = c OBVIOUS
    <3> QED BY <3>1, <3>2 DEF Subscribed
  <2>3. \A d \in Channels : \A q \in channels[d] : SignedFor(q, d)'
    BY <1>6 DEF Sign, SocketsType, Subscribed, SignedFor
  <2>4. Subscribed' BY <1>6, <2>2, <2>3 DEF Sign, Subscribed
  <2>5. Reached' BY <1>6 DEF Sign, SocketsType, Reached, SignedFor, Pending
  <2> QED BY <2>1, <2>4, <2>5
<1> QED BY <1>1, <1>2, <1>3, <1>4, <1>5, <1>6

(* A step of a broadcast changes nothing of the sockets but what they heard.   *)
LEMMA BroadcastSteps ==
    ASSUME SocketsInv, NEW e \in Events,
           Take(e) \/ Send(e) \/ Turn(e) \/ \E on \in Lists : Broadcast(e, on)
    PROVE  SocketsInv'
<1> USE DEF Connections, SocketsInv, Open
<1>0. Subscribed' BY DEF Take, Send, Turn, Broadcast, SocketsType, Subscribed, SignedFor
<1>1. CASE Take(e)
  <2> DEFINE c == Head(cast[e].on)
             to == [state |-> "sends", on |-> cast[e].on, to |-> channels[c]]
  <2>1. c \in Channels /\ to \in [state : {"none", "next", "sends", "done"}, on : Seq(Channels), to : SUBSET Sockets]
    BY <1>1 DEF Take, SocketsType
  <2>2. cast' = [cast EXCEPT ![e] = to]
    <3>1. cast[e] \in [state : {"none", "next", "sends", "done"}, on : Seq(Channels), to : SUBSET Sockets]
      BY DEF SocketsType
    <3>2. [[cast[e] EXCEPT !.state = "sends"] EXCEPT !.to = channels[c]] = to
      <4>1. [cast[e] EXCEPT !.state = "sends"] = [state |-> "sends", on |-> cast[e].on, to |-> cast[e].to] BY <3>1
      <4>2. [[state |-> "sends", on |-> cast[e].on, to |-> cast[e].to] EXCEPT !.to = channels[c]] = to OBVIOUS
      <4> QED BY <4>1, <4>2
    <3>3. cast' = [cast EXCEPT ![e] = [[cast[e] EXCEPT !.state = "sends"] EXCEPT !.to = channels[c]]]
      BY <1>1 DEF Take, SocketsType
    <3> QED BY <3>2, <3>3
  <2>3. due' = due \cup {<<e, c, s>> : s \in channels[c]} /\ UNCHANGED <<handler, alive, channels, signed, heard>>
        /\ cast[e].on # <<>> /\ cast[e].state = "next"
    BY <1>1 DEF Take
  <2>4. due' \subseteq Events \X Channels \X Sockets BY <2>1, <2>3 DEF SocketsType
  <2> HIDE DEF c, to
  <2>5. SocketsType' BY <2>1, <2>2, <2>3, <2>4 DEF SocketsType
  <2>6. \A f \in Events : cast'[f] = IF f = e THEN to ELSE cast[f] BY <2>2 DEF SocketsType
  <2>7. to.state = "sends" /\ to.on = cast[e].on /\ to.to = channels[c] /\ c = Head(to.on) BY DEF to, c
  <2>8. \A f \in Events, d \in Channels, s \in Sockets :
          <<f, d, s>> \in due' => <<f, d, s>> \in due \/ (f = e /\ d = c /\ s \in channels[c])
    BY <2>3
  <2>9. \A f \in Events, d \in Channels, s \in Sockets : SignedFor(s, d)' <=> SignedFor(s, d)
    BY <2>3 DEF SignedFor
  <2>10. \A s \in channels[c] : s \in Sockets /\ SignedFor(s, c) /\ handler[s] # "none" /\ <<e, c, s>> \in due'
    BY <2>1, <2>3 DEF SocketsType, Subscribed
  <2>11. \A f \in Events, d \in Channels, s \in Sockets :
           Pending(f, d, s)' <=> Pending(f, d, s) \/ (f = e /\ d = c /\ s \in channels[c])
    BY <2>3, <2>6, <2>7 DEF Pending
  <2>12. Reached' BY <2>3, <2>6, <2>7, <2>8, <2>9, <2>10, <2>11 DEF SocketsType, Reached
  <2> QED BY <1>0, <2>5, <2>12
<1>2. CASE Send(e)
  <2> DEFINE c == Head(cast[e].on)
  <2>0. c \in Channels BY <1>2 DEF Send, SocketsType, Reached
  <2>1. SocketsType'
    <3>1. UNCHANGED <<handler, alive, channels, signed, due>> BY <1>2 DEF Send
    <3>2. heard' \in [Sockets -> SUBSET (Events \X Channels)] BY <1>2, <2>0 DEF Send, SocketsType
    <3>3. cast' \in [Events -> [state : {"none", "next", "sends", "done"}, on : Seq(Channels), to : SUBSET Sockets]]
      BY <1>2 DEF Send, SocketsType
    <3> QED BY <3>1, <3>2, <3>3 DEF SocketsType
  <2>2. Reached' BY <1>2, <2>0 DEF Send, SocketsType, Reached, SignedFor, Pending, Subscribed
  <2> QED BY <1>0, <2>1, <2>2
<1>3. CASE Turn(e)
  <2> DEFINE to == [state |-> IF cast[e].state = "sends" THEN "next" ELSE "done",
                    on |-> IF cast[e].state = "sends" THEN Tail(cast[e].on) ELSE cast[e].on, to |-> cast[e].to]
  <2>1. cast' = [cast EXCEPT ![e] = to] /\ UNCHANGED <<handler, alive, channels, signed, heard, due>>
    BY <1>3 DEF Turn, SocketsType
  <2>2. to \in [state : {"none", "next", "sends", "done"}, on : Seq(Channels), to : SUBSET Sockets]
    BY <1>3 DEF Turn, SocketsType, Reached
  <2>3. to.state # "sends" /\ (cast[e].state = "sends" => cast[e].to = {}) BY <1>3 DEF Turn
  <2> HIDE DEF to
  <2>4. SocketsType' BY <2>1, <2>2 DEF SocketsType
  <2>5. \A f \in Events : cast'[f] = IF f = e THEN to ELSE cast[f] BY <2>1 DEF SocketsType
  <2>6. Reached' BY <2>1, <2>3, <2>5 DEF SocketsType, Reached, SignedFor, Pending
  <2> QED BY <1>0, <2>4, <2>6
<1>4. ASSUME NEW on \in Lists, Broadcast(e, on) PROVE SocketsInv'
  <2>1. on \in Seq(Channels)
    <3>1. CASE \E c \in Channels : on = <<c>> BY <3>1
    <3>2. CASE \E c, d \in Channels : on = <<c, d>> BY <3>2
    <3> QED BY <3>1, <3>2 DEF Lists
  <2>2. SocketsType' BY <1>4, <2>1 DEF Broadcast, SocketsType
  <2>3. Reached' BY <1>4 DEF Broadcast, SocketsType, Reached, SignedFor, Pending
  <2> QED BY <1>0, <2>2, <2>3
<1> QED BY <1>1, <1>2, <1>3, <1>4

\* An event reaches those who are subscribed and stay, and nobody else, for any
\* sockets, channels and broadcasts.
THEOREM LivingHear ==
    ASSUME SocketsAreIds PROVE ReverbSpec => []ReachesSubscribers
<1>1. SocketsInv /\ [ReverbNext]_sockets => SocketsInv'
  <2>1. CASE ReverbNext BY <2>1, SocketSteps, BroadcastSteps DEF ReverbNext
  <2>2. CASE UNCHANGED sockets
    BY <2>2 DEF sockets, SocketsInv, SocketsType, Subscribed, Reached, SignedFor, Pending, Open
  <2> QED BY <2>1, <2>2
<1>2. SocketsInv => ReachesTheLiving
  BY DEF SocketsInv, SocketsType, Reached, Pending, ReachesTheLiving
<1>3. SocketsInv => OnlySubscribers
  <2> SUFFICES ASSUME SocketsInv PROVE OnlySubscribers OBVIOUS
  <2>1. \A c \in Channels : channels[c] \subseteq Open BY DEF SocketsInv, Subscribed
  <2>2. ASSUME NEW s \in Sockets, NEW t \in heard[s]
        PROVE  <<t[1], t[2], s>> \in due /\ SignedFor(s, t[2])
    <3>0. t \in Events \X Channels BY DEF SocketsInv, SocketsType
    <3>1. t[1] \in Events /\ t[2] \in Channels /\ t = <<t[1], t[2]>> BY <3>0
    <3> QED BY <3>1 DEF SocketsInv, Reached
  <2> QED BY <2>1, <2>2 DEF OnlySubscribers, SignedFor
<1>4. SocketsInv => ReachesSubscribers BY <1>2, <1>3 DEF ReachesSubscribers
<1> QED BY SocketsInit, <1>1, <1>4, PTL DEF ReverbSpec

-------------------------------------------------------------------------------
(* Inertia.                                                                   *)

(* What is queued is still queued or was shown, and a form that is under way   *)
(* was not handled yet.                                                        *)
Carried(q) == shown[q] + (IF q \in cookie THEN 1 ELSE 0) = handled[q[2]]
Submitted(r) == r.submit \in Submissions /\ handled[r.submit] = 0 /\ r.method # "GET"
QueueInv ==
    /\ handled \in [Submissions -> {0, 1}] /\ shown \in [Queued -> Nat] /\ cookie \subseteq Queued
    /\ DOMAIN requests = Kinds
    /\ \A k \in Kinds : requests[k] # NoRequest =>
         /\ requests[k].session \subseteq Queued
         /\ requests[k].submit = 0 \/ (k = "visit" /\ Submitted(requests[k]))
         /\ requests[k].method \in {"GET", "POST", "PUT"}
    /\ \A q \in Queued \ excused : Carried(q)

LEMMA QueueInit == InertiaInit => QueueInv
<1> SUFFICES ASSUME InertiaInit PROVE QueueInv OBVIOUS
<1>1. handled \in [Submissions -> {0, 1}] /\ shown \in [Queued -> Nat] /\ cookie = {} BY DEF InertiaInit
<1>2. requests = [k \in Kinds |-> NoRequest] BY DEF InertiaInit
<1>3. ASSUME NEW q \in Queued PROVE Carried(q)
  <2>1. q[2] \in Submissions BY DEF Queued
  <2>2. handled[q[2]] = 0 /\ shown[q] = 0 BY <2>1 DEF InertiaInit
  <2> QED BY <1>1, <2>2 DEF Carried
<1> QED BY <1>1, <1>2, <1>3 DEF QueueInv

LEMMA BeginStep ==
    ASSUME QueueInv, NEW kind \in Kinds, NEW r, Begin(kind, r), r.session \subseteq Queued, r.method \in {"GET", "POST", "PUT"},
           r.submit = 0 \/ (kind = "visit" /\ Submitted(r))
    PROVE  QueueInv'
<1>1. requests' = [requests EXCEPT ![kind] = r] /\ UNCHANGED <<handled, shown, cookie, excused>> BY DEF Begin
<1>2. requests'[kind] = r /\ \A k \in Kinds \ {kind} : requests'[k] = requests[k] BY <1>1 DEF QueueInv
<1>3. DOMAIN requests' = Kinds BY <1>1 DEF QueueInv
<1> QED BY <1>1, <1>2, <1>3 DEF QueueInv, Carried, Submitted

LEMMA NewRequests ==
    ASSUME QueueInv, NEW page, NEW partial, NEW only, NEW except
    PROVE  /\ Request(page, partial, only, except).session \subseteq Queued
           /\ Request(page, partial, only, except).method = "GET"
           /\ Request(page, partial, only, except).submit = 0
           /\ Browse(page).session \subseteq Queued /\ Browse(page).method = "GET" /\ Browse(page).submit = 0
  BY DEF QueueInv, Request, Browse

LEMMA Beginnings ==
    ASSUME QueueInv, (\E c \in DOMAIN Pages : OpenPage(c) \/ Visit(c))
                     \/ (\E c \in DOMAIN Pages, n \in Submissions, m \in {"POST", "PUT"} : Submit(n, m, c))
                     \/ Reload \/ (\E g \in {"default", "slow"} : LoadDeferred(g))
    PROVE  QueueInv'
<1>0. "visit" \in Kinds /\ "poll" \in Kinds BY DEF Kinds
<1>1. CASE \E c \in DOMAIN Pages : OpenPage(c) \/ Visit(c)
  <2>1. PICK c : Begin("visit", Browse(c)) \/ Begin("visit", Request(c, FALSE, {}, {})) BY <1>1 DEF OpenPage, Visit
  <2> QED BY <1>0, <2>1, BeginStep, NewRequests
<1>2. CASE \E c \in DOMAIN Pages, n \in Submissions, m \in {"POST", "PUT"} : Submit(n, m, c)
  <2>1. PICK c \in DOMAIN Pages, n \in Submissions, m \in {"POST", "PUT"} : Submit(n, m, c) BY <1>2
  <2> DEFINE r == [Request(c, FALSE, {}, {}) EXCEPT !.method = m, !.submit = n]
  <2>2. Begin("visit", r) /\ handled[n] = 0 BY <2>1 DEF Submit
  <2>3. r.method = m /\ r.submit = n /\ r.session = cookie BY DEF Request
  <2>4. Submitted(r) BY <2>1, <2>2, <2>3 DEF Submitted
  <2> HIDE DEF r
  <2>5. cookie \subseteq Queued BY DEF QueueInv
  <2> QED BY <1>0, <2>1, <2>2, <2>3, <2>4, <2>5, BeginStep
<1>3. CASE Reload \/ \E g \in {"default", "slow"} : LoadDeferred(g)
  <2>1. \E page, only, except : Begin("poll", Request(page, TRUE, only, except)) BY <1>3 DEF Reload, LoadDeferred
  <2>2. PICK page, only, except : Begin("poll", Request(page, TRUE, only, except)) BY <2>1
  <2> DEFINE r == Request(page, TRUE, only, except)
  <2>3. r.session \subseteq Queued /\ r.method = "GET" /\ r.submit = 0 BY NewRequests
  <2>4. Begin("poll", r) BY <2>2
  <2> HIDE DEF r
  <2> QED BY <1>0, <2>3, <2>4, BeginStep
<1> QED BY <1>1, <1>2, <1>3

(* What a response does to the cookie, for a request whose session was the      *)
(* cookie, or that overlapped another.                                          *)
LEMMA SessionStored ==
    ASSUME NEW r, NEW s, NEW d, StoreSession(r, s, d), NEW q \in Queued \ excused'
    PROVE  /\ q \notin excused /\ q \notin d /\ cookie' = s
           /\ cookie = r.session \/ (q \notin cookie /\ q \notin r.session)
  BY DEF StoreSession

LEMMA ConflictStep == ASSUME QueueInv, NEW kind \in Kinds, Conflict(kind) PROVE QueueInv'
<1> DEFINE r == requests[kind]
           to == IF kind = "poll" THEN NoRequest ELSE [Browse(r.page) EXCEPT !.session = r.session]
<1>1. /\ r # NoRequest /\ StoreSession(r, r.session, {}) /\ UNCHANGED <<handled, shown>>
      /\ requests' = [requests EXCEPT ![kind] = to]
  BY DEF Conflict, Under, Proceed
<1>2. to # NoRequest => to.session = r.session /\ to.method = "GET" /\ to.submit = 0 BY DEF Browse, Request
<1> HIDE DEF to
<1>3. requests'[kind] = to /\ DOMAIN requests' = Kinds /\ \A k \in Kinds \ {kind} : requests'[k] = requests[k]
  BY <1>1 DEF QueueInv
<1>4. cookie' = r.session /\ r.session \subseteq Queued BY <1>1 DEF StoreSession, QueueInv
<1>5. \A q \in Queued \ excused' : Carried(q)'
  <2> TAKE q \in Queued \ excused'
  <2>1. q \notin excused /\ (q \in cookie' <=> q \in cookie) BY <1>1, <1>4, SessionStored
  <2>2. Carried(q) BY <2>1 DEF QueueInv
  <2> QED BY <1>1, <2>1, <2>2 DEF Carried
<1> QED BY <1>1, <1>2, <1>3, <1>4, <1>5 DEF QueueInv, Submitted

LEMMA HandleStep == ASSUME QueueInv, NEW kind \in Kinds, Handle(kind) PROVE QueueInv'
<1> DEFINE r == requests[kind]
           queued == r.session \cup (Queues \X {r.submit})
           n == r.submit
<1>1. /\ r # NoRequest /\ n # 0 /\ StoreSession(r, queued, {}) /\ UNCHANGED shown
      /\ handled' = [handled EXCEPT ![n] = handled[n] + 1]
  BY DEF Handle, Under
<1>2. kind = "visit" /\ n \in Submissions /\ handled[n] = 0 /\ r.method \in {"POST", "PUT"} /\ r.session \subseteq Queued
  BY <1>1 DEF QueueInv, Submitted
<1>3. handled' \in [Submissions -> {0, 1}] /\ handled'[n] = 1 /\ \A m \in Submissions \ {n} : handled'[m] = handled[m]
  BY <1>1, <1>2 DEF QueueInv
<1>4. PICK to : /\ requests' = [requests EXCEPT ![kind] = to] /\ to.session = queued /\ to.submit = 0 /\ to.method = "GET"
  <2>1. PICK answer \in {"302", "empty", "fragment"} :
          requests' = [requests EXCEPT ![kind] =
                        IF FollowedBy(r.method, HandleResponse(r.method, answer)) = "GET"
                        THEN [Request(r.page, FALSE, {}, {}) EXCEPT !.session = queued] ELSE [r EXCEPT !.session = queued]]
    BY DEF Handle, Proceed
  <2>2. FollowedBy(r.method, HandleResponse(r.method, answer)) = "GET" BY <1>2 DEF FollowedBy, HandleResponse
  <2> DEFINE t == [Request(r.page, FALSE, {}, {}) EXCEPT !.session = queued]
  <2>3. t.session = queued /\ t.submit = 0 /\ t.method = "GET" BY DEF Request
  <2>4. requests' = [requests EXCEPT ![kind] = t] BY <2>1, <2>2
  <2> HIDE DEF t
  <2> QED BY <2>3, <2>4
<1>5. requests'[kind] = to /\ DOMAIN requests' = Kinds /\ \A k \in Kinds \ {kind} : requests'[k] = requests[k]
  BY <1>4 DEF QueueInv
<1>6. \A k \in Kinds \ {kind} : requests[k] # NoRequest => requests[k].submit = 0 BY <1>2 DEF QueueInv
<1>7. cookie' = queued /\ queued \subseteq Queued BY <1>1, <1>2 DEF StoreSession, Queued
<1>8. \A q \in Queued \ excused' : Carried(q)'
  <2> TAKE q \in Queued \ excused'
  <2>1. q \notin excused /\ (cookie = r.session \/ (q \notin cookie /\ q \notin r.session)) BY <1>1, SessionStored
  <2>2. Carried(q) /\ shown[q] \in Nat /\ q[2] \in Submissions /\ q[1] \in Queues /\ q = <<q[1], q[2]>>
    BY <2>1 DEF QueueInv, Queued
  <2>3. CASE q[2] = n
    <3>1. q \in cookie' BY <1>7, <2>2, <2>3
    <3>2. shown[q] = 0 BY <1>2, <2>2, <2>3 DEF Carried
    <3> QED BY <1>1, <1>3, <2>3, <3>1, <3>2 DEF Carried
  <2>4. CASE q[2] # n
    <3>1. q \in cookie' <=> q \in cookie BY <1>7, <2>1, <2>2, <2>4
    <3> QED BY <1>1, <1>3, <2>2, <2>4, <3>1 DEF Carried
  <2> QED BY <2>3, <2>4
<1> QED BY <1>1, <1>3, <1>4, <1>5, <1>6, <1>7, <1>8 DEF QueueInv

LEMMA RenderStep == ASSUME QueueInv, NEW kind \in Kinds, Render(kind) PROVE QueueInv'
<1> DEFINE r == requests[kind]
<1>1. /\ r # NoRequest /\ StoreSession(r, LeftBy(r, Queues), {}) /\ UNCHANGED handled
      /\ shown' = [q \in Queued |-> IF q \in r.session THEN shown[q] + 1 ELSE shown[q]]
      /\ requests' = [requests EXCEPT ![kind] = NoRequest]
  BY DEF Render, Under, Proceed
<1>2. r.session \subseteq Queued BY <1>1 DEF QueueInv
<1>3. cookie' = {} BY <1>1, <1>2 DEF StoreSession, LeftBy, Queued
<1>4. \A q \in Queued \ excused' : Carried(q)'
  <2> TAKE q \in Queued \ excused'
  <2>1. q \notin excused /\ (cookie = r.session \/ (q \notin cookie /\ q \notin r.session)) BY <1>1, SessionStored
  <2>2. Carried(q) /\ shown[q] \in Nat BY <2>1 DEF QueueInv
  <2>3. shown'[q] = IF q \in r.session THEN shown[q] + 1 ELSE shown[q] BY <1>1
  <2> QED BY <1>1, <1>3, <2>1, <2>2, <2>3 DEF Carried
<1>5. requests'[kind] = NoRequest /\ DOMAIN requests' = Kinds /\ \A k \in Kinds \ {kind} : requests'[k] = requests[k]
  BY <1>1 DEF QueueInv
<1>6. shown' \in [Queued -> Nat] BY <1>1 DEF QueueInv
<1> QED BY <1>1, <1>3, <1>4, <1>5, <1>6 DEF QueueInv, Submitted

LEMMA RaiseStep == ASSUME QueueInv, NEW kind \in Kinds, Raise(kind) PROVE QueueInv'
<1> DEFINE r == requests[kind]
           d == {q \in r.session : q[1] = "errors"}
<1>1. /\ r # NoRequest /\ UNCHANGED <<handled, shown>> /\ requests' = [requests EXCEPT ![kind] = NoRequest]
      /\ StoreSession(r, LeftBy(r, {"errors"}), d) \/ UNCHANGED <<cookie, excused>>
  BY DEF Raise, Under, Proceed
<1>2. r.session \subseteq Queued BY <1>1 DEF QueueInv
<1>3. requests'[kind] = NoRequest /\ DOMAIN requests' = Kinds /\ \A k \in Kinds \ {kind} : requests'[k] = requests[k]
  BY <1>1 DEF QueueInv
<1>4. cookie' \subseteq Queued /\ \A q \in Queued \ excused' : Carried(q)'
  <2>1. CASE UNCHANGED <<cookie, excused>> BY <1>1, <2>1 DEF QueueInv, Carried
  <2>2. CASE StoreSession(r, LeftBy(r, {"errors"}), d)
    <3>1. cookie' = {q \in r.session : q[1] # "errors"} BY <2>2 DEF StoreSession, LeftBy
    <3>2. ASSUME NEW q \in Queued \ excused' PROVE Carried(q)'
      <4>1. q \notin excused /\ q \notin d /\ (cookie = r.session \/ (q \notin cookie /\ q \notin r.session)) BY <2>2, SessionStored
      <4>2. q \in cookie' <=> q \in cookie BY <3>1, <4>1
      <4>3. Carried(q) BY <4>1 DEF QueueInv
      <4> QED BY <1>1, <4>2, <4>3 DEF Carried
    <3> QED BY <1>2, <3>1, <3>2
  <2> QED BY <1>1, <2>1, <2>2
<1> QED BY <1>1, <1>3, <1>4 DEF QueueInv, Submitted

(* However visits, reloads and forms overlap, conflict and fail: a form is      *)
(* handled once, and what its handler queued is in the session or on one page.  *)
THEOREM QueuedIsShown == InertiaSpec => []QueuedShownOnce
<1>1. QueueInv /\ [InertiaNext]_browser => QueueInv'
  <2> SUFFICES ASSUME QueueInv, [InertiaNext]_browser PROVE QueueInv' OBVIOUS
  <2>1. CASE Deploy BY <2>1 DEF Deploy, QueueInv, Carried, Submitted
  <2>2. ASSUME NEW k \in Kinds, Conflict(k) \/ Handle(k) \/ Render(k) \/ Raise(k) PROVE QueueInv'
    BY <2>2, ConflictStep, HandleStep, RenderStep, RaiseStep
  <2>3. CASE UNCHANGED browser BY <2>3 DEF browser, QueueInv, Carried, Submitted
  <2> QED BY <2>1, <2>2, <2>3, Beginnings DEF InertiaNext
<1>2. QueueInv => QueuedShownOnce BY DEF QueueInv, Carried, QueuedShownOnce
<1> QED BY QueueInit, <1>1, <1>2, PTL DEF InertiaSpec

-------------------------------------------------------------------------------
(* Installer.                                                                 *)

OptionsOf(r) == runs[r].options
Planned(r) == runs[r].at \in {"shown", "writing", "ready", "not installed"}
AtWork(r) == runs[r].at \in {"writing", "ready", "not installed"}
\* n files are written, none of them by another command.
WroteUpTo(r, n) ==
    /\ runs[r].left = SubSeq(Files(OptionsOf(r)), n + 1, Len(Files(OptionsOf(r))))
    /\ \A i \in 1 .. n : Files(OptionsOf(r))[i] \in DOMAIN tree
    /\ runs[r].at # "writing" => n = Len(Files(OptionsOf(r)))
    /\ n > 0 => \A p \in DOMAIN tree : tree[p] \in {r, "others"}
Wrote(r) == \E n \in 0 .. Len(Files(OptionsOf(r))) : WroteUpTo(r, n)
Begun(r) == AtWork(r) /\ runs[r].left # Files(OptionsOf(r))
Shape(t) == t = [at |-> t.at, options |-> t.options, left |-> t.left]
ProjectInv ==
    /\ DOMAIN runs = Commands
    /\ \A r \in Commands :
          /\ Shape(runs[r]) /\ runs[r].at # "failed"
          /\ Planned(r) => OptionsOf(r) \in Options
          /\ AtWork(r) => Wrote(r)
    /\ \A r, q \in Commands : Begun(r) /\ Begun(q) => r = q
    /\ (\E p \in DOMAIN tree : tree[p] # "others") => "artisan" \in DOMAIN tree
    /\ foreign \subseteq DOMAIN tree /\ \A p \in foreign : tree[p] = "others"

LEMMA ProjectInit == InstallerInit => ProjectInv
<1> SUFFICES ASSUME InstallerInit PROVE ProjectInv OBVIOUS
<1>1. runs = [r \in Commands |-> Ended("new")] /\ tree = [p \in foreign |-> "others"] BY DEF InstallerInit
<1>2. \A r \in Commands : Shape(runs[r]) /\ runs[r].at = "new" BY <1>1 DEF Ended, Shape
<1> QED BY <1>1, <1>2 DEF ProjectInv, Planned, AtWork, Begun

LEMMA Changed ==
    ASSUME NEW u, Shape(u), NEW a, NEW c
    PROVE  /\ [u EXCEPT !.at = a] = [at |-> a, options |-> u.options, left |-> u.left]
           /\ [u EXCEPT !.left = c] = [at |-> u.at, options |-> u.options, left |-> c]
           /\ [u EXCEPT !.at = a, !.left = c] = [at |-> a, options |-> u.options, left |-> c]
<1> DEFINE x == u.at
           y == u.options
           z == u.left
<1>1. u = [at |-> x, options |-> y, left |-> z] BY DEF Shape
<1> HIDE DEF x, y, z
<1>2. [u EXCEPT !.at = a] = [at |-> a, options |-> y, left |-> z] BY <1>1
<1>3. [u EXCEPT !.left = c] = [at |-> x, options |-> y, left |-> c] BY <1>1
<1>4. [u EXCEPT !.at = a, !.left = c] = [at |-> a, options |-> y, left |-> c]
  <2> DEFINE v == [u EXCEPT !.at = a]
  <2>1. v = [at |-> a, options |-> y, left |-> z] BY <1>2
  <2> HIDE DEF v
  <2>2. [v EXCEPT !.left = c] = [at |-> a, options |-> y, left |-> c] BY <2>1
  <2>3. [u EXCEPT !.at = a, !.left = c] = [v EXCEPT !.left = c] BY DEF v
  <2> QED BY <2>2, <2>3
<1> QED BY <1>2, <1>3, <1>4 DEF x, y, z

LEMMA ChangedPlan ==
    ASSUME NEW u, Shape(u), NEW b
    PROVE  [u EXCEPT !.at = "shown", !.options = b] = [at |-> "shown", options |-> b, left |-> u.left]
<1> DEFINE v == [u EXCEPT !.at = "shown"]
<1>1. v = [at |-> "shown", options |-> u.options, left |-> u.left] BY Changed
<1> HIDE DEF v
<1>2. [v EXCEPT !.options = b] = [at |-> "shown", options |-> b, left |-> u.left] BY <1>1
<1>3. [u EXCEPT !.at = "shown", !.options = b] = [v EXCEPT !.options = b] BY DEF v
<1> QED BY <1>2, <1>3

(* The files of a plan, whatever was chosen.                                   *)
LEMMA PlanOf ==
    ASSUME NEW o \in Options
    PROVE  /\ Files(o) \in Seq(STRING) /\ Len(Files(o)) \in Nat /\ Len(Files(o)) > 0 /\ Files(o)[1] = "artisan"
           /\ Renders(o) /\ StandsAlone(o)
<1>1. Files(o) \in Seq(STRING) /\ Files(o) # <<>> /\ Head(Files(o)) = "artisan" /\ Renders(o) /\ StandsAlone(o)
  BY PlansStandAlone
<1> HIDE DEF Files
<1> QED BY <1>1

(* A command that has written its first file is the only one there is.          *)
LEMMA BegunFirst ==
    ASSUME ProjectInv, NEW r \in Commands, Begun(r)
    PROVE  "artisan" \in DOMAIN tree
<1>1. OptionsOf(r) \in Options /\ Wrote(r) /\ runs[r].left # Files(OptionsOf(r)) BY DEF ProjectInv, Begun, AtWork, Planned
<1> DEFINE f == Files(OptionsOf(r))
<1>2. f \in Seq(STRING) /\ Len(f) \in Nat /\ f[1] = "artisan" BY <1>1, PlanOf
<1>3. PICK n \in 0 .. Len(f) : runs[r].left = SubSeq(f, n + 1, Len(f)) /\ \A i \in 1 .. n : f[i] \in DOMAIN tree
  BY <1>1 DEF Wrote, WroteUpTo
<1> HIDE DEF f
<1>4. n # 0 
  <2> SUFFICES ASSUME n = 0 PROVE FALSE OBVIOUS
  <2>1. SubSeq(f, 1, Len(f)) = f BY <1>2
  <2> QED BY <1>1, <1>3, <2>1 DEF f
<1> QED BY <1>2, <1>3, <1>4

(* Another command that changes leaves what is true of this one.                *)
LEMMA OneRun ==
    ASSUME ProjectInv, NEW r \in Commands, NEW t, Shape(t), t.at # "failed", runs' = [runs EXCEPT ![r] = t],
           UNCHANGED <<tree, foreign>>,
           Planned(r)' => t.options \in Options, AtWork(r)' => Wrote(r)', Begun(r)' => Begun(r)
    PROVE  ProjectInv'
<1>1. runs'[r] = t /\ DOMAIN runs' = Commands /\ \A q \in Commands \ {r} : runs'[q] = runs[q] BY DEF ProjectInv
<1>2. ASSUME NEW q \in Commands \ {r}
      PROVE  (Planned(q)' <=> Planned(q)) /\ (AtWork(q)' <=> AtWork(q)) /\ (Begun(q)' <=> Begun(q)) /\ (Wrote(q)' <=> Wrote(q))
  <2>1. runs'[q] = runs[q] BY <1>1
  <2> QED BY <2>1 DEF Planned, AtWork, Begun, Wrote, WroteUpTo, OptionsOf
<1>3. \A q \in Commands : Shape(runs'[q]) /\ runs'[q].at # "failed" BY <1>1 DEF ProjectInv
<1>4. \A q \in Commands : Planned(q)' => OptionsOf(q)' \in Options
  <2> TAKE q \in Commands
  <2>1. CASE q = r BY <1>1, <2>1 DEF OptionsOf
  <2>2. CASE q # r
    <3>1. runs'[q] = runs[q] BY <1>1, <2>2
    <3> QED BY <1>2, <2>2, <3>1 DEF ProjectInv, OptionsOf
  <2> QED BY <2>1, <2>2
<1>5. \A q \in Commands : AtWork(q)' => Wrote(q)' BY <1>2 DEF ProjectInv
<1>6. \A q, p \in Commands : Begun(q)' /\ Begun(p)' => q = p BY <1>2 DEF ProjectInv
<1> QED BY <1>1, <1>3, <1>4, <1>5, <1>6 DEF ProjectInv

LEMMA EndStep ==
    ASSUME ProjectInv, NEW r \in Commands, NEW how \in {"refused", "shown only", "broken"}, EndAs(r, how), UNCHANGED <<tree, foreign>>
    PROVE  ProjectInv'
<1>1. runs' = [runs EXCEPT ![r] = Ended(how)] BY DEF EndAs
<1>2. Shape(Ended(how)) /\ Ended(how).at = how BY DEF Ended, Shape
<1>3. runs'[r].at = how BY <1>1, <1>2 DEF ProjectInv
<1>4. ~Planned(r)' /\ ~AtWork(r)' /\ ~Begun(r)' BY <1>3 DEF Planned, AtWork, Begun
<1> QED BY <1>1, <1>2, <1>4, OneRun

LEMMA PlanStep ==
    ASSUME ProjectInv, NEW r \in Commands, NEW given \in Given, NEW interactive \in BOOLEAN, Plan(r, given, interactive)
    PROVE  ProjectInv'
<1>1. CASE EndAs(r, "refused") BY <1>1, EndStep DEF Plan
<1>2. CASE ~EndAs(r, "refused")
  <2>1. PICK o : /\ o \in IF interactive THEN OptionsFor(given) ELSE {Defaults(given)}
                 /\ ValidOptions(o)
                 /\ IF ~Renders(o) THEN EndAs(r, "failed") ELSE runs' = [runs EXCEPT ![r].at = "shown", ![r].options = o]
    BY <1>2 DEF Plan
  <2>2. o \in Options
    <3>1. o.app \in Apps /\ o.database \in Databases /\ o.frontend \in Frontends BY <2>1 DEF ValidOptions
    <3>2. o = [app |-> o.app, database |-> o.database, frontend |-> o.frontend] BY <2>1 DEF OptionsFor, Defaults
    <3> QED BY <2>1, <3>1, <3>2 DEF Options
  <2>3. runs' = [runs EXCEPT ![r].at = "shown", ![r].options = o] BY <2>1, <2>2, PlanOf
  <2> DEFINE t == [runs[r] EXCEPT !.at = "shown", !.options = o]
  <2>4. Shape(t) /\ t.at = "shown" /\ t.options = o
    <3>1. Shape(runs[r]) BY DEF ProjectInv
    <3>2. t = [at |-> "shown", options |-> o, left |-> runs[r].left]
      BY <3>1, ChangedPlan
    <3> HIDE DEF t
    <3> QED BY <3>2 DEF Shape
  <2>5. runs' = [runs EXCEPT ![r] = t] /\ UNCHANGED <<tree, foreign>> BY <2>3 DEF Plan
  <2> HIDE DEF t
  <2>6. runs'[r].at = "shown" BY <2>4, <2>5 DEF ProjectInv
  <2>7. ~AtWork(r)' /\ ~Begun(r)' BY <2>6 DEF AtWork, Begun
  <2> QED BY <2>2, <2>4, <2>5, <2>7, OneRun
<1> QED BY <1>1, <1>2

LEMMA BeginWritingStep == ASSUME ProjectInv, NEW r \in Commands, BeginWriting(r) PROVE ProjectInv'
<1>1. CASE EndAs(r, "refused") BY <1>1, EndStep DEF BeginWriting
<1>2. CASE ~EndAs(r, "refused")
  <2> DEFINE o == runs[r].options
             f == Files(o)
             t == [runs[r] EXCEPT !.at = "writing", !.left = f]
  <2>1. runs[r].at = "shown" /\ runs' = [runs EXCEPT ![r] = t] /\ UNCHANGED <<tree, foreign>> BY <1>2 DEF BeginWriting
  <2>2. o \in Options BY <2>1 DEF ProjectInv, Planned, OptionsOf
  <2>3. f \in Seq(STRING) BY <2>2, PlanOf
  <2>4. f = SubSeq(f, 1, Len(f)) /\ Len(f) \in Nat BY <2>3
  <2>5. Shape(t) /\ t.at = "writing" /\ t.options = o /\ t.left = f
    <3> HIDE DEF f
    <3>1. Shape(runs[r]) BY DEF ProjectInv
    <3>2. t = [at |-> "writing", options |-> o, left |-> f] BY <3>1, Changed
    <3> HIDE DEF t
    <3> QED BY <3>2 DEF Shape
  <2> HIDE DEF t
  <2>6. runs'[r] = t BY <2>1 DEF ProjectInv
  <2>7. OptionsOf(r)' = o BY <2>5, <2>6 DEF OptionsOf
  <2>8. Files(OptionsOf(r))' = f BY <2>7
  <2> HIDE DEF f, o
  <2>9. WroteUpTo(r, 0)' BY <2>4, <2>5, <2>6, <2>8 DEF WroteUpTo
  <2>10. Wrote(r)' BY <2>4, <2>8, <2>9 DEF Wrote
  <2>11. ~Begun(r)' BY <2>5, <2>6, <2>8 DEF Begun
  <2> QED BY <2>1, <2>2, <2>5, <2>10, <2>11, OneRun
<1> QED BY <1>1, <1>2

LEMMA NothingLeft ==
    ASSUME NEW f \in Seq(STRING), NEW n \in 0 .. Len(f), SubSeq(f, n + 1, Len(f)) = <<>>
    PROVE  n = Len(f)
<1>1. Len(f) \in Nat OBVIOUS
<1> SUFFICES ASSUME n < Len(f) PROVE FALSE BY <1>1
<1>2. Len(SubSeq(f, n + 1, Len(f))) = Len(f) - n BY <1>1
<1>3. Len(SubSeq(f, n + 1, Len(f))) = 0
  <2> DEFINE g == SubSeq(f, n + 1, Len(f))
  <2>1. g = <<>> OBVIOUS
  <2> HIDE DEF g
  <2>2. Len(g) = 0 BY <2>1
  <2> QED BY <2>2 DEF g
<1> QED BY <1>1, <1>2, <1>3

LEMMA FinishStep == ASSUME ProjectInv, NEW r \in Commands, Finish(r) PROVE ProjectInv'
<1>1. PICK how \in {"ready", "not installed"} : runs' = [runs EXCEPT ![r].at = how] BY DEF Finish
<1> DEFINE o == runs[r].options
           f == Files(o)
           t == [runs[r] EXCEPT !.at = how]
<1>2. runs[r].at = "writing" /\ runs[r].left = <<>> /\ runs' = [runs EXCEPT ![r] = t] /\ UNCHANGED <<tree, foreign>>
  BY <1>1 DEF Finish
<1>3. Shape(t) /\ t.at = how /\ t.options = o /\ t.left = <<>> BY <1>2, Changed DEF ProjectInv, Shape
<1> HIDE DEF t
<1>4. o \in Options /\ Wrote(r) BY <1>2 DEF ProjectInv, Planned, AtWork, OptionsOf
<1>5. f \in Seq(STRING) /\ Len(f) \in Nat /\ Len(f) > 0 BY <1>4, PlanOf
<1>6. PICK n \in 0 .. Len(f) : WroteUpTo(r, n) BY <1>4 DEF Wrote, OptionsOf
<1>7. runs'[r] = t BY <1>2 DEF ProjectInv
<1>8. OptionsOf(r)' = o /\ OptionsOf(r) = o BY <1>3, <1>7 DEF OptionsOf
<1>9. Files(OptionsOf(r))' = f /\ Files(OptionsOf(r)) = f BY <1>8
<1> HIDE DEF f, o
<1>10. SubSeq(f, n + 1, Len(f)) = <<>> BY <1>2, <1>6, <1>9 DEF WroteUpTo
<1>11. n = Len(f) BY <1>5, <1>6, <1>10, NothingLeft DEF f
<1>12. WroteUpTo(r, n)' BY <1>2, <1>3, <1>6, <1>7, <1>9, <1>11 DEF WroteUpTo
<1>13. Wrote(r)' BY <1>9, <1>12 DEF Wrote
<1>14. Begun(r)' => Begun(r) BY <1>2, <1>3, <1>7, <1>9 DEF Begun, AtWork
<1> QED BY <1>2, <1>3, <1>4, <1>13, <1>14, OneRun

(* A file that others write may be one of the project's.                        *)
LEMMA OtherWritesStep == ASSUME ProjectInv, NEW path, OtherWrites(path) PROVE ProjectInv'
<1>1. /\ runs' = runs /\ foreign' = foreign \cup {path} /\ DOMAIN tree' = DOMAIN tree \cup {path}
      /\ \A p \in DOMAIN tree' : tree'[p] = IF p = path THEN "others" ELSE tree[p]
  BY DEF OtherWrites, Written
<1>2. ASSUME NEW r \in Commands
      PROVE  (Planned(r)' <=> Planned(r)) /\ (AtWork(r)' <=> AtWork(r)) /\ (Begun(r)' <=> Begun(r)) /\ (Wrote(r) => Wrote(r)')
  <2>1. (Planned(r)' <=> Planned(r)) /\ (AtWork(r)' <=> AtWork(r)) /\ (Begun(r)' <=> Begun(r)) BY <1>1 DEF Planned, AtWork, Begun, OptionsOf
  <2>2. \A n : WroteUpTo(r, n) => WroteUpTo(r, n)' BY <1>1 DEF WroteUpTo, OptionsOf
  <2>3. Files(OptionsOf(r))' = Files(OptionsOf(r)) BY <1>1 DEF OptionsOf
  <2> QED BY <2>1, <2>2, <2>3 DEF Wrote
<1>3. \A r \in Commands : /\ Shape(runs'[r]) /\ runs'[r].at # "failed"
                          /\ Planned(r)' => OptionsOf(r)' \in Options
                          /\ AtWork(r)' => Wrote(r)'
  BY <1>1, <1>2 DEF ProjectInv, OptionsOf
<1>4. \A r, q \in Commands : Begun(r)' /\ Begun(q)' => r = q BY <1>2 DEF ProjectInv
<1>5. (\E p \in DOMAIN tree' : tree'[p] # "others") => "artisan" \in DOMAIN tree' BY <1>1 DEF ProjectInv
<1>6. foreign' \subseteq DOMAIN tree' /\ \A p \in foreign' : tree'[p] = "others" BY <1>1 DEF ProjectInv
<1> QED BY <1>1, <1>3, <1>4, <1>5, <1>6 DEF ProjectInv

(* The next file of a command that has begun is its own to write; a command     *)
(* that has not finds the first file there when another one has.                *)
LEMMA WriteFileStep == ASSUME ProjectInv, NEW r \in Commands, WriteFile(r) PROVE ProjectInv'
<1>1. CASE EndAs(r, "broken") /\ UNCHANGED tree BY <1>1, EndStep DEF WriteFile
<1>2. CASE ~(EndAs(r, "broken") /\ UNCHANGED tree)
  <2> DEFINE o == runs[r].options
             f == Files(o)
             path == Head(runs[r].left)
             t == [runs[r] EXCEPT !.left = Tail(runs[r].left)]
  <2>1. /\ runs[r].at = "writing" /\ runs[r].left # <<>> /\ path \notin DOMAIN tree /\ UNCHANGED foreign
        /\ runs' = [runs EXCEPT ![r] = t] /\ tree' = Written(path, r)
    BY <1>2 DEF WriteFile
  <2>2. Shape(t) /\ t.at = "writing" /\ t.options = o /\ t.left = Tail(runs[r].left) BY <2>1, Changed DEF ProjectInv, Shape
  <2> HIDE DEF t
  <2>3. o \in Options /\ Wrote(r) BY <2>1 DEF ProjectInv, Planned, AtWork, OptionsOf
  <2>4. f \in Seq(STRING) /\ Len(f) \in Nat /\ Len(f) > 0 /\ f[1] = "artisan" BY <2>3, PlanOf
  <2>5. PICK n \in 0 .. Len(f) : WroteUpTo(r, n) BY <2>3 DEF Wrote, OptionsOf
  <2>6. runs'[r] = t /\ DOMAIN runs' = Commands /\ \A q \in Commands \ {r} : runs'[q] = runs[q] BY <2>1 DEF ProjectInv
  <2>7. OptionsOf(r)' = o /\ OptionsOf(r) = o BY <2>2, <2>6 DEF OptionsOf
  <2>8. Files(OptionsOf(r))' = f /\ Files(OptionsOf(r)) = f BY <2>7
  <2> HIDE DEF f, o
  <2>9. runs[r].left = SubSeq(f, n + 1, Len(f)) BY <2>5, <2>8 DEF WroteUpTo
  <2>10. n < Len(f) BY <2>1, <2>4, <2>9
  <2>11. path = f[n + 1] /\ t.left = SubSeq(f, n + 2, Len(f)) BY <2>2, <2>4, <2>9, <2>10
  <2> HIDE DEF path
  <2>12. DOMAIN tree' = DOMAIN tree \cup {path} /\ \A p \in DOMAIN tree' : tree'[p] = IF p = path THEN r ELSE tree[p]
    BY <2>1 DEF Written
  \* Nobody else has begun.
  <2>13. (n > 0 /\ Begun(r)) \/ (n = 0 /\ "artisan" \notin DOMAIN tree)
    <3>1. CASE n = 0 BY <2>1, <2>4, <2>11, <3>1
    <3>2. CASE n > 0
      <4>1. Len(SubSeq(f, n + 1, Len(f))) = Len(f) - n BY <2>4, <2>10
      <4>2. runs[r].left # f BY <2>4, <2>9, <3>2, <4>1
      <4> QED BY <2>1, <2>8, <3>2, <4>2 DEF Begun, AtWork
    <3> QED BY <3>1, <3>2
  <2>14. \A q \in Commands : Begun(q) => q = r BY <2>13, BegunFirst DEF ProjectInv
  <2>15. "artisan" \in DOMAIN tree'
    <3>1. CASE n = 0 BY <2>4, <2>11, <2>12, <3>1
    <3>2. CASE n > 0 BY <2>12, <2>13, <3>2, BegunFirst
    <3> QED BY <3>1, <3>2
  <2>16. \A p \in DOMAIN tree : tree[p] \in {r, "others"}
    <3>1. CASE n = 0 BY <2>13, <3>1 DEF ProjectInv
    <3>2. CASE n > 0 BY <2>5, <3>2 DEF WroteUpTo
    <3> QED BY <3>1, <3>2
  <2>17. Wrote(r)'
    <3>1. \A i \in 1 .. n + 1 : f[i] \in DOMAIN tree' BY <2>5, <2>8, <2>11, <2>12 DEF WroteUpTo
    <3>2. \A p \in DOMAIN tree' : tree'[p] \in {r, "others"} BY <2>12, <2>16
    <3>3. WroteUpTo(r, n + 1)' BY <2>2, <2>6, <2>8, <2>11, <3>1, <3>2 DEF WroteUpTo
    <3>4. n + 1 \in 0 .. Len(f) BY <2>4, <2>10
    <3> QED BY <2>8, <3>3, <3>4 DEF Wrote
  <2>18. ASSUME NEW q \in Commands \ {r}
         PROVE  (Planned(q)' <=> Planned(q)) /\ (AtWork(q)' <=> AtWork(q)) /\ ~Begun(q)' /\ (AtWork(q) => Wrote(q)')
    <3>1. runs'[q] = runs[q] /\ ~Begun(q) BY <2>6, <2>14
    <3>2. (Planned(q)' <=> Planned(q)) /\ (AtWork(q)' <=> AtWork(q)) /\ (Begun(q)' <=> Begun(q)) BY <3>1 DEF Planned, AtWork, Begun, OptionsOf
    <3>3. ASSUME AtWork(q) PROVE Wrote(q)'
      <4> DEFINE g == Files(OptionsOf(q))
      <4>1. runs[q].left = g BY <3>1, <3>3 DEF Begun
      <4>2. OptionsOf(q) \in Options /\ Wrote(q) BY <3>3 DEF ProjectInv, Planned, AtWork
      <4>3. g \in Seq(STRING) /\ Len(g) \in Nat /\ Len(g) > 0 BY <4>2, PlanOf
      <4>4. Files(OptionsOf(q))' = g BY <3>1 DEF OptionsOf
      <4> HIDE DEF g
      <4>5. PICK m \in 0 .. Len(g) : WroteUpTo(q, m) BY <4>2 DEF Wrote, g
      <4>6. g = SubSeq(g, m + 1, Len(g)) BY <4>1, <4>5 DEF WroteUpTo, g
      <4>7. m = 0 BY <4>3, <4>6
      <4>8. WroteUpTo(q, 0)' BY <3>1, <4>4, <4>5, <4>7 DEF WroteUpTo, g
      <4> QED BY <4>3, <4>4, <4>8 DEF Wrote
    <3> QED BY <3>1, <3>2, <3>3
  <2>19. \A q \in Commands : /\ Shape(runs'[q]) /\ runs'[q].at # "failed"
                             /\ Planned(q)' => OptionsOf(q)' \in Options
                             /\ AtWork(q)' => Wrote(q)'
    <3> TAKE q \in Commands
    <3>1. CASE q = r BY <2>2, <2>3, <2>6, <2>7, <2>17, <3>1
    <3>2. CASE q # r
      <4>1. runs'[q] = runs[q] BY <2>6, <3>2
      <4> QED BY <2>18, <3>2, <4>1 DEF ProjectInv, OptionsOf
    <3> QED BY <3>1, <3>2
  <2>20. \A q, p \in Commands : Begun(q)' /\ Begun(p)' => q = p BY <2>18
  <2>21. foreign' \subseteq DOMAIN tree' /\ \A p \in foreign' : tree'[p] = "others" BY <2>1, <2>12 DEF ProjectInv
  <2> QED BY <2>6, <2>15, <2>19, <2>20, <2>21 DEF ProjectInv
<1> QED BY <1>1, <1>2

(* However many commands run at a time, and whatever others write meanwhile, a   *)
(* project that is reported as written has all its files, no other command's     *)
(* among them, and what others wrote is left alone.                              *)
THEOREM ProjectsAreWhole == InstallerSpec => []GeneratedIsWhole
<1>1. ProjectInv /\ [InstallerNext]_installing => ProjectInv'
  <2> SUFFICES ASSUME ProjectInv, [InstallerNext]_installing PROVE ProjectInv' OBVIOUS
  <2>1. ASSUME NEW r \in Commands, Leave(r) PROVE ProjectInv' BY <2>1, EndStep DEF Leave
  <2>2. CASE UNCHANGED installing
    BY <2>2 DEF installing, ProjectInv, Planned, AtWork, Begun, Wrote, WroteUpTo, OptionsOf
  <2> QED BY <2>1, <2>2, PlanStep, BeginWritingStep, WriteFileStep, FinishStep, OtherWritesStep DEF InstallerNext
<1>2. ProjectInv => GeneratedIsWhole
  <2> SUFFICES ASSUME ProjectInv, NEW r \in Commands
               PROVE  /\ runs[r].at # "failed"
                      /\ runs[r].at = "shown" => StandsAlone(runs[r].options)
                      /\ runs[r].at \in {"ready", "not installed"} =>
                            /\ Range(Files(runs[r].options)) \subseteq DOMAIN tree
                            /\ Range(tree) \subseteq {r, "others"}
    BY DEF GeneratedIsWhole, ProjectInv
  <2>1. runs[r].at # "failed" BY DEF ProjectInv
  <2>2. runs[r].at = "shown" => StandsAlone(runs[r].options) BY PlanOf DEF ProjectInv, Planned, OptionsOf
  <2>3. ASSUME runs[r].at \in {"ready", "not installed"}
        PROVE  Range(Files(runs[r].options)) \subseteq DOMAIN tree /\ Range(tree) \subseteq {r, "others"}
    <3> DEFINE f == Files(runs[r].options)
    <3>1. runs[r].options \in Options /\ Wrote(r) BY <2>3 DEF ProjectInv, Planned, AtWork, OptionsOf
    <3>2. f \in Seq(STRING) /\ Len(f) \in Nat /\ Len(f) > 0 BY <3>1, PlanOf
    <3>3. PICK n \in 0 .. Len(f) : WroteUpTo(r, n) BY <3>1 DEF Wrote, OptionsOf
    <3>4. OptionsOf(r) = runs[r].options BY DEF OptionsOf
    <3>5. n = Len(f) /\ (\A i \in 1 .. n : f[i] \in DOMAIN tree) /\ (n > 0 => \A p \in DOMAIN tree : tree[p] \in {r, "others"})
      BY <2>3, <3>3, <3>4 DEF WroteUpTo
    <3> HIDE DEF f
    <3>6. DOMAIN f = 1 .. Len(f) BY <3>2
    <3>7. Range(f) \subseteq DOMAIN tree BY <3>5, <3>6 DEF Range
    <3>8. Range(tree) \subseteq {r, "others"} BY <3>2, <3>5 DEF Range
    <3> QED BY <3>7, <3>8 DEF f
  <2> QED BY <2>1, <2>2, <2>3
<1> QED BY ProjectInit, <1>1, <1>2, PTL DEF InstallerSpec
-------------------------------------------------------------------------------
(* Recorded conversations.  Of the sequences of at most three that a turn is     *)
(* made of: what flattening and joining them gives.                             *)

LEMMA FlattenedTwo ==
  ASSUME NEW S, NEW a \in Seq(S), NEW b \in Seq(S)
  PROVE  FlattenSeq(<<a, b>>) = a \o b
<1> DEFINE q == <<a, b>>
           Flattening(f) == [i \in 1 .. Len(q) |-> IF i = 1 THEN q[i] ELSE f[i - 1] \o q[i]]
           w == [i \in 1 .. 2 |-> IF i = 1 THEN a ELSE a \o b]
           g == CHOOSE f : f = Flattening(f)
<1>1. Len(q) = 2 /\ q[1] = a /\ q[2] = b
  OBVIOUS
<1>2. w = Flattening(w)
  BY <1>1
<1>3. FlattenSeq(q) = g[Len(q)]
  BY <1>1 DEF FlattenSeq
<1>4. g = Flattening(g)
  <2> HIDE DEF Flattening, w
  <2> QED BY <1>2
<1>5. g[1] = a
  <2> HIDE DEF g, q
  <2> QED BY <1>1, <1>4
<1>6. g[2] = g[1] \o b
  <2>1. 2 \in 1 .. Len(q) /\ 2 # 1 /\ 2 - 1 = 1
    BY <1>1
  <2>2. Flattening(g)[2] = g[2 - 1] \o q[2]
    <3> HIDE DEF g, q
    <3> QED BY <2>1
  <2> HIDE DEF g, q, Flattening
  <2> QED BY <1>1, <1>4, <2>1, <2>2
<1> HIDE DEF g, q
<1>7. FlattenSeq(q) = a \o b
  BY <1>1, <1>3, <1>5, <1>6
<1> QED BY <1>7 DEF q

Glue(a, b, c) == (a \o b) \o c
LEMMA FlattenedThree ==
  ASSUME NEW S, NEW a \in Seq(S), NEW b \in Seq(S), NEW c \in Seq(S)
  PROVE  FlattenSeq(<<a, b, c>>) = Glue(a, b, c)
<1> DEFINE q == <<a, b, c>>
           Flattening(f) == [i \in 1 .. Len(q) |-> IF i = 1 THEN q[i] ELSE f[i - 1] \o q[i]]
           w == [i \in 1 .. 3 |-> IF i = 1 THEN a ELSE IF i = 2 THEN a \o b ELSE (a \o b) \o c]
           g == CHOOSE f : f = Flattening(f)
<1>1. Len(q) = 3 /\ q[1] = a /\ q[2] = b /\ q[3] = c
  OBVIOUS
<1>2. w = Flattening(w)
  BY <1>1
<1>3. FlattenSeq(q) = g[Len(q)]
  BY <1>1 DEF FlattenSeq
<1>4. g = Flattening(g)
  <2> HIDE DEF Flattening, w
  <2> QED BY <1>2
<1>5. g[1] = a
  <2> HIDE DEF g, q
  <2> QED BY <1>1, <1>4
<1>6. g[2] = g[1] \o b /\ g[3] = g[2] \o c
  <2>1. 2 \in 1 .. Len(q) /\ 3 \in 1 .. Len(q) /\ 2 # 1 /\ 3 # 1 /\ 2 - 1 = 1 /\ 3 - 1 = 2
    BY <1>1
  <2>2. Flattening(g)[2] = g[2 - 1] \o q[2]
    <3> HIDE DEF g, q
    <3> QED BY <2>1
  <2>3. Flattening(g)[3] = g[3 - 1] \o q[3]
    <3> HIDE DEF g, q
    <3> QED BY <2>1
  <2> HIDE DEF g, q, Flattening
  <2> QED BY <1>1, <1>4, <2>1, <2>2, <2>3
<1> HIDE DEF g, q
<1>7. FlattenSeq(q) = (a \o b) \o c
  BY <1>1, <1>3, <1>5, <1>6
<1> QED BY <1>7 DEF q, Glue

LEMMA Glued ==
  ASSUME NEW S, NEW a \in S, NEW b \in S, NEW c \in S
  PROVE  /\ <<>> \o <<a>> = <<a>> /\ <<a>> \o <<b>> = <<a, b>> 
         /\ <<a, b>> \o <<>> = <<a, b>> /\ <<a, b>> \o <<c>> = <<a, b, c>> /\ <<a>> \o <<b, c>> = <<a, b, c>>
<1>1. <<a>> \o <<b>> = <<a, b>>
  <2> DEFINE s == <<a>> \o <<b>>
  <2>1. s \in Seq(S) /\ Len(s) = 2 /\ s[1] = a /\ s[2] = b
    OBVIOUS
  <2> HIDE DEF s
  <2>2. s = <<a, b>>
    BY <2>1
  <2> QED BY <2>2 DEF s
<1>2. <<a, b>> \o <<c>> = <<a, b, c>>
  <2> DEFINE s == <<a, b>> \o <<c>>
  <2>1. s \in Seq(S) /\ Len(s) = 3 /\ s[1] = a /\ s[2] = b /\ s[3] = c
    OBVIOUS
  <2> HIDE DEF s
  <2>2. s = <<a, b, c>>
    BY <2>1
  <2> QED BY <2>2 DEF s
<1>3. <<a>> \o <<b, c>> = <<a, b, c>>
  <2> DEFINE s == <<a>> \o <<b, c>>
  <2>1. s \in Seq(S) /\ Len(s) = 3 /\ s[1] = a /\ s[2] = b /\ s[3] = c
    OBVIOUS
  <2> HIDE DEF s
  <2>2. s = <<a, b, c>>
    BY <2>1
  <2> QED BY <2>2 DEF s
<1>4. <<>> \o <<a>> = <<a>> /\ <<a, b>> \o <<>> = <<a, b>>
  OBVIOUS
<1> QED BY <1>1, <1>2, <1>3, <1>4

(* What is asked for, what a turn and a history may be.                         *)
Wants == {<<>>} \cup {<<t>> : t \in Tools}
Message == [type : {"human", "ai", "tool"}, text : Prompts \cup Nat, tools : Seq(Tools)]
AgentTurn == {TurnMessages(m, n, ts) : m \in Prompts, n \in 1 .. MaxLive, ts \in Wants}

LEMMA TurnIs ==
  ASSUME NEW m \in Prompts, NEW n \in Nat, NEW ts \in Wants,
         NEW turn, turn = TurnMessages(m, n, ts)
  PROVE  /\ turn \in Seq(Message) /\ turn # <<>>
         /\ turn[1].text = m /\ TextOf(turn) = n /\ ToolCalls(turn) = ts
         /\ EntriesOf(m, turn) = turn
<1>5. <<>> \in Seq(Tools) /\ ts \in Seq(Tools)
  <2>1. CASE ts = <<>>
    BY <2>1
  <2>2. CASE \E t \in Tools : ts = <<t>>
    BY <2>2
  <2> QED BY <2>1, <2>2 DEF Wants
<1>1. Human(m) \in Message /\ AI(n, ts) \in Message /\ ToolSaid(n) \in Message
  BY <1>5 DEF Human, AI, ToolSaid, Message
<1> DEFINE h == Human(m)
           a == AI(n, ts)
           r == ToolSaid(n)
<1>2. /\ h.type = "human" /\ h.text = m /\ h.tools = <<>>
      /\ a.type = "ai" /\ a.tools = ts /\ (ts = <<>> => a.text = n)
      /\ r.type = "tool" /\ r.text = n /\ r.tools = <<>>
  BY DEF Human, AI, ToolSaid
<1>3. turn = <<h, a>> \o [i \in 1 .. Len(ts) |-> r]
  BY DEF TurnMessages
<1> HIDE DEF h, a, r
<1>4. h \in Message /\ a \in Message /\ r \in Message
  BY <1>1 DEF h, a, r
<1>6. <<>> \in Seq(Message) /\ <<a>> \in Seq(Message) /\ <<r>> \in Seq(Message)
  BY <1>4
<1>7. CASE ts = <<>>
  <2>1. turn = <<h, a>>
    <3>1. [i \in 1 .. Len(ts) |-> r] = <<>>
      BY <1>7
    <3>2. <<h, a>> \o <<>> = <<h, a>>
      BY <1>4
    <3> QED BY <1>3, <3>1, <3>2
  <2>2. turn \in Seq(Message) /\ turn # <<>> /\ Len(turn) = 2 /\ turn[1] = h /\ turn[2] = a
    BY <2>1, <1>4
  <2>3. TextOf(turn) = n
    BY <2>2, <1>2, <1>7 DEF TextOf, Last
  <2>4. ToolCalls(turn) = ts
    <3>1. [i \in 1 .. Len(turn) |-> turn[i].tools] = <<<<>>, ts>>
      BY <2>2, <1>2, <1>7
    <3>2. <<>> \o ts = ts
      BY <1>5
    <3> QED BY <3>1, <3>2, <1>5, FlattenedTwo DEF ToolCalls
  <2>5. EntriesFromMessages(turn) = <<a>>
    <3>1. [i \in 1 .. Len(turn) |-> IF turn[i].type = "human" THEN <<>> ELSE <<turn[i]>>] = <<<<>>, <<a>>>>
      BY <2>2, <1>2, <1>7
    <3>2. <<>> \o <<a>> = <<a>>
      BY <1>4
    <3> QED BY <3>1, <3>2, <1>6, FlattenedTwo DEF EntriesFromMessages
  <2>6. EntriesOf(m, turn) = turn
    <3>1. <<h>> \o <<a>> = <<h, a>>
      BY <1>4, Glued
    <3> QED BY <2>1, <2>5, <3>1 DEF EntriesOf, h
  <2>7. turn[1].text = m
    BY <2>2, <1>2
  <2> QED BY <2>2, <2>3, <2>4, <2>6, <2>7
<1>8. CASE ts # <<>>
  <2>0. PICK t \in Tools : ts = <<t>>
    BY <1>8 DEF Wants
  <2>1. turn = <<h, a, r>>
    <3>1. [i \in 1 .. Len(ts) |-> r] = <<r>>
      BY <2>0
    <3>2. <<h, a>> \o <<r>> = <<h, a, r>>
      BY <1>4, Glued
    <3> QED BY <1>3, <3>1, <3>2
  <2>2. turn \in Seq(Message) /\ turn # <<>> /\ Len(turn) = 3 /\ turn[1] = h /\ turn[2] = a /\ turn[3] = r
    BY <2>1, <1>4
  <2>3. TextOf(turn) = n
    BY <2>2, <1>2 DEF TextOf, Last
  <2>4. ToolCalls(turn) = ts
    <3>1. [i \in 1 .. Len(turn) |-> turn[i].tools] = <<<<>>, ts, <<>>>>
      BY <2>2, <1>2
    <3>2. (<<>> \o ts) \o <<>> = ts
      BY <1>5
    <3>3. FlattenSeq(<<<<>>, ts, <<>>>>) = (<<>> \o ts) \o <<>>
      <4> DEFINE x == <<>>
                 y == ts
      <4>1. x \in Seq(Tools) /\ y \in Seq(Tools)
        BY <1>5
      <4> HIDE DEF x, y
      <4>2. FlattenSeq(<<x, y, x>>) = Glue(x, y, x)
        BY <4>1, FlattenedThree
      <4> QED BY <4>2 DEF Glue, x, y
    <3> QED BY <3>1, <3>2, <3>3 DEF ToolCalls
  <2>5. EntriesFromMessages(turn) = <<a, r>>
    <3>1. [i \in 1 .. Len(turn) |-> IF turn[i].type = "human" THEN <<>> ELSE <<turn[i]>>] = <<<<>>, <<a>>, <<r>>>>
      BY <2>2, <1>2
    <3>2. (<<>> \o <<a>>) \o <<r>> = <<a, r>>
      BY <1>4, Glued
    <3>3. FlattenSeq(<<<<>>, <<a>>, <<r>>>>) = (<<>> \o <<a>>) \o <<r>>
      <4> DEFINE x == <<>>
                 y == <<a>>
                 z == <<r>>
      <4>1. x \in Seq(Message) /\ y \in Seq(Message) /\ z \in Seq(Message)
        BY <1>6
      <4> HIDE DEF x, y, z
      <4>2. FlattenSeq(<<x, y, z>>) = Glue(x, y, z)
        BY <4>1, FlattenedThree
      <4> QED BY <4>2 DEF Glue, x, y, z
    <3> QED BY <3>1, <3>2, <3>3 DEF EntriesFromMessages
  <2>6. EntriesOf(m, turn) = turn
    <3>1. <<h>> \o <<a, r>> = <<h, a, r>>
      BY <1>4, Glued
    <3> QED BY <2>1, <2>5, <3>1 DEF EntriesOf, h
  <2>7. turn[1].text = m
    BY <2>2, <1>2
  <2> QED BY <2>2, <2>3, <2>4, <2>6, <2>7
<1> QED BY <1>7, <1>8

(* What a session remembers, and what it says of the turns it was given.        *)
Remark == [role : {"user", "assistant"}, text : Prompts \cup 1 .. MaxLive, tools : Seq(Tools)]
GivenTurn == Prompts \X AgentTurn
SessionState == [seed : Seeds, records : Seq(Remark), tokens : Nat, trajectory : Seq(Tools), turns : Seq(GivenTurn)]
LiveAnswer == [seed : Seeds, before : Seq(GivenTurn), message : Prompts, turn : AgentTurn]
Tells(records, turns) ==
    /\ Len(records) = 2 * Len(turns)
    /\ \A i \in 1 .. Len(turns) : /\ records[2 * i - 1].role = "user" /\ records[2 * i - 1].text = turns[i][1]
                                /\ records[2 * i].role = "assistant" /\ records[2 * i].text = TextOf(turns[i][2])

Joined(h, a, b) == /\ Len(h) = Len(a) + Len(b)
                   /\ \A i \in 1 .. Len(a) : h[i] = a[i]
                   /\ \A i \in 1 .. Len(b) : h[Len(a) + i] = b[i]

LEMMA Joins ==
  ASSUME NEW A, NEW B, NEW a \in Seq(A), NEW b \in Seq(B)
  PROVE  Joined(a \o b, a, b)
  BY DEF Joined

LEMMA NoLongerSeed ==
  ASSUME NEW s1 \in Seeds, NEW s2 \in Seeds, NEW r1 \in Seq(Remark), NEW r2 \in Seq(Remark),
         NEW t1 \in Seq(GivenTurn), NEW t2 \in Seq(GivenTurn), Tells(r1, t1), Tells(r2, t2),
         NEW h, Joined(h, s1, r1), Joined(h, s2, r2), Len(s1) < Len(s2),
         \A i \in 1 .. Len(t1) : TextOf(t1[i][2]) \in 1 .. MaxLive
  PROVE  FALSE
<1> DEFINE A == {s1[i] : i \in DOMAIN s1}
           B == {s2[i] : i \in DOMAIN s2}
<1>1. s1 \in Seq(A) /\ s2 \in Seq(B)
  BY SeedsAreHistories
<1> HIDE DEF A, B
<1>2. /\ Len(h) = Len(s1) + Len(r1)
      /\ \A i \in 1 .. Len(r1) : h[Len(s1) + i] = r1[i]
  BY DEF Joined
<1>3. /\ Len(h) = Len(s2) + Len(r2)
      /\ \A i \in 1 .. Len(s2) : h[i] = s2[i]
      /\ \A i \in 1 .. Len(r2) : h[Len(s2) + i] = r2[i]
  BY DEF Joined
<1>4. Len(s1) \in Nat /\ Len(s2) \in Nat /\ Len(t1) \in Nat /\ Len(t2) \in Nat
  BY <1>1
<1>5. Len(r1) = 2 * Len(t1) /\ Len(r2) = 2 * Len(t2) /\ Len(t1) > 0
  BY <1>2, <1>3, <1>4 DEF Tells
<1>6. r1[2].role = "assistant" /\ r1[2].text \in 1 .. MaxLive
  <2>1. 1 \in 1 .. Len(t1) /\ 2 * 1 = 2
    BY <1>4, <1>5
  <2> QED BY <2>1 DEF Tells
<1>7. h[Len(s1) + 2] = r1[2]
  BY <1>2, <1>4, <1>5
<1>8. CASE Len(s2) = Len(s1) + 1
  <2>1. Len(t2) > 0 /\ 1 \in 1 .. Len(t2) /\ 2 * 1 - 1 = 1
    BY <1>2, <1>3, <1>4, <1>5, <1>8
  <2>2. r2[1].role = "user"
    BY <2>1 DEF Tells
  <2>3. h[Len(s2) + 1] = r2[1]
    BY <1>3, <1>4, <1>5, <2>1
  <2>4. Len(s2) + 1 = Len(s1) + 2
    BY <1>4, <1>8
  <2> QED BY <2>2, <2>3, <2>4, <1>6, <1>7
<1>9. CASE Len(s2) >= Len(s1) + 2
  <2>1. Len(s1) + 2 \in 1 .. Len(s2)
    BY <1>4, <1>9
  <2>2. s2[Len(s1) + 2] = r1[2]
    BY <2>1, <1>3, <1>7
  <2> QED BY <2>1, <2>2, <1>6, SeedsAreHistories
<1> QED BY <1>4, <1>8, <1>9

LEMMA OneSeed ==
  ASSUME NEW s1 \in Seeds, NEW s2 \in Seeds, NEW r1 \in Seq(Remark), NEW r2 \in Seq(Remark),
         NEW t1 \in Seq(GivenTurn), NEW t2 \in Seq(GivenTurn), Tells(r1, t1), Tells(r2, t2),
         NEW h, Joined(h, s1, r1), Joined(h, s2, r2), \A i \in 1 .. Len(t1) : TextOf(t1[i][2]) \in 1 .. MaxLive,
         \A i \in 1 .. Len(t2) : TextOf(t2[i][2]) \in 1 .. MaxLive
  PROVE  s1 = s2 /\ r1 = r2
<1> DEFINE A == {s1[i] : i \in DOMAIN s1}
           B == {s2[i] : i \in DOMAIN s2}
<1>1. s1 \in Seq(A) /\ s2 \in Seq(B)
  BY SeedsAreHistories
<1> HIDE DEF A, B
<1>3. Len(s1) = Len(s2) /\ Len(s1) \in Nat
  <2>1. ~(Len(s1) < Len(s2)) /\ ~(Len(s2) < Len(s1))
    BY NoLongerSeed
  <2> QED BY <1>1, <2>1
<1>4. /\ Len(h) = Len(s1) + Len(r1)
      /\ \A i \in 1 .. Len(s1) : h[i] = s1[i]
      /\ \A i \in 1 .. Len(r1) : h[Len(s1) + i] = r1[i]
  BY DEF Joined
<1>5. /\ Len(h) = Len(s2) + Len(r2)
      /\ \A i \in 1 .. Len(s2) : h[i] = s2[i]
      /\ \A i \in 1 .. Len(r2) : h[Len(s2) + i] = r2[i]
  BY DEF Joined
<1>6. Len(r1) = Len(r2)
  BY <1>3, <1>4, <1>5
<1>7. s1 = s2
  <2>1. s1 = [i \in 1 .. Len(s1) |-> s1[i]] /\ s2 = [i \in 1 .. Len(s2) |-> s2[i]]
    BY <1>1
  <2>2. \A i \in 1 .. Len(s1) : s1[i] = s2[i]
    BY <1>3, <1>4, <1>5
  <2> QED BY <1>3, <2>1, <2>2
<1>8. r1 = r2
  <2>1. r1 = [i \in 1 .. Len(r1) |-> r1[i]] /\ r2 = [i \in 1 .. Len(r2) |-> r2[i]]
    OBVIOUS
  <2>2. \A i \in 1 .. Len(r1) : r1[i] = r2[i]
    BY <1>3, <1>4, <1>5, <1>6
  <2> QED BY <1>6, <2>1, <2>2
<1> QED BY <1>7, <1>8

(* The invariant: what is kept in the cassette, in what a call has read of it,   *)
(* or is about to be kept, is a live turn under the history it was given to.     *)
Numbered ==
    /\ \A l \in live : TextOf(l.turn) \in 1 .. Cardinality(live) /\ l.turn[1].text = l.message
    /\ \A k, l \in live : TextOf(k.turn) = TextOf(l.turn) => k = l
FromLive(given) == \E l \in live : given = <<l.message, l.turn>>
KeptWell(r) == \E l \in live :
    r.turn = l.turn /\ \E rs \in Seq(Remark) : r.key = <<l.seed \o rs, l.message>> /\ Tells(rs, l.before)
RecordingTypeOK ==
    /\ sessions \in [Sessions -> SessionState] /\ asked = [s \in Sessions |-> asked[s]]
    /\ live \in SUBSET LiveAnswer /\ IsFiniteSet(live) /\ Cardinality(live) <= MaxLive
RecordingInv ==
    /\ RecordingTypeOK /\ Numbered
    /\ \A s \in Sessions : Tells(sessions[s].records, sessions[s].turns)
    /\ \A l \in live : \A i \in 1 .. Len(l.before) : FromLive(l.before[i])
    /\ AnswersItsConversation
    /\ \A r \in cassette : KeptWell(r)
    /\ \A s \in Sessions : asked[s] # NoCall =>
         /\ \A r \in asked[s].store : KeptWell(r)
         /\ \E l \in live : /\ asked[s].turn = l.turn /\ asked[s].key = Key(s, l.message)
                           /\ l.seed = sessions[s].seed /\ l.before = sessions[s].turns

LEMMA RecordingStarts == RecordingInit => RecordingInv
<1> SUFFICES ASSUME RecordingInit PROVE RecordingInv
  OBVIOUS
<1>1. live = {} /\ cassette = {} /\ asked = [s \in Sessions |-> NoCall]
  BY DEF RecordingInit
<1>2. \A s \in Sessions : \E h \in Seeds :
         sessions[s] = [seed |-> h, records |-> <<>>, tokens |-> 0, trajectory |-> <<>>, turns |-> <<>>]
  BY DEF RecordingInit
<1>3. sessions \in [Sessions -> SessionState]
  <2>1. sessions = [s \in Sessions |-> sessions[s]]
    BY DEF RecordingInit
  <2>2. \A h \in Seeds : [seed |-> h, records |-> <<>>, tokens |-> 0, trajectory |-> <<>>, turns |-> <<>>] \in SessionState
    BY DEF SessionState
  <2> QED BY <1>2, <2>1, <2>2
<1>4. IsFiniteSet(live) /\ Cardinality(live) = 0
  BY <1>1, FS_EmptySet
<1>5. RecordingTypeOK
  BY <1>1, <1>3, <1>4, SeedsAreHistories DEF RecordingTypeOK
<1>6. \A s \in Sessions : sessions[s].records = <<>> /\ sessions[s].turns = <<>>
  <2> TAKE s \in Sessions
  <2>1. PICK h \in Seeds :
          sessions[s] = [seed |-> h, records |-> <<>>, tokens |-> 0, trajectory |-> <<>>, turns |-> <<>>]
    BY <1>2
  <2> QED BY <2>1
<1>7. (\A s \in Sessions : Tells(sessions[s].records, sessions[s].turns)) /\ AnswersItsConversation
  BY <1>6 DEF Tells, AnswersItsConversation
<1> QED BY <1>1, <1>5, <1>7 DEF RecordingInv, Numbered

(* What a turn of the invariant is.                                             *)
LEMMA LiveTurn ==
  ASSUME RecordingInv, NEW l \in live
  PROVE  /\ l \in LiveAnswer /\ l.turn # <<>> /\ l.turn[1].text = l.message
         /\ TextOf(l.turn) \in 1 .. MaxLive /\ ToolCalls(l.turn) \in Seq(Tools)
         /\ EntriesOf(l.message, l.turn) = l.turn /\ Uses(l.turn) \in Nat
<1>1. l \in LiveAnswer /\ l.turn[1].text = l.message
  BY DEF RecordingInv, RecordingTypeOK, Numbered
<1>2. TextOf(l.turn) \in 1 .. MaxLive
  <2>1. TextOf(l.turn) \in 1 .. Cardinality(live) /\ Cardinality(live) <= MaxLive /\ Cardinality(live) \in Nat
    BY FS_CardinalityType DEF RecordingInv, RecordingTypeOK, Numbered
  <2> QED BY <2>1, SeedsAreHistories
<1>3. PICK m \in Prompts, n \in 1 .. MaxLive, ts \in Wants : l.turn = TurnMessages(m, n, ts)
  BY <1>1 DEF LiveAnswer, AgentTurn
<1>4. n \in Nat
  BY SeedsAreHistories
<1>5. /\ l.turn \in Seq(Message) /\ l.turn # <<>> /\ l.turn[1].text = m
      /\ ToolCalls(l.turn) = ts /\ EntriesOf(m, l.turn) = l.turn
  BY <1>3, <1>4, TurnIs
<1>6. ts \in Seq(Tools)
  <2>1. CASE ts = <<>>
    BY <2>1
  <2>2. CASE \E t \in Tools : ts = <<t>>
    BY <2>2
  <2> QED BY <2>1, <2>2 DEF Wants
<1>7. Uses(l.turn) \in Nat
  <2>1. IsFiniteSet(1 .. Len(l.turn))
    BY <1>5, FS_Interval
  <2>2. {i \in 1 .. Len(l.turn) : l.turn[i].type = "ai"} \subseteq 1 .. Len(l.turn)
    OBVIOUS
  <2> QED BY <2>1, <2>2, FS_Subset, FS_CardinalityType DEF Uses
<1> QED BY <1>1, <1>2, <1>5, <1>6, <1>7

Memory(e, r, n, j, u) == [seed |-> e, records |-> r, tokens |-> n, trajectory |-> j, turns |-> u]
Counts(f, s, z)    == [f EXCEPT ![s].tokens = z]
Follows(f, s, z)   == [f EXCEPT ![s].trajectory = z]
Records(f, s, z)   == [f EXCEPT ![s].records = z]
Turns(f, s, z)     == [f EXCEPT ![s].turns = z]
Becomes(f, s, z)   == [f EXCEPT ![s] = z]
LEMMA FieldSet ==
  ASSUME NEW f, NEW s \in DOMAIN f, NEW e, NEW r, NEW n, NEW j, NEW u,
         f[s] = Memory(e, r, n, j, u), NEW z
  PROVE  /\ Counts(f, s, z) = Becomes(f, s, Memory(e, r, z, j, u))
         /\ Follows(f, s, z) = Becomes(f, s, Memory(e, r, n, z, u))
         /\ Records(f, s, z) = Becomes(f, s, Memory(e, z, n, j, u))
         /\ Turns(f, s, z) = Becomes(f, s, Memory(e, r, n, j, z))
<1> DEFINE x == f[s]
<1>0. x = Memory(e, r, n, j, u)
  OBVIOUS
<1> HIDE DEF x
<1>1. [x EXCEPT !.tokens = z] = Memory(e, r, z, j, u)
  BY <1>0 DEF Memory
<1>2. [x EXCEPT !.trajectory = z] = Memory(e, r, n, z, u)
  BY <1>0 DEF Memory
<1>3. [x EXCEPT !.records = z] = Memory(e, z, n, j, u)
  BY <1>0 DEF Memory
<1>4. [x EXCEPT !.turns = z] = Memory(e, r, n, j, z)
  BY <1>0 DEF Memory
<1>5. /\ [f EXCEPT ![s].tokens = z] = [f EXCEPT ![s] = [x EXCEPT !.tokens = z]]
      /\ [f EXCEPT ![s].trajectory = z] = [f EXCEPT ![s] = [x EXCEPT !.trajectory = z]]
      /\ [f EXCEPT ![s].records = z] = [f EXCEPT ![s] = [x EXCEPT !.records = z]]
      /\ [f EXCEPT ![s].turns = z] = [f EXCEPT ![s] = [x EXCEPT !.turns = z]]
  BY DEF x
<1> QED BY <1>1, <1>2, <1>3, <1>4, <1>5 DEF Counts, Follows, Records, Turns, Becomes

(* What remembering a turn makes of the sessions.                               *)
LEMMA RemarksAre ==
  ASSUME NEW s, NEW m \in Prompts, NEW turn,
         TextOf(turn) \in 1 .. MaxLive, ToolCalls(turn) \in Seq(Tools)
  PROVE  /\ RememberTurn(s, m, turn) \in Seq(Remark) /\ Len(RememberTurn(s, m, turn)) = 2
         /\ RememberTurn(s, m, turn)[1].role = "user" /\ RememberTurn(s, m, turn)[1].text = m
         /\ RememberTurn(s, m, turn)[2].role = "assistant" /\ RememberTurn(s, m, turn)[2].text = TextOf(turn)
<1> DEFINE u == [role |-> "user", text |-> m, tools |-> <<>>]
           a == [role |-> "assistant", text |-> TextOf(turn), tools |-> ToolCalls(turn)]
<1>1. u \in Remark /\ a \in Remark
  BY DEF Remark
<1>2. u.role = "user" /\ u.text = m /\ a.role = "assistant" /\ a.text = TextOf(turn)
  OBVIOUS
<1>3. RememberTurn(s, m, turn) = <<u, a>>
  BY DEF RememberTurn
<1> HIDE DEF u, a
<1> QED BY <1>1, <1>2, <1>3

HasRemembered(v, s, m, turn) ==
    /\ v \in [Sessions -> SessionState] /\ \A q \in Sessions : q # s => v[q] = sessions[q]
    /\ v[s].seed = sessions[s].seed
    /\ v[s].records = sessions[s].records \o RememberTurn(s, m, turn)
    /\ v[s].turns = Append(sessions[s].turns, <<m, turn>>)

LEMMA RememberedIs ==
  ASSUME sessions \in [Sessions -> SessionState], NEW s \in Sessions, NEW m \in Prompts, NEW turn \in AgentTurn,
         TextOf(turn) \in 1 .. MaxLive, ToolCalls(turn) \in Seq(Tools), Uses(turn) \in Nat,
         NEW v, v = Remembered(s, m, turn)
  PROVE  HasRemembered(v, s, m, turn)
<1> DEFINE r == RememberTurn(s, m, turn)
           x == sessions[s]
           y == [seed |-> x.seed, records |-> x.records \o r, tokens |-> x.tokens + Uses(turn),
                 trajectory |-> x.trajectory \o ToolCalls(turn), turns |-> Append(x.turns, <<m, turn>>)]
<1>1. r \in Seq(Remark)
  BY RemarksAre
<1>2. x \in SessionState
  OBVIOUS
<1>3. <<m, turn>> \in GivenTurn
  BY DEF GivenTurn
<1>4. y \in SessionState
  <2> HIDE DEF x, r
  <2> QED BY <1>1, <1>2, <1>3 DEF SessionState
<1>5. v = [sessions EXCEPT ![s] = y]
  <2> DEFINE N == x.tokens + Uses(turn)
             J == x.trajectory \o ToolCalls(turn)
             R == x.records \o r
             T == Append(x.turns, <<m, turn>>)
             a == Counts(sessions, s, N)
             b == Follows(a, s, J)
             c == Records(b, s, R)
             d == Turns(c, s, T)
  <2>1. s \in DOMAIN sessions /\ x = Memory(x.seed, x.records, x.tokens, x.trajectory, x.turns)
    BY <1>2 DEF SessionState, Memory
  <2>2. a = Becomes(sessions, s, Memory(x.seed, x.records, N, x.trajectory, x.turns))
    BY <2>1, FieldSet
  <2> HIDE DEF N, J, R, T, a
  <2>3. s \in DOMAIN a /\ a[s] = Memory(x.seed, x.records, N, x.trajectory, x.turns)
    BY <2>1, <2>2 DEF Becomes
  <2>4. b = Becomes(a, s, Memory(x.seed, x.records, N, J, x.turns))
    BY <2>3, FieldSet
  <2> HIDE DEF b
  <2>5. s \in DOMAIN b /\ b[s] = Memory(x.seed, x.records, N, J, x.turns)
    BY <2>3, <2>4 DEF Becomes
  <2>6. c = Becomes(b, s, Memory(x.seed, R, N, J, x.turns))
    BY <2>5, FieldSet
  <2> HIDE DEF c
  <2>7. s \in DOMAIN c /\ c[s] = Memory(x.seed, R, N, J, x.turns)
    BY <2>5, <2>6 DEF Becomes
  <2>8. d = Becomes(c, s, Memory(x.seed, R, N, J, T))
    BY <2>7, FieldSet
  <2>9. y = Memory(x.seed, R, N, J, T)
    BY DEF Memory, R, N, J, T
  <2>10. d = [sessions EXCEPT ![s] = y]
    <3> HIDE DEF d, y
    <3> QED BY <2>1, <2>2, <2>4, <2>6, <2>8, <2>9 DEF Becomes
  <2>11. v = d
    <3>1. b[s].records = x.records /\ c[s].turns = x.turns /\ a[s].trajectory = x.trajectory
      BY <2>3, <2>5, <2>7 DEF Memory
    <3>2. v = [[[[sessions EXCEPT ![s].tokens = @ + Uses(turn)]
                     EXCEPT ![s].trajectory = @ \o ToolCalls(turn)]
                     EXCEPT ![s].records = @ \o r]
                     EXCEPT ![s].turns = Append(@, <<m, turn>>)]
      BY DEF Remembered
    <3> QED BY <3>1, <3>2 DEF a, b, c, N, J, R, T, Counts, Follows, Records, Turns
  <2> QED BY <2>10, <2>11
<1>6. y.seed = x.seed /\ y.records = x.records \o r /\ y.turns = Append(x.turns, <<m, turn>>)
  OBVIOUS
<1> HIDE DEF y
<1> QED BY <1>4, <1>5, <1>6 DEF HasRemembered

LEMMA Begins ==
  ASSUME NEW S, NEW t \in Seq(S), NEW x \in S
  PROVE  /\ Append(t, x) \in Seq(S) /\ Len(Append(t, x)) = Len(t) + 1 /\ Append(t, x)[Len(t) + 1] = x
         /\ \A i \in 1 .. Len(t) : Append(t, x)[i] = t[i]
         /\ \A i \in 1 .. Len(t) : SubSeq(Append(t, x), 1, i - 1) = SubSeq(t, 1, i - 1)
         /\ SubSeq(Append(t, x), 1, Len(t)) = t
<1>1. /\ Append(t, x) \in Seq(S) /\ Len(Append(t, x)) = Len(t) + 1 /\ Append(t, x)[Len(t) + 1] = x
      /\ \A i \in 1 .. Len(t) : Append(t, x)[i] = t[i]
  OBVIOUS
<1>2. ASSUME NEW i \in 1 .. Len(t) PROVE SubSeq(Append(t, x), 1, i - 1) = SubSeq(t, 1, i - 1)
  BY <1>2
<1>3. SubSeq(Append(t, x), 1, Len(t)) = t
  OBVIOUS
<1> QED BY <1>1, <1>2, <1>3

LEMMA TellsMore ==
  ASSUME NEW r \in Seq(Remark), NEW t \in Seq(GivenTurn), Tells(r, t), NEW m \in Prompts, NEW turn \in AgentTurn,
         NEW e \in Seq(Remark), Len(e) = 2, e[1].role = "user", e[1].text = m,
         e[2].role = "assistant", e[2].text = TextOf(turn)
  PROVE  Tells(r \o e, Append(t, <<m, turn>>))
<1> DEFINE g == <<m, turn>>
           u == Append(t, g)
           h == r \o e
<1>1. g \in GivenTurn /\ g[1] = m /\ g[2] = turn
  BY DEF GivenTurn
<1>2. Len(u) = Len(t) + 1 /\ u[Len(t) + 1] = g /\ \A i \in 1 .. Len(t) : u[i] = t[i]
  BY <1>1, Begins
<1>3. Len(h) = Len(r) + 2 /\ h[Len(r) + 1] = e[1] /\ h[Len(r) + 2] = e[2] /\ \A i \in 1 .. Len(r) : h[i] = r[i]
  <2>1. Joined(h, r, e)
    BY Joins
  <2> HIDE DEF h
  <2> QED BY <2>1 DEF Joined
<1>4. Len(r) = 2 * Len(t) /\ Len(t) \in Nat
  BY DEF Tells
<1> HIDE DEF g, u, h
<1>5. ASSUME NEW i \in 1 .. Len(t)
      PROVE  /\ h[2 * i - 1].role = "user" /\ h[2 * i - 1].text = u[i][1]
             /\ h[2 * i].role = "assistant" /\ h[2 * i].text = TextOf(u[i][2])
  <2>1. 2 * i - 1 \in 1 .. Len(r) /\ 2 * i \in 1 .. Len(r)
    BY <1>4, <1>5
  <2>2. h[2 * i - 1] = r[2 * i - 1] /\ h[2 * i] = r[2 * i] /\ u[i] = t[i]
    BY <2>1, <1>2, <1>3
  <2>3. /\ r[2 * i - 1].role = "user" /\ r[2 * i - 1].text = t[i][1]
        /\ r[2 * i].role = "assistant" /\ r[2 * i].text = TextOf(t[i][2])
    BY DEF Tells
  <2> QED BY <2>2, <2>3
<1>6. ASSUME NEW i, i = Len(t) + 1
      PROVE  /\ h[2 * i - 1].role = "user" /\ h[2 * i - 1].text = u[i][1]
             /\ h[2 * i].role = "assistant" /\ h[2 * i].text = TextOf(u[i][2])
  <2>1. 2 * i - 1 = Len(r) + 1 /\ 2 * i = Len(r) + 2
    BY <1>4, <1>6
  <2> QED BY <2>1, <1>1, <1>2, <1>3, <1>6
<1>7. \A i \in 1 .. Len(u) : i \in 1 .. Len(t) \/ i = Len(t) + 1
  BY <1>2, <1>4
<1>8. Len(h) = 2 * Len(u)
  BY <1>2, <1>3, <1>4
<1>9. Tells(h, u)
  BY <1>5, <1>6, <1>7, <1>8 DEF Tells
<1> QED BY <1>9 DEF h, u, g

LEMMA SameTurns ==
  ASSUME RecordingInv, NEW t1 \in Seq(GivenTurn), NEW t2 \in Seq(GivenTurn), NEW r \in Seq(Remark),
         Tells(r, t1), Tells(r, t2), \A i \in 1 .. Len(t1) : FromLive(t1[i]), \A i \in 1 .. Len(t2) : FromLive(t2[i])
  PROVE  t1 = t2
<1>1. Len(t1) = Len(t2) /\ Len(t1) \in Nat
  BY DEF Tells
<1>2. ASSUME NEW i \in 1 .. Len(t1) PROVE t1[i] = t2[i]
  <2>1. PICK k \in live : t1[i] = <<k.message, k.turn>>
    BY DEF FromLive
  <2>2. PICK l \in live : t2[i] = <<l.message, l.turn>>
    BY <1>1 DEF FromLive
  <2>3. r[2 * i].text = TextOf(t1[i][2]) /\ r[2 * i].text = TextOf(t2[i][2])
    BY <1>1 DEF Tells
  <2>4. TextOf(k.turn) = TextOf(l.turn)
    BY <2>1, <2>2, <2>3
  <2>5. k = l
    BY <2>4 DEF RecordingInv, Numbered
  <2> QED BY <2>1, <2>2, <2>5
<1>3. t1 = [i \in 1 .. Len(t1) |-> t1[i]] /\ t2 = [i \in 1 .. Len(t2) |-> t2[i]]
  OBVIOUS
<1> QED BY <1>1, <1>2, <1>3

(* A turn of a session is a live one.                                           *)
LEMMA GivenIsLive ==
  ASSUME RecordingInv, NEW s \in Sessions, NEW i \in 1 .. Len(sessions[s].turns)
  PROVE  FromLive(sessions[s].turns[i])
<1>1. sessions[s].turns[i] \in GivenTurn
  <2>1. sessions[s].turns \in Seq(GivenTurn)
    BY DEF RecordingInv, RecordingTypeOK, SessionState
  <2> QED BY <2>1
<1>2. PICK l \in live : l.message = sessions[s].turns[i][1] /\ l.turn = sessions[s].turns[i][2]
  BY DEF RecordingInv, AnswersItsConversation
<1>3. sessions[s].turns[i] = <<l.message, l.turn>>
  BY <1>1, <1>2 DEF GivenTurn
<1> QED BY <1>3 DEF FromLive

LEMMA LiveIsNumbered ==
  ASSUME RecordingInv, NEW g, FromLive(g)
  PROVE  TextOf(g[2]) \in 1 .. MaxLive
  BY LiveTurn DEF FromLive

(* Remembering a live turn that was given to what the session remembers.        *)
LEMMA Remembers ==
  ASSUME RecordingInv, NEW s \in Sessions, NEW l \in live,
         l.seed = sessions[s].seed, l.before = sessions[s].turns,
         sessions' = Remembered(s, l.message, l.turn), live' = live
  PROVE  /\ sessions' \in [Sessions -> SessionState]
         /\ \A q \in Sessions : q # s => sessions'[q] = sessions[q]
         /\ \A q \in Sessions : Tells(sessions'[q].records, sessions'[q].turns)
         /\ AnswersItsConversation'
<1> DEFINE m == l.message
           turn == l.turn
           t == sessions[s].turns
           u == Append(t, <<m, turn>>)
<1>1. /\ m \in Prompts /\ turn \in AgentTurn /\ TextOf(turn) \in 1 .. MaxLive
      /\ ToolCalls(turn) \in Seq(Tools) /\ Uses(turn) \in Nat
  BY LiveTurn DEF LiveAnswer
<1>2. sessions \in [Sessions -> SessionState]
  BY DEF RecordingInv, RecordingTypeOK
<1>3. t \in Seq(GivenTurn) /\ sessions[s].records \in Seq(Remark)
  BY <1>2 DEF SessionState
<1>4. /\ sessions' \in [Sessions -> SessionState] /\ \A q \in Sessions : q # s => sessions'[q] = sessions[q]
      /\ sessions'[s].seed = sessions[s].seed
      /\ sessions'[s].records = sessions[s].records \o RememberTurn(s, m, turn)
      /\ sessions'[s].turns = u
  <2> DEFINE v == sessions'
  <2>1. v = Remembered(s, m, turn)
    OBVIOUS
  <2> HIDE DEF v, m, turn
  <2>2. HasRemembered(v, s, m, turn)
    BY <2>1, <1>1, <1>2, RememberedIs
  <2> QED BY <2>2 DEF v, HasRemembered
<1>5. /\ RememberTurn(s, m, turn) \in Seq(Remark) /\ Len(RememberTurn(s, m, turn)) = 2
      /\ RememberTurn(s, m, turn)[1].role = "user" /\ RememberTurn(s, m, turn)[1].text = m
      /\ RememberTurn(s, m, turn)[2].role = "assistant" /\ RememberTurn(s, m, turn)[2].text = TextOf(turn)
  BY <1>1, RemarksAre
<1>6. \A q \in Sessions : Tells(sessions[q].records, sessions[q].turns)
  BY DEF RecordingInv
<1> HIDE DEF m, turn, t
<1>7. Tells(sessions[s].records \o RememberTurn(s, m, turn), u)
  BY <1>1, <1>3, <1>5, <1>6, TellsMore DEF t
<1>8. \A q \in Sessions : Tells(sessions'[q].records, sessions'[q].turns)
  BY <1>4, <1>6, <1>7
<1>9. /\ Len(u) = Len(t) + 1 /\ u[Len(t) + 1] = <<m, turn>>
      /\ \A i \in 1 .. Len(t) : u[i] = t[i] /\ SubSeq(u, 1, i - 1) = SubSeq(t, 1, i - 1)
      /\ SubSeq(u, 1, Len(t)) = t
  <2>1. <<m, turn>> \in GivenTurn
    BY <1>1 DEF GivenTurn
  <2> QED BY <2>1, <1>3, Begins
<1> HIDE DEF u
<1>10. AnswersItsConversation
  BY DEF RecordingInv
<1>11. AnswersItsConversation'
  <2> SUFFICES ASSUME NEW q \in Sessions, NEW i \in 1 .. Len(sessions'[q].turns)
               PROVE  \E k \in live : /\ k.message = sessions'[q].turns[i][1] /\ k.turn = sessions'[q].turns[i][2]
                                      /\ k.seed = sessions'[q].seed /\ k.before = SubSeq(sessions'[q].turns, 1, i - 1)
    BY DEF AnswersItsConversation
  <2>1. CASE q # s
    BY <2>1, <1>4, <1>10 DEF AnswersItsConversation
  <2>2. CASE q = s /\ i \in 1 .. Len(t)
    <3>1. PICK k \in live : /\ k.message = t[i][1] /\ k.turn = t[i][2]
                             /\ k.seed = sessions[s].seed /\ k.before = SubSeq(t, 1, i - 1)
      BY <2>2, <1>10 DEF AnswersItsConversation, t
    <3>2. u[i] = t[i] /\ SubSeq(u, 1, i - 1) = SubSeq(t, 1, i - 1)
      BY <2>2, <1>9
    <3> QED BY <3>1, <3>2, <2>2, <1>4
  <2>3. CASE q = s /\ i = Len(t) + 1
    <3>1. Len(t) \in Nat /\ i - 1 = Len(t)
      BY <1>3, <2>3
    <3>2. u[i] = <<m, turn>> /\ SubSeq(u, 1, i - 1) = t
      BY <3>1, <2>3, <1>9
    <3> QED BY <3>2, <2>3, <1>4 DEF m, turn, t
  <2>4. i \in 1 .. Len(t) \/ i = Len(t) + 1 \/ q # s
    BY <1>3, <1>4, <1>9
  <2> QED BY <2>1, <2>2, <2>3, <2>4
<1> QED BY <1>4, <1>8, <1>11

(* A turn that was kept under the history of a session was given to just that.  *)
LEMMA KeptForIt ==
  ASSUME RecordingInv, NEW s \in Sessions, NEW m \in Prompts, NEW r, KeptWell(r), r.key = Key(s, m)
  PROVE  \E l \in live : /\ l.message = m /\ l.turn = r.turn
                         /\ l.seed = sessions[s].seed /\ l.before = sessions[s].turns
<1> DEFINE x == sessions[s]
<1>1. x \in SessionState /\ Tells(x.records, x.turns)
  BY DEF RecordingInv, RecordingTypeOK
<1>2. PICK l \in live, rs \in Seq(Remark) :
         r.turn = l.turn /\ r.key = <<l.seed \o rs, l.message>> /\ Tells(rs, l.before)
  BY DEF KeptWell
<1>3. l \in LiveAnswer
  BY LiveTurn
<1> DEFINE h == l.seed \o rs
           g == x.seed \o x.records
<1>4. l.message = m /\ h = g
  <2>1. r.key = <<h, l.message>> /\ r.key = <<g, m>>
    BY <1>2 DEF Key, History
  <2> HIDE DEF h, g
  <2> QED BY <2>1
<1>5. (\A i \in 1 .. Len(l.before) : FromLive(l.before[i])) /\ (\A i \in 1 .. Len(x.turns) : FromLive(x.turns[i]))
  BY GivenIsLive DEF RecordingInv
<1>6. /\ \A i \in 1 .. Len(l.before) : TextOf(l.before[i][2]) \in 1 .. MaxLive
      /\ \A i \in 1 .. Len(x.turns) : TextOf(x.turns[i][2]) \in 1 .. MaxLive
  BY <1>5, LiveIsNumbered
<1>7. /\ l.seed \in Seeds /\ x.seed \in Seeds /\ x.records \in Seq(Remark)
      /\ l.before \in Seq(GivenTurn) /\ x.turns \in Seq(GivenTurn)
  BY <1>1, <1>3 DEF LiveAnswer, SessionState
<1> HIDE DEF x
<1>8. l.seed = x.seed /\ rs = x.records
  <2> DEFINE A == {l.seed[i] : i \in DOMAIN l.seed}
             B == {x.seed[i] : i \in DOMAIN x.seed}
  <2>1. l.seed \in Seq(A) /\ x.seed \in Seq(B)
    BY <1>7, SeedsAreHistories
  <2> HIDE DEF A, B
  <2>2. Joined(h, l.seed, rs) /\ Joined(g, x.seed, x.records)
    BY <2>1, <1>7, Joins
  <2> HIDE DEF h, g
  <2>3. Joined(h, x.seed, x.records)
    BY <2>2, <1>4
  <2> DEFINE s1 == l.seed
             s2 == x.seed
             r2 == x.records
             t1 == l.before
             t2 == x.turns
  <2>4. /\ s1 \in Seeds /\ s2 \in Seeds /\ rs \in Seq(Remark) /\ r2 \in Seq(Remark) /\ t1 \in Seq(GivenTurn) /\ t2 \in Seq(GivenTurn)
        /\ Tells(rs, t1) /\ Tells(r2, t2) /\ Joined(h, s1, rs) /\ Joined(h, s2, r2)
        /\ \A i \in 1 .. Len(t1) : TextOf(t1[i][2]) \in 1 .. MaxLive
        /\ \A i \in 1 .. Len(t2) : TextOf(t2[i][2]) \in 1 .. MaxLive
    BY <2>2, <2>3, <1>1, <1>2, <1>6, <1>7
  <2> HIDE DEF s1, s2, r2, t1, t2
  <2>5. s1 = s2 /\ rs = r2
    BY <2>4, OneSeed
  <2> QED BY <2>5 DEF s1, s2, r2
<1>9. l.before = x.turns
  BY <1>1, <1>2, <1>5, <1>7, <1>8, SameTurns
<1> QED BY <1>2, <1>4, <1>8, <1>9 DEF x

(* What is left alone by a step that remembers a turn in one session.           *)
LEMMA OnlyRemembers ==
  ASSUME RecordingInv, NEW s \in Sessions, NEW l \in live,
         l.seed = sessions[s].seed, l.before = sessions[s].turns,
         sessions' = Remembered(s, l.message, l.turn), UNCHANGED live,
         \A r \in cassette' : KeptWell(r), asked' = [q \in Sessions |-> asked'[q]],
         \A q \in Sessions : q # s => asked'[q] = asked[q], asked'[s] = NoCall
  PROVE  RecordingInv'
<1>1. /\ sessions' \in [Sessions -> SessionState]
      /\ \A q \in Sessions : q # s => sessions'[q] = sessions[q]
      /\ \A q \in Sessions : Tells(sessions'[q].records, sessions'[q].turns)
      /\ AnswersItsConversation'
  BY Remembers
<1>2. RecordingTypeOK' /\ Numbered'
  BY <1>1 DEF RecordingInv, RecordingTypeOK, Numbered
<1>3. \A k \in live' : \A i \in 1 .. Len(k.before) : FromLive(k.before[i])'
  BY DEF RecordingInv, FromLive
<1>4. \A r : KeptWell(r) <=> KeptWell(r)'
  BY DEF KeptWell
<1>5. ASSUME NEW q \in Sessions, asked'[q] # NoCall
      PROVE  /\ \A r \in asked'[q].store : KeptWell(r)'
             /\ \E k \in live' : /\ asked'[q].turn = k.turn /\ asked'[q].key = Key(q, k.message)'
                                /\ k.seed = sessions'[q].seed /\ k.before = sessions'[q].turns
  <2>1. q # s /\ asked'[q] = asked[q] /\ sessions'[q] = sessions[q]
    BY <1>1, <1>5
  <2>2. \A k : Key(q, k) = Key(q, k)'
    BY <2>1 DEF Key, History
  <2> QED BY <1>4, <1>5, <2>1, <2>2 DEF RecordingInv
<1> QED BY <1>1, <1>2, <1>3, <1>4, <1>5 DEF RecordingInv

LEMMA ReplayKeeps ==
  ASSUME RecordingInv, NEW s \in Sessions, NEW m \in Prompts, Replay(s, m)
  PROVE  RecordingInv'
<1>1. PICK r \in cassette : r.key = Key(s, m) /\ Found(cassette, Key(s, m)) = r.turn
  <2>1. \E r \in cassette : r.key = Key(s, m)
    BY DEF Replay, Recorded
  <2>2. (CHOOSE r \in cassette : r.key = Key(s, m)) \in cassette /\ (CHOOSE r \in cassette : r.key = Key(s, m)).key = Key(s, m)
    BY <2>1
  <2> QED BY <2>2 DEF Found
<1>2. KeptWell(r)
  BY DEF RecordingInv
<1>3. PICK l \in live : /\ l.message = m /\ l.turn = r.turn
                        /\ l.seed = sessions[s].seed /\ l.before = sessions[s].turns
  BY <1>1, <1>2, KeptForIt
<1>4. sessions' = Remembered(s, l.message, l.turn)
  BY <1>1, <1>3 DEF Replay, MessagesFromTranscript
<1>5. asked[s] = NoCall /\ asked = [q \in Sessions |-> asked[q]] /\ \A k \in cassette : KeptWell(k)
  BY DEF Replay, RecordingInv, RecordingTypeOK
<1>6. asked' = asked /\ cassette' = cassette /\ live' = live
  BY DEF Replay
<1> QED BY <1>3, <1>4, <1>5, <1>6, OnlyRemembers

LEMMA AnsweredKeeps ==
  ASSUME RecordingInv, NEW s \in Sessions, Answered(s)
  PROVE  RecordingInv'
<1> DEFINE c == asked[s]
<1>1. c # NoCall
  BY DEF Answered
<1>2. \A r \in c.store : KeptWell(r)
  BY <1>1 DEF RecordingInv
<1>3. PICK l \in live : /\ c.turn = l.turn /\ c.key = Key(s, l.message)
                        /\ l.seed = sessions[s].seed /\ l.before = sessions[s].turns
  BY <1>1 DEF RecordingInv
<1>4. c.turn[1].text = l.message /\ EntriesOf(l.message, c.turn) = l.turn
  BY <1>3, LiveTurn
<1> DEFINE saved == [key |-> c.key, turn |-> l.turn]
<1>5. cassette' = {r \in c.store : r.key # c.key} \cup {saved}
  BY <1>4 DEF Answered
<1>6. KeptWell(saved)
  <2>1. saved.turn = l.turn /\ saved.key = <<l.seed \o sessions[s].records, l.message>>
    BY <1>3 DEF Key, History
  <2>2. sessions[s].records \in Seq(Remark) /\ Tells(sessions[s].records, l.before)
    BY <1>3 DEF RecordingInv, RecordingTypeOK, SessionState
  <2> HIDE DEF saved
  <2> QED BY <2>1, <2>2 DEF KeptWell
<1> HIDE DEF saved
<1>7. \A r \in cassette' : KeptWell(r)
  BY <1>2, <1>5, <1>6
<1>8. sessions' = Remembered(s, l.message, l.turn) /\ live' = live
  BY <1>3, <1>4 DEF Answered
<1>9. /\ asked' = [q \in Sessions |-> asked'[q]] /\ asked'[s] = NoCall
      /\ \A q \in Sessions : q # s => asked'[q] = asked[q]
  BY DEF Answered, RecordingInv, RecordingTypeOK
<1> HIDE DEF c
<1> QED BY <1>3, <1>7, <1>8, <1>9, OnlyRemembers

LEMMA RaisesKeeps ==
  ASSUME RecordingInv, NEW s \in Sessions, Raises(s)
  PROVE  RecordingInv'
<1>1. cassette' = cassette /\ sessions' = sessions /\ live' = live
  BY DEF Raises
<1>2. /\ asked' = [q \in Sessions |-> asked'[q]]
      /\ \A q \in Sessions : asked'[q] # NoCall => asked'[q] = asked[q]
  BY DEF Raises, RecordingInv, RecordingTypeOK
<1>3. RecordingTypeOK' /\ Numbered' /\ AnswersItsConversation'
  BY <1>1, <1>2 DEF RecordingInv, RecordingTypeOK, Numbered, AnswersItsConversation
<1>4. (\A r : KeptWell(r) <=> KeptWell(r)') /\ (\A g : FromLive(g) <=> FromLive(g)') /\ \A q, k : Key(q, k) = Key(q, k)'
  BY <1>1 DEF KeptWell, FromLive, Key, History
<1> QED BY <1>1, <1>2, <1>3, <1>4 DEF RecordingInv

LEMMA AskKeeps ==
  ASSUME RecordingInv, NEW s \in Sessions, NEW m \in Prompts, Ask(s, m)
  PROVE  RecordingInv'
<1> DEFINE n == Cardinality(live) + 1
<1>1. PICK ts \in Wants :
        /\ asked' = [asked EXCEPT ![s] = [key |-> Key(s, m), store |-> cassette, turn |-> TurnMessages(m, n, ts)]]
        /\ live' = live \cup {[seed |-> sessions[s].seed, before |-> sessions[s].turns,
                               message |-> m, turn |-> TurnMessages(m, n, ts)]}
  BY DEF Ask, Wants
<1> DEFINE turn == TurnMessages(m, n, ts)
           new == [seed |-> sessions[s].seed, before |-> sessions[s].turns, message |-> m, turn |-> turn]
<1>2. cassette' = cassette /\ sessions' = sessions /\ Cardinality(live) < MaxLive
  BY DEF Ask
<1>3. Cardinality(live) \in Nat /\ IsFiniteSet(live) /\ n \in 1 .. MaxLive /\ n \in Nat
  BY <1>2, FS_CardinalityType, SeedsAreHistories DEF RecordingInv, RecordingTypeOK
<1>4. turn[1].text = m /\ TextOf(turn) = n
  BY <1>3, TurnIs
<1>5. turn \in AgentTurn
  BY <1>3 DEF AgentTurn
<1>6. sessions[s] \in SessionState
  BY DEF RecordingInv, RecordingTypeOK
<1> HIDE DEF turn, n
<1>7. new \in LiveAnswer
  BY <1>5, <1>6 DEF LiveAnswer, SessionState
<1>8. new.turn = turn /\ new.message = m /\ new.seed = sessions[s].seed /\ new.before = sessions[s].turns
  OBVIOUS
<1>9. live' = live \cup {new}
  BY <1>1 DEF turn
<1> HIDE DEF new
<1>10. \A l \in live : TextOf(l.turn) \in 1 .. Cardinality(live)
  BY DEF RecordingInv, Numbered
<1>11. new \notin live
  BY <1>3, <1>4, <1>8, <1>10 DEF n
<1>12. IsFiniteSet(live') /\ Cardinality(live') = n
  BY <1>3, <1>9, <1>11, FS_AddElement DEF n
<1>13. RecordingTypeOK'
  <2>1. asked' = [q \in Sessions |-> asked'[q]]
    BY <1>1 DEF RecordingInv, RecordingTypeOK
  <2> QED BY <2>1, <1>2, <1>3, <1>7, <1>9, <1>12 DEF RecordingInv, RecordingTypeOK
<1>14. Numbered'
  <2>1. \A l \in live' : TextOf(l.turn) \in 1 .. n /\ l.turn[1].text = l.message
    BY <1>3, <1>4, <1>8, <1>9, <1>10 DEF n, RecordingInv, Numbered
  <2>2. \A k, l \in live' : TextOf(k.turn) = TextOf(l.turn) => k = l
    BY <1>3, <1>4, <1>8, <1>9, <1>10 DEF n, RecordingInv, Numbered
  <2> QED BY <2>1, <2>2, <1>12 DEF Numbered
<1>15. live \subseteq live'
  BY <1>9
<1>16. (\A r : KeptWell(r) => KeptWell(r)') /\ (\A g : FromLive(g) => FromLive(g)') /\ \A q, k : Key(q, k) = Key(q, k)'
  BY <1>2, <1>15 DEF KeptWell, FromLive, Key, History
<1>17. \A l \in live' : \A i \in 1 .. Len(l.before) : FromLive(l.before[i])'
  <2>1. \A i \in 1 .. Len(new.before) : FromLive(new.before[i])
    BY <1>8, GivenIsLive
  <2> QED BY <2>1, <1>9, <1>16 DEF RecordingInv
<1>18. AnswersItsConversation'
  BY <1>2, <1>15 DEF RecordingInv, AnswersItsConversation
<1>19. ASSUME NEW q \in Sessions, asked'[q] # NoCall
       PROVE  /\ \A r \in asked'[q].store : KeptWell(r)'
              /\ \E k \in live' : /\ asked'[q].turn = k.turn /\ asked'[q].key = Key(q, k.message)'
                                 /\ k.seed = sessions'[q].seed /\ k.before = sessions'[q].turns
  <2>1. CASE q # s
    <3>1. asked'[q] = asked[q]
      BY <2>1, <1>1
    <3> QED BY <3>1, <1>2, <1>15, <1>16, <1>19 DEF RecordingInv
  <2>2. CASE q = s
    <3>1. asked'[q] = [key |-> Key(s, m), store |-> cassette, turn |-> turn]
      BY <2>2, <1>1 DEF RecordingInv, RecordingTypeOK, turn
    <3>2. asked'[q].store = cassette /\ asked'[q].turn = turn /\ asked'[q].key = Key(s, m)
      BY <3>1
    <3> QED BY <3>2, <2>2, <1>2, <1>8, <1>9, <1>16 DEF RecordingInv
  <2> QED BY <2>1, <2>2
<1>20. (\A q \in Sessions : Tells(sessions'[q].records, sessions'[q].turns)) /\ \A r \in cassette' : KeptWell(r)'
  BY <1>2, <1>16 DEF RecordingInv
<1> QED BY <1>13, <1>14, <1>17, <1>18, <1>19, <1>20 DEF RecordingInv

\* Whatever the sessions ask, and in whatever order their calls come back: each
\* turn that a session is given, live or from the cassette, was given to its own
\* conversation (testing.py AgentRecordFake).
THEOREM ConversationsAreTheirOwn == RecordingSpec => []AnswersItsConversation
<1>1. RecordingInit => RecordingInv
  BY RecordingStarts
<1>2. RecordingInv /\ [RecordingNext]_recording => RecordingInv'
  <2> SUFFICES ASSUME RecordingInv, [RecordingNext]_recording PROVE RecordingInv'
    OBVIOUS
  <2>1. ASSUME NEW s \in Sessions, NEW m \in Prompts, Replay(s, m) PROVE RecordingInv'
    BY <2>1, ReplayKeeps
  <2>2. ASSUME NEW s \in Sessions, NEW m \in Prompts, Ask(s, m) PROVE RecordingInv'
    BY <2>2, AskKeeps
  <2>3. ASSUME NEW s \in Sessions, Answered(s) PROVE RecordingInv'
    BY <2>3, AnsweredKeeps
  <2>4. ASSUME NEW s \in Sessions, Raises(s) PROVE RecordingInv'
    BY <2>4, RaisesKeeps
  <2>5. CASE UNCHANGED recording
    <3>1. cassette' = cassette /\ sessions' = sessions /\ asked' = asked /\ live' = live
      BY <2>5 DEF recording
    <3> QED BY <3>1 DEF RecordingInv, RecordingTypeOK, Numbered, AnswersItsConversation, FromLive, KeptWell, Key, History
  <2> QED BY <2>1, <2>2, <2>3, <2>4, <2>5 DEF RecordingNext
<1>3. RecordingInv => AnswersItsConversation
  BY DEF RecordingInv
<1> QED BY <1>1, <1>2, <1>3, PTL DEF RecordingSpec
===============================================================================
