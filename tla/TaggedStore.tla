----------------------------- MODULE TaggedStore -----------------------------
(***************************************************************************)
(* Cache.tags() and Cache.memo(): entries of one key under sets of tags.   *)
(* An entry is stored under the ids its tags have when it is written, each *)
(* id read (and, the first time, created) in a call of the store of its    *)
(* own; flush() gives one tag after the other a new id.                    *)
(*                                                                         *)
(* The store below is one atomic map: ids are stored for ever, and every   *)
(* statement of a put that may be retried writes the same id.              *)
(***************************************************************************)
EXTENDS Integers, FiniteSets, FiniteSetsExt

CONSTANTS
    Callers,    \* the tasks that use the cache
    Tags,       \* the tags' names, as numbers in their sorted order
    Memos,      \* may the store below be a MemoStore: a set of truth values
    MaxIds,     \* bound of the ids that are created
    MaxValues   \* bound of the values that are put

\* What the order of the tags rests on.
TagsAreNumbers == Tags \subseteq Nat

Missing == 0
Unread == -1
Idle == [do |-> "idle", at |-> "none", tags |-> {}, ids |-> {}, val |-> Missing, flushed |-> {}]
Forgetful == [tag |-> [n \in Tags |-> Unread], entries |-> {}]

VARIABLES
    memoised,   \* whether it is one: chosen once
    tagid,      \* the id of a tag in the store, Missing at first
    entries,    \* what the store holds: a value under the <<tag, id>> of its namespace
    tagop,      \* a task's operation; `ids` is the namespace as far as it is read
    memo,       \* what a task remembers of its reads
    ids, values,    \* how many ids and values there are
    put,        \* history: the values whose put has returned, with their tags
    flushed     \* history: what a flush that has returned must have hidden from a task

tagVars == <<memoised, tagid, entries, tagop, memo, ids, values, put, flushed>>

Namespaces == SUBSET (Tags \X Nat)
Values == 0 .. values

Entries == [ns : Namespaces, val : Values]

TagsTypeOK ==
    /\ memoised \in Memos /\ tagid \in [Tags -> Nat] /\ ids \in Nat /\ values \in Nat
    /\ entries \subseteq Entries
    /\ tagop \in [Callers -> [do : {"idle", "get", "fetch", "put", "forget", "flush"}, at : {"none", "tag", "create", "factory"},
                         tags : SUBSET Tags, ids : Namespaces, val : Values, flushed : SUBSET Values]]
    /\ memo \in [Callers -> [tag : [Tags -> Nat \cup {Unread}], entries : SUBSET Entries]]
    /\ put \subseteq [val : Values, tags : SUBSET Tags]
    /\ flushed \in [Callers -> SUBSET Values]

TagsInit ==
    /\ memoised \in Memos /\ tagid = [n \in Tags |-> Missing] /\ entries = {} /\ ids = 0 /\ values = 0
    /\ tagop = [p \in Callers |-> Idle] /\ memo = [p \in Callers |-> Forgetful]
    /\ put = {} /\ flushed = [p \in Callers |-> {}]
-----------------------------------------------------------------------------
Left(p) == tagop[p].tags \ {i[1] : i \in tagop[p].ids}
NextTag(p) == Min(Left(p))

Found(es, ns) == IF \E e \in es : e.ns = ns THEN (CHOOSE e \in es : e.ns = ns).val ELSE Missing
Without(es, ns) == {e \in es : e.ns # ns}
With(es, ns, v) == Without(es, ns) \cup {[ns |-> ns, val |-> v]}

\* MemoStore.get(): what the task remembers, or the store, a miss as well.
TagSeen(p, n) == IF memoised /\ memo[p].tag[n] # Unread THEN memo[p].tag[n] ELSE tagid[n]
EntrySeen(p, ns) == IF memoised /\ \E e \in memo[p].entries : e.ns = ns THEN Found(memo[p].entries, ns) ELSE Found(entries, ns)
Remember(p, m) == memo' = IF memoised THEN [memo EXCEPT ![p] = m] ELSE memo
RememberTag(p, n, id) == Remember(p, [memo[p] EXCEPT !.tag[n] = id])
RememberEntry(p, ns, v) == Remember(p, [memo[p] EXCEPT !.entries = With(@, ns, v)])

\* put() and forget() of the memo write through and forget.
ForgetTag(p, n) == Remember(p, [memo[p] EXCEPT !.tag[n] = Unread])
ForgetEntry(p, ns) == Remember(p, [memo[p] EXCEPT !.entries = Without(@, ns)])

Done(p) == tagop' = [tagop EXCEPT ![p] = Idle]
HasId(p, n, id) == tagop' = [tagop EXCEPT ![p].ids = @ \cup {<<n, id>>}, ![p].at = "tag"]

\* get, has, remember or forget of Repository: it begins with its namespace.
Begin(p) ==
    /\ tagop[p].do = "idle"
    /\ \E do \in {"get", "fetch", "forget"}, S \in (SUBSET Tags) \ {{}} :
          tagop' = [tagop EXCEPT ![p] = [Idle EXCEPT !.do = do, !.at = "tag", !.tags = S, !.flushed = flushed[p]]]
    /\ UNCHANGED <<tagid, entries, memo, ids, values, put, flushed>>

Put(p) ==
    /\ tagop[p].do = "idle" /\ values < MaxValues
    /\ values' = values + 1
    /\ \E S \in (SUBSET Tags) \ {{}} :
          tagop' = [tagop EXCEPT ![p] = [Idle EXCEPT !.do = "put", !.at = "tag", !.tags = S, !.val = values']]
    /\ UNCHANGED <<tagid, entries, memo, ids, put, flushed>>

\* flush() has to hide what was put before it began.
Flush(p) ==
    /\ tagop[p].do = "idle"
    /\ \E S \in (SUBSET Tags) \ {{}} :
          tagop' = [tagop EXCEPT ![p] = [Idle EXCEPT !.do = "flush", !.at = "create", !.tags = S,
                                              !.flushed = {v.val : v \in {v \in put : v.tags \cap S # {}}}]]
    /\ UNCHANGED <<tagid, entries, memo, ids, values, put, flushed>>

TagId(p) ==
    /\ tagop[p].at = "tag" /\ Left(p) # {}
    /\ LET n == NextTag(p) id == TagSeen(p, NextTag(p))
       IN /\ IF id = Missing THEN tagop' = [tagop EXCEPT ![p].at = "create"] ELSE HasId(p, n, id)
          /\ RememberTag(p, n, id)
    /\ UNCHANGED <<tagid, entries, ids, values, put, flushed>>

Created(p, n) ==
    /\ ids < MaxIds /\ ids' = ids + 1
    /\ tagid' = [tagid EXCEPT ![n] = ids']
    /\ ForgetTag(p, n)

\* reset_tag() of an id that was missing.
CreateId(p) ==
    /\ tagop[p].at = "create" /\ tagop[p].do # "flush"
    /\ Created(p, NextTag(p)) /\ HasId(p, NextTag(p), ids')
    /\ UNCHANGED <<entries, values, put, flushed>>

Hide(p, S) == flushed' = [q \in Callers |-> IF memoised /\ q # p THEN flushed[q] ELSE flushed[q] \cup S]

\* Bug: the flush ends after its first tag.
ResetFirst(p) ==
    /\ tagop[p].do = "flush"
    /\ Created(p, NextTag(p)) /\ Done(p) /\ Hide(p, tagop[p].flushed)
    /\ UNCHANGED <<entries, values, put>>
\* reset(): each tag in turn.
Reset(p) ==
    /\ tagop[p].do = "flush"
    /\ Created(p, NextTag(p))
    /\ IF Left(p) = {NextTag(p)} THEN Done(p) /\ Hide(p, tagop[p].flushed)
       ELSE tagop' = [tagop EXCEPT ![p].ids = @ \cup {<<NextTag(p), ids'>>}] /\ UNCHANGED flushed
    /\ UNCHANGED <<entries, values, put>>

At(p, do) == tagop[p].at = "tag" /\ tagop[p].do \in do /\ Left(p) = {}

\* get() of the entry; a miss of remember() goes on to its factory.
Lookup(p) ==
    /\ At(p, {"get", "fetch"})
    /\ LET v == EntrySeen(p, tagop[p].ids)
       IN /\ RememberEntry(p, tagop[p].ids, v)
          /\ IF tagop[p].do = "fetch" /\ v = Missing THEN tagop' = [tagop EXCEPT ![p].at = "factory"] ELSE Done(p)
    /\ UNCHANGED <<tagid, entries, ids, values, put, flushed>>

\* The factory raises, or its value is put under the ids of that moment.
Factory(p) ==
    /\ tagop[p].at = "factory"
    /\ \/ Done(p) /\ UNCHANGED values
       \/ /\ values < MaxValues /\ values' = values + 1
          /\ tagop' = [tagop EXCEPT ![p] = [Idle EXCEPT !.do = "put", !.at = "tag", !.tags = tagop[p].tags, !.val = values']]
    /\ UNCHANGED <<tagid, entries, memo, ids, put, flushed>>

PutEntry(p) ==
    /\ At(p, {"put"})
    /\ entries' = With(entries, tagop[p].ids, tagop[p].val) /\ ForgetEntry(p, tagop[p].ids)
    /\ put' = put \cup {[val |-> tagop[p].val, tags |-> tagop[p].tags]}
    /\ Done(p)
    /\ UNCHANGED <<tagid, ids, values, flushed>>

ForgetIt(p) ==
    /\ At(p, {"forget"})
    /\ entries' = Without(entries, tagop[p].ids) /\ ForgetEntry(p, tagop[p].ids)
    /\ Done(p)
    /\ UNCHANGED <<tagid, ids, values, put, flushed>>

TagStep(p) == Begin(p) \/ Put(p) \/ Flush(p) \/ TagId(p) \/ CreateId(p) \/ Reset(p)
           \/ Lookup(p) \/ Factory(p) \/ PutEntry(p) \/ ForgetIt(p)

TagsNext == UNCHANGED memoised /\ \E p \in Callers : TagStep(p)
TagsSpec == TagsInit /\ [][TagsNext]_tagVars
-----------------------------------------------------------------------------
(* Once flush() of a tag has returned, no get that begins later finds a      *)
(* value that was put under the tag before the flush began: for every task,  *)
(* or with a memo for the task that flushed.                                 *)
FlushInvalidates == \A p \in Callers :
    At(p, {"get", "fetch"}) => EntrySeen(p, tagop[p].ids) \notin tagop[p].flushed
=============================================================================
