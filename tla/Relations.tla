------------------------------ MODULE Relations ------------------------------
(* Relationships of the ORM (masoniteorm/relationships), loaded for a whole    *)
(* query at once (query/EagerLoadMixin.py, Collection.load) and matched back   *)
(* to their models by the collection's group_by() and where()                  *)
(* (support/collection.py).                                                    *)
(*                                                                             *)
(* A model of the queried class has an id, a foreign key `key` and a morph     *)
(* type; a row of the related table has a foreign key `fk`, a morph type and   *)
(* an age, the column of latest_of_many().  `links` is the pivot table, which  *)
(* is also the table in the middle of a through relation.  Keys are numbers.   *)
EXTENDS Naturals, SequencesExt

CONSTANTS Null, Owners, Ids, \* the ids of the models and of the rows, numbers
          Types,     \* Types: the morph names, in alphabetical order
          Age,                   \* of each row, Null for none
          MaxWrites, MaxLoads    \* bounds on the writes and on the relations of a query

VARIABLES models,    \* the rows of the queried table, by id
          rows,      \* the rows of the related table, by id
          links,     \* the rows of the pivot table, in order of insertion
          has,       \* the relation where_has() was given, Null for none
          result,    \* the collection of the query, Null before it
          loaded,    \* the relations its models hold, each a function of the model's id
          writes

vars == <<models, rows, links, has, result, loaded, writes>>

Morphs == {"morph_one", "morph_many", "morph_to", "morph_to_many"}
Kinds == {"has_one", "latest", "has_many", "belongs_to", "belongs_to_many", "has_one_through", "has_many_through"}
             \cup Morphs
-----------------------------------------------------------------------------
(* What the database answers.                                                  *)
InOrder(s) == [i \in 1..Cardinality(s) |-> CHOOSE x \in s : Cardinality({y \in s : y < x}) = i - 1]
Table == LET ids == InOrder(Ids) IN [i \in DOMAIN ids |-> [id |-> ids[i]] @@ rows[ids[i]]]
Rows(Test(_)) == SelectSeq(Table, Test)
Joined == [i \in DOMAIN links |-> [id |-> links[i].related, owner |-> links[i].owner] @@ rows[links[i].related]]

(* The row latest_of_many() keeps of those of one owner: the one of the        *)
(* greatest age, the greatest id among equals, none without an age.            *)
Later(a, b) == Age[a] > Age[b] \/ (Age[a] = Age[b] /\ a > b)
IsLatest(row) == /\ Age[row.id] # Null
                 /\ ~\E r \in Ids : /\ rows[r].fk = row.fk /\ Age[r] # Null
                                    /\ Later(r, row.id)
-----------------------------------------------------------------------------
(* The collection's methods (values are compared as numbers, or as texts).     *)
Where(items, key, value) == SelectSeq(items, LAMBDA x : x[key] = value)
Values(items, key) == {items[i][key] : i \in DOMAIN items}
GroupByUnsorted(items, key) ==      \* itertools.groupby() of rows that were not sorted
    [v \in Values(items, key) |-> LET Parted(i) == \E j, k \in DOMAIN items : /\ i < j /\ j < k /\ items[k][key] = v
                                                                               /\ items[j][key] # v
                                  IN  [i \in 1..1 |-> items[CHOOSE n \in DOMAIN items : items[n][key] = v /\ ~Parted(n)]]]
GroupBy(items, key) == [v \in Values(items, key) |-> Where(items, key, v)]
FirstOf(items) == IF items = <<>> THEN Null ELSE Head(items)
Got(grouped, value) == IF value \in DOMAIN grouped THEN grouped[value] ELSE <<>>

(* group_by() sorts the collection it is called on, by the key, in place.      *)
RECURSIVE Concat(_, _)
Concat(s, groups) == IF groups = <<>> THEN <<>>
                     ELSE Where(s, "type", Head(groups)) \o Concat(s, Tail(groups))
Sorted(items) == Concat(items, Types)
-----------------------------------------------------------------------------
(* get_related() of a collection: one query for the keys of all the models;    *)
(* then map_related() and register_related(), what one model is given of it.   *)
Bound(items, key) == Values(items, key) \ {Null}
OwnRows(items)       == Rows(LAMBDA r : r.fk \in Bound(items, "id"))
FirstOwn(found, m)   == FirstOf(Where(found, "fk", m.id))
AllOwn(found, m)     == Got(GroupBy(found, "fk"), m.id)
LatestRows(items)    == Rows(LAMBDA r : r.fk \in Bound(items, "id") /\ IsLatest(r))
ParentRows(items)    == Rows(LAMBDA r : r.id \in Bound(items, "key"))
Parent(found, m)     == FirstOf(Got(GroupBy(found, "id"), m.key))
LinkedRows(items)    == SelectSeq(Joined, LAMBDA r : r.owner \in Bound(items, "id"))
Linked(found, m)     == Where(found, "owner", m.id)
AllThrough(found, m) == Got(GroupBy(found, "owner"), m.id)
FirstThrough(found, m) == FirstOf(Got(GroupBy(found, "owner"), m.id))
MorphRows(items)     == Rows(LAMBDA r : r.type = "model" /\ r.fk \in Bound(items, "id"))
AllMorphed(found, m) == Where(Where(found, "type", "model"), "fk", m.id)
FirstMorphed(found, m) == FirstOf(Where(Where(found, "type", "model"), "fk", m.id))
\* The records of each type in its turn; a model is given those of its id.
Records(items) ==
    LET named == {[id |-> items[i].key, type |-> items[i].type] : i \in DOMAIN items}
    IN  Sorted(SetToSortSeq({m \in named : m.id # Null}, LAMBDA a, b : a.id < b.id))
Record(found, m)     == FirstOf(Where(found, "id", m.key))
AllRecords(found, m) == Where(found, "id", m.key)

Related(kind, items) ==
    CASE kind \in {"has_one", "has_many"} -> OwnRows(items)
      [] kind = "latest" -> LatestRows(items)
      [] kind = "belongs_to" -> ParentRows(items)
      [] kind \in {"belongs_to_many", "has_many_through", "has_one_through"} -> LinkedRows(items)
      [] kind \in {"morph_one", "morph_many"} -> MorphRows(items)
      [] OTHER -> Records(items)
Registered(kind, found, m) ==
    CASE kind \in {"has_one", "latest"} -> FirstOwn(found, m)
      [] kind = "has_many" -> AllOwn(found, m)
      [] kind = "belongs_to" -> Parent(found, m)
      [] kind = "belongs_to_many" -> Linked(found, m)
      [] kind = "has_many_through" -> AllThrough(found, m)
      [] kind = "has_one_through" -> FirstThrough(found, m)
      [] kind = "morph_many" -> AllMorphed(found, m)
      [] kind = "morph_one" -> FirstMorphed(found, m)
      [] kind = "morph_to" -> Record(found, m)
      [] kind = "morph_to_many" -> AllRecords(found, m)

(* get_related() of one model.                                                 *)
One(kind, m) ==
    CASE kind = "has_one" -> FirstOf(Rows(LAMBDA r : r.fk = m.id))
      [] kind = "has_many" -> Rows(LAMBDA r : r.fk = m.id)
      [] kind = "latest" -> FirstOf(Rows(LAMBDA r : r.fk = m.id /\ IsLatest(r)))
      [] kind = "belongs_to" -> FirstOf(Rows(LAMBDA r : m.key # Null /\ r.id = m.key))
      [] kind \in {"belongs_to_many", "has_many_through"} -> SelectSeq(Joined, LAMBDA r : r.owner = m.id)
      [] kind = "has_one_through" -> FirstOf(SelectSeq(Joined, LAMBDA r : r.owner = m.id))
      [] kind = "morph_many" -> Rows(LAMBDA r : r.type = "model" /\ r.fk = m.id)
      [] kind = "morph_one" -> FirstOf(Rows(LAMBDA r : r.type = "model" /\ r.fk = m.id))
      [] kind = "morph_to" -> IF m.key = Null THEN Null ELSE [id |-> m.key, type |-> m.type]
      [] kind = "morph_to_many" -> IF m.key = Null THEN <<>> ELSE <<[id |-> m.key, type |-> m.type]>>

(* query_has(): the models the EXISTS of where_has() keeps.                    *)
HasOwn(m)     == \E r \in Ids : rows[r].fk = m.id
HasLatest(m)  == \E i \in DOMAIN Table : Table[i].fk = m.id /\ IsLatest(Table[i])
HasParent(m)  == \E r \in Ids : r = m.key
HasLinked(m)  == \E i \in DOMAIN Joined : Joined[i].owner = m.id
Has(kind, m) ==
    CASE kind \in {"has_one", "has_many"} -> HasOwn(m)
      [] kind = "latest" -> HasLatest(m)
      [] kind = "belongs_to" -> HasParent(m)
      [] OTHER -> HasLinked(m)
-----------------------------------------------------------------------------
Init == /\ models = [i \in Owners |-> [key |-> Null, type |-> Head(Types)]]
        /\ rows = [i \in Ids |-> [fk |-> Null, type |-> "model"]]
        /\ links = <<>> /\ has = Null /\ result = Null /\ loaded = <<>> /\ writes = 0

Writes == result = Null /\ writes < MaxWrites /\ writes' = writes + 1 /\ UNCHANGED <<has, result, loaded>>

(* attach() and detach() of BelongsTo and BelongsToMany; the application writes*)
(* a row's foreign key and the columns of a morph relation itself.             *)
Own(m, r) == Writes /\ rows' = [rows EXCEPT ![r].fk = m] /\ UNCHANGED <<models, links>>
AttachModel(m, r) == Writes /\ models' = [models EXCEPT ![m].key = r] /\ UNCHANGED <<rows, links>>
AttachPivot(m, r) == Writes /\ links' = Append(links, [owner |-> m, related |-> r]) /\ UNCHANGED <<models, rows>>
DetachPivot(m, r) ==
    Writes /\ links' = SelectSeq(links, LAMBDA l : l # [owner |-> m, related |-> r]) /\ UNCHANGED <<models, rows>>
Morph(m, r) == /\ Writes /\ UNCHANGED links
               /\ \/ models' = [models EXCEPT ![m] = [key |-> r, type |-> Last(Types)]] /\ UNCHANGED rows
                  \/ rows' = [rows EXCEPT ![r] = [fk |-> m, type |-> "other"]] /\ UNCHANGED models
Write == \E m \in Owners, r \in Ids : \/ Own(m, r) \/ AttachModel(m, r) \/ AttachPivot(m, r)
                          \/ DetachPivot(m, r) \/ Morph(m, r)

Model(m) == [id |-> m] @@ models[m]
Get == /\ result = Null /\ has' \in {Null} \cup (Kinds \ Morphs)
       /\ result' = SelectSeq([i \in 1..Cardinality(Owners) |-> Model(InOrder(Owners)[i])],
                              LAMBDA m : has' = Null \/ Has(has', m))
       /\ UNCHANGED <<models, rows, links, loaded, writes>>

(* One turn of _load_eagers(), or of Collection.load().                        *)
Load(kind) ==
    /\ result \notin {Null, <<>>} /\ Cardinality(DOMAIN loaded) < MaxLoads
    /\ LET found == Related(kind, result)
       IN  loaded' = (kind :> [m \in Values(result, "id") |-> Registered(kind, found, Model(m))]) @@ loaded
    /\ result' = IF kind \in {"morph_to", "morph_to_many"} THEN Sorted(result) ELSE result
    /\ UNCHANGED <<models, rows, links, has, writes>>

Next == Write \/ Get \/ \E kind \in Kinds : Load(kind)
Spec == Init /\ [][Next]_vars
-----------------------------------------------------------------------------
(* Each model of a result holds, of every relation that was loaded for the     *)
(* result as a whole, what loading that relation for the model alone gives:    *)
(* the same rows in the same order, the empty collection or None where there   *)
(* are none (relationships/, get_related, map_related, register_related).      *)
LoadedIsRelated ==
    \A kind \in DOMAIN loaded \ {"morph_to", "morph_to_many"} :
        \A m \in DOMAIN loaded[kind] : loaded[kind][m] = One(kind, Model(m))

(* where_has() keeps the models of which the relation, once loaded, holds      *)
(* something (query_has, related_exists_query against get_related).            *)
HasMeansSome ==
    result # Null /\ has # Null =>
        \A m \in Owners : m \in Values(result, "id") <=> One(has, Model(m)) \notin {Null, <<>>}

(* A model's morphed record is of the type the model names.                    *)
MorphedAsNamed ==
    "morph_to" \in DOMAIN loaded =>
        \A m \in DOMAIN loaded["morph_to"] :
            loaded["morph_to"][m] # Null => loaded["morph_to"][m].type = models[m].type
=============================================================================
