------------------------------- MODULE Creation -------------------------------
(***************************************************************************)
(* Creating a table (masoniteorm/schema): the Schema hands out a Blueprint *)
(* on a Table, whose calls collect columns and, by name, constraints,      *)
(* indexes and foreign keys; on leaving the "async with" the platform      *)
(* compiles them to a CREATE TABLE and a CREATE INDEX for each index,      *)
(* which run in one transaction, whether the block raised or not.          *)
(* A name is the sequence of its words: "a_b" is <<"a", "b">>.  Comments,  *)
(* full text indexes and names given to a key are left out.                *)
(***************************************************************************)
EXTENDS Naturals, Sequences, SequencesExt, ColumnTypes
CONSTANTS Platforms, Names,
          Composite,  \* the columns of a key over several
          Methods,    \* of the Blueprint, what the migrations use: the integers, increments, uuid, decimal
          Defaults,   \* values given to default()
          Actions,    \* given to on_delete() and on_update()
          MaxCalls    \* bound on the calls on a Blueprint
VARIABLES platform,
          action,     \* "create", "create_table_if_not_exists" or, without a Blueprint, "none"
          draft,      \* the Table: columns, constraints, indexes, foreign keys
          last,       \* _last_column: the columns that the last declaring call declared
          lastForeign,
          raised,     \* a call raised, which ends the block
          calls,
          stored,     \* in the database: the table, or NoDatabase
          asked,      \* history: the keys asked for
          outcome,    \* history: "none", or what became of the statements
          before      \* history: the table before them
vars == <<platform, action, draft, last, lastForeign, raised, calls, stored, asked, outcome, before>>

NoDatabase == [absent |-> TRUE]
NoName == <<>>
None == [x \in {} |-> x]
NoTable == [columns |-> None, constraints |-> None, indexes |-> None, foreign |-> None]

-------------------------------------------------------------------------------
\* The calls on the Blueprint.
Call(d, l, f, keys) ==
    /\ action # "none" /\ ~raised /\ calls < MaxCalls /\ calls' = calls + 1
    /\ draft' = d /\ last' = l /\ lastForeign' = f /\ asked' = asked \cup keys
    /\ UNCHANGED <<platform, action, raised, stored, outcome, before>>
Raises == /\ action # "none" /\ ~raised /\ raised' = TRUE
          /\ UNCHANGED <<platform, action, draft, last, lastForeign, calls, stored, asked, outcome, before>>

KeyName(kind, columns) == <<kind, FlattenSeq(columns)>>
Key(kind, columns) == [kind |-> kind, columns |-> columns]
AddConstraint(d, kind, columns) == [d EXCEPT !.constraints = (KeyName(kind, columns) :> Key(kind, columns)) @@ @]
AddIndex(d, columns) == [d EXCEPT !.indexes = (KeyName("index", columns) :> Key("index", columns)) @@ @]
AddColumn(d, c) == [d EXCEPT !.columns = (c.name :> c) @@ @]

SupportsVectors == platform = "postgres"
Declare(n, method) ==
    LET d == AddColumn(draft, Declares(n, method))
    IN  CASE Added[method][1] = "vector" /\ ~SupportsVectors -> Raises
          [] IsPrimary(method) -> Call(AddConstraint(d, "primary", <<n>>), {n}, lastForeign, {Key("primary", <<n>>)})
          [] OTHER -> Call(d, {n}, lastForeign, {})
\* Two columns at once, which no modifier can be about; nullable() is then ignored.
Morphs(n) ==
    LET id == Append(n, "id")
        type == Append(n, "type")
        d == AddColumn(AddColumn(draft, Column(id, "integer", "", TRUE)), Column(type, "string", "", FALSE))
    IN  Call(AddIndex(AddIndex(d, <<id>>), <<type>>), {id, type}, lastForeign, {Key("index", <<id>>), Key("index", <<type>>)})
Timestamp(n) == [Column(n, "datetime", "", FALSE) EXCEPT !.null = TRUE, !.default = "current"]
Timestamps == Call(AddColumn(AddColumn(draft, Timestamp(<<"created", "at">>)), Timestamp(<<"updated", "at">>)),
                   {<<"updated", "at">>}, lastForeign, {})
SoftDeletes == LET n == <<"deleted", "at">>
               IN  Call(AddColumn(draft, [Column(n, "datetime", "", FALSE) EXCEPT !.null = TRUE]), {n}, lastForeign, {})

IsColumn == Cardinality(last) = 1
Modify(field, v) == IF ~IsColumn THEN Raises
                    ELSE Call([draft EXCEPT !.columns = [n \in DOMAIN @ |-> IF n \in last THEN [@[n] EXCEPT ![field] = v] ELSE @[n]]], last, lastForeign, {})
Nullable == IF Cardinality(last) = 2 THEN Call(draft, last, lastForeign, {}) ELSE Modify("null", TRUE)
DefaultTo(v) == Modify("default", v)
Unsigned == Modify("unsigned", TRUE)

\* unique(), primary() and index(), of columns or of the last one.
AddKey(kind, columns) ==
    LET d == IF kind = "index" THEN AddIndex(draft, columns) ELSE AddConstraint(draft, kind, columns)
    IN  Call(d, last, lastForeign, {Key(kind, columns)})
AddKeyToLast(kind) == IF IsColumn THEN \E n \in last: AddKey(kind, <<n>>) ELSE Raises

ForeignKey(n) == [column |-> n, table |-> "none", references |-> NoName, delete |-> "none", update |-> "none"]
AddForeign(d, n) == [d EXCEPT !.foreign = (n :> ForeignKey(n)) @@ @]
Foreign(n) == Call(AddForeign(draft, n), last, n, {})
ForeignMethods == {"unsigned_big_integer", "uuid"}   \* foreign_id(), foreign_uuid()
ForeignId(n, method) == Call(AddForeign(AddColumn(draft, Declares(n, method)), n), {n}, n, {})
\* references().on(), or add_foreign(); on_delete() and on_update().
SetForeign(change) == IF lastForeign = NoName THEN Raises
                      ELSE Call([draft EXCEPT !.foreign[lastForeign] = change @@ @], last, lastForeign, {})
ReferencesOn(c, t) == SetForeign([references |-> c, table |-> t])
OnDelete(a) == SetForeign([delete |-> a])
OnUpdate(a) == SetForeign([update |-> a])

-------------------------------------------------------------------------------
\* compile_create_sql() of the four platforms.
Sqlite == platform = "sqlite"
Inline(d) == {n \in DOMAIN d.columns: Sqlite /\ d.columns[n].type \in Autoincrement}
Typed(c) == [type |-> TypeMap[platform][c.type], length |-> IF c.type \in TypesWithoutLengths[platform] THEN "" ELSE c.length,
             unsigned |-> FALSE, null |-> c.null, default |-> c.default]
Columnize(c) ==
    IF Sqlite /\ c.type \in Autoincrement THEN [type |-> "INTEGER", length |-> "", unsigned |-> FALSE, null |-> FALSE, default |-> "none"]
    ELSE [Typed(c) EXCEPT !.unsigned = c.unsigned /\ platform \in {"sqlite", "mysql"} /\ ~(Sqlite /\ c.type = "decimal")]
\* The primary key of an autoincrementing column is written with the column.
Constraintize(d) == {k \in Range(d.constraints): ~(k.kind = "primary" /\ Range(k.columns) \cap Inline(d) # {})}
InlineKeys(d) == {Key("primary", <<n>>): n \in Inline(d)}
\* on_delete() with an action that the platform does not know writes the word None.
Cascade(a) == IF a \in {"none", "cascade", "set null", "restrict", "no action", "default"} THEN a ELSE "None"
ForeignKeyConstraintize(d) == {[f EXCEPT !.delete = Cascade(@), !.update = Cascade(@)]: f \in Range(d.foreign)}
CompileCreate(d) == [columns |-> [n \in DOMAIN d.columns |-> Columnize(d.columns[n])],
                     keys |-> Constraintize(d) \cup InlineKeys(d), foreign |-> ForeignKeyConstraintize(d)]

\* The database's part: CREATE TABLE, or Failed.
Failed == [failed |-> TRUE]
MayBe(c) == /\ HasType(platform, c.type, c.length)
            \* UNSIGNED belongs to a number, and comes before a size on SQLite.
            /\ c.unsigned => IF Sqlite THEN c.length = "" ELSE c.type \in {MySQLTypes[m]: m \in DOMAIN Integers \cap DOMAIN MySQLTypes} \cup {"DECIMAL"}
\* A column that counts by itself has no default and is part of a key.
Counting == {TypeMap[platform][m]: m \in {"increments", "big_increments", "tiny_increments"}}
CountsAlone(t, n) ==
    LET c == t.columns[n]
    IN  c.type \in Counting /\ ~Sqlite =>
          /\ ~c.null /\ c.default = "none" /\ ~c.unsigned
          /\ platform \in {"mysql", "mssql"} => \A m \in DOMAIN t.columns \ {n}: t.columns[m].type \notin Counting
          /\ platform = "mysql" => \E k \in t.keys: k.columns[1] = n
\* NULL does not go with a primary key, but on SQLite; Postgres drops it.
Primaries(t) == UNION {Range(k.columns): k \in {k \in t.keys: k.kind = "primary"}}
MayBeKeys(t) ==
    /\ \A k \in t.keys: Range(k.columns) \subseteq DOMAIN t.columns
    /\ Cardinality({k \in t.keys: k.kind = "primary"}) <= 1
    /\ platform \in {"mysql", "mssql"} => \A n \in Primaries(t): ~t.columns[n].null
\* The other tables, and their keys.  SQLite looks for neither.
Known == [users |-> "big_increments", devices |-> "uuid"]
Complete(f) == f.table \in DOMAIN Known /\ f.references # NoName
Fits(c, t) ==
    CASE Sqlite -> TRUE
      [] Known[t] = "uuid" -> c.type = TypeMap[platform].uuid
      [] platform = "postgres" -> c.type \in {"SMALLINT", "INTEGER", "BIGINT", "SERIAL UNIQUE", "BIGSERIAL UNIQUE"}
      [] platform = "mysql" -> (c.type = "BIGINT" /\ c.unsigned) \/ c.type = "BIGINT UNSIGNED AUTO_INCREMENT"
      [] OTHER -> c.type \in {"BIGINT", "BIGINT IDENTITY"}
Does(c, a) ==
    /\ a # "None"
    /\ a = "set null" /\ platform \in {"mysql", "mssql"} => c.null
    /\ ~(a = "restrict" /\ platform = "mssql") /\ ~(a = "default" /\ platform = "mysql")
MayBeForeign(t) ==
    /\ \A f \in t.foreign:
         /\ f.column \in DOMAIN t.columns
         /\ Sqlite \/ (Complete(f) /\ Fits(t.columns[f.column], f.table))
         /\ Does(t.columns[f.column], f.delete) /\ Does(t.columns[f.column], f.update)
    \* SQL Server has one path of cascades between two tables.
    /\ platform = "mssql" => \A f, g \in t.foreign:
         f = g \/ f.table # g.table \/ \E h \in {f, g}: {h.delete, h.update} \subseteq {"none", "no action"}
CreateTable(t) ==
    IF /\ MayBeKeys(t) /\ MayBeForeign(t)
       /\ \A n \in DOMAIN t.columns: MayBe(t.columns[n]) /\ CountsAlone(t, n)
    THEN [t EXCEPT !.columns = [n \in DOMAIN @ |->
            [@[n] EXCEPT !.null = @ /\ ~(platform = "postgres" /\ n \in Primaries(t)),
                         \* On SQL Server a string without a length has one character.
                         !.length = IF platform = "mssql" /\ t.columns[n].type \in {"VARCHAR", "CHAR"} /\ @ = "" THEN "1" ELSE @]]]
    ELSE Failed
\* Without IF NOT EXISTS, and on SQL Server, which has none, an existing table
\* is an error; and so is an index that exists, or whose columns do not.
Creates(t) == IF platform = "mssql" /\ action # "create" THEN Failed
              ELSE IF stored = NoDatabase THEN CreateTable(t) ELSE IF action = "create" THEN Failed ELSE stored
CreateIndex(t, k) == IF t = Failed \/ k \in t.keys \/ ~(Range(k.columns) \subseteq DOMAIN t.columns) THEN Failed
                     ELSE [t EXCEPT !.keys = @ \cup {k}]
Compiled(d) == FoldSet(LAMBDA k, t: CreateIndex(t, k), Creates(CompileCreate(d)), Range(d.indexes))

-------------------------------------------------------------------------------
Open(a) == /\ action = "none" /\ outcome = "none" /\ action' = a
           /\ UNCHANGED <<platform, draft, last, lastForeign, raised, calls, stored, asked, outcome, before>>
\* Leaving the block.  After a failure the transaction takes back what was
\* created; MySQL and SQLite have committed the table, and the indexes that were
\* made before the one that failed.
Exit ==
    /\ action # "none" /\ draft.columns # None /\ before' = stored /\ outcome = "none"
    /\ LET t == Compiled(draft)
           created == Creates(CompileCreate(draft))
       IN  IF t # Failed THEN stored' = t /\ outcome' = "done"
           ELSE /\ outcome' = "failed"
                /\ IF platform \in {"mysql", "sqlite"} /\ created # Failed
                   THEN \E done \in SUBSET {k \in Range(draft.indexes): CreateIndex(created, k) # Failed}:
                          stored' = [created EXCEPT !.keys = @ \cup done]
                   ELSE UNCHANGED stored
    /\ UNCHANGED <<platform, action, draft, last, lastForeign, raised, calls, asked>>
\* The same migration once more, with create_table_if_not_exists().
Again == /\ outcome = "done" /\ before = NoDatabase /\ outcome' = "none" /\ action' = "create_table_if_not_exists" /\ calls' = MaxCalls
         /\ UNCHANGED <<platform, draft, last, lastForeign, raised, stored, asked, before>>

Init == /\ platform \in Platforms /\ action = "none" /\ draft = NoTable /\ last = {} /\ lastForeign = NoName
        /\ raised = FALSE /\ calls = 0 /\ stored = NoDatabase /\ asked = {} /\ outcome = "none" /\ before = NoDatabase
Next ==
    \/ \E a \in {"create", "create_table_if_not_exists"}: Open(a)
    \/ outcome = "none" /\ \E n \in Names:
         \/ \E method \in Methods: Declare(n, method)
         \/ Morphs(n) \/ Foreign(n)
         \/ \E method \in ForeignMethods: ForeignId(n, method)
    \/ outcome = "none" /\ (Timestamps \/ SoftDeletes \/ Nullable \/ Unsigned \/ \E v \in Defaults: DefaultTo(v))
    \/ outcome = "none" /\ \E kind \in {"unique", "index", "primary"}:
         \/ AddKeyToLast(kind)
         \/ AddKey(kind, Composite)
    \/ outcome = "none" /\ ((\E t \in DOMAIN Known: ReferencesOn(<<"id">>, t)) \/ \E a \in Actions: OnDelete(a) \/ OnUpdate(a))
    \/ Exit \/ Again
Spec == Init /\ [][Next]_vars
-------------------------------------------------------------------------------
\* One primary key, of columns that are not nullable, keys and foreign keys of
\* columns that there are, and no two keys of one name; types that the database
\* has, with a length if they are strings; nothing said of a column that counts
\* by itself, or of the sign of what is no number.
OrdinaryColumn(d) ==
    LET c == Columnize(d)
    IN  /\ HasType(platform, c.type, c.length) /\ ~(platform = "mssql" /\ c.type = "VARCHAR" /\ c.length = "")
        /\ IsPrimary(d.type) => ~d.null /\ d.default = "none" /\ ~d.unsigned
        /\ d.unsigned => d.type \in DOMAIN Integers \cup {"decimal"}
\* A foreign key has the type of the key it names, and an action that is known;
\* set null is for one that is nullable.  SQL Server has no restrict and one path
\* of cascades, and MySQL no default.
OrdinaryForeign(n) ==
    LET f == draft.foreign[n]
        actions == {f.delete, f.update}
    IN  /\ n \in DOMAIN draft.columns /\ Complete(f) /\ \A a \in actions: Cascade(a) = a
        /\ LET d == draft.columns[n] IN
             /\ IF Known[f.table] = "uuid" THEN d.type = "uuid" ELSE d.type = "big_integer" /\ d.unsigned
             /\ "set null" \in actions => d.null
        /\ ~("restrict" \in actions /\ platform = "mssql") /\ ~("default" \in actions /\ platform = "mysql")
        /\ platform = "mssql" => \A m \in DOMAIN draft.foreign \ {n}: draft.foreign[m].table # f.table
Ordinary ==
    /\ \A k \in asked: Range(k.columns) \subseteq DOMAIN draft.columns
    /\ \A k \in asked: k.kind = "primary" => \A n \in Range(k.columns): ~draft.columns[n].null
    /\ \A j, k \in asked: j = k \/ j.kind # k.kind \/ (FlattenSeq(j.columns) # FlattenSeq(k.columns) /\ j.kind # "primary")
    /\ \A n \in DOMAIN draft.columns: OrdinaryColumn(draft.columns[n])
    /\ \A n \in DOMAIN draft.foreign: OrdinaryForeign(n)
\* What a column keeps of its declaration; one that counts by itself has the
\* database's default.
Kept(c, d) == /\ c.type # "" /\ c.length \in {"", d.length}
              /\ d.type \in Autoincrement \/ (c.null = d.null /\ c.default = d.default)
\* On all four platforms an ordinary table is created with the columns last
\* declared under their names, all of the keys asked for, by whatever call, and
\* exactly one definition of the primary key, and the foreign keys, even if the
\* block raised half-way; one that exists is left alone by
\* create_table_if_not_exists(), which fails if it has an index, and has no
\* form that SQL Server takes (SQLitePlatform.py 68-163, PostgresPlatform.py
\* 90-168, MySQLPlatform.py 62-141, MSSQLPlatform.py 64-94, 241-286).
CreatedAsDeclared ==
    outcome \in {"done", "failed"} /\ Ordinary /\ ~(platform = "mssql" /\ action # "create") =>
      IF before = NoDatabase
      THEN /\ outcome = "done" /\ DOMAIN stored.columns = DOMAIN draft.columns
           /\ \A n \in DOMAIN stored.columns: Kept(stored.columns[n], draft.columns[n])
           /\ stored.keys = asked /\ stored.foreign = Range(draft.foreign)
      ELSE stored = before /\ (outcome = "done" <=> draft.indexes = None)
===============================================================================
