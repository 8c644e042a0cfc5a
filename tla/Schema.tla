-------------------------------- MODULE Schema --------------------------------
(***************************************************************************)
(* Altering a table (masoniteorm/schema): a migration chains calls on a    *)
(* Blueprint, which collects a TableDiff; on leaving the "async with", the *)
(* platform compiles it to statements, which run in one transaction.       *)
(* SQLite has to read the table back from the database, and to copy it     *)
(* into a new one.  What the statements do is the database's part.         *)
(***************************************************************************)
EXTENDS Naturals, Sequences, SequencesExt, ColumnTypes
CONSTANTS Platforms,
          Methods,              \* what the migrations use: string, the integers and decimal
          MaxCalls              \* bound on the calls of a migration
VARIABLES platform,
          table,    \* in the database: columns (name -> column), keys, and whether its statements were ok
          diff,     \* the TableDiff
          last,     \* the name of the column that a modifier is about
          calls,
          outcome,  \* history: "pending", or what became of the statements
          before    \* history: the table before them
vars == <<platform, table, diff, last, calls, outcome, before>>

Put(f, k, v) == [x \in DOMAIN f \cup {k} |-> IF x = k THEN v ELSE f[x]]
Without(f, S) == [x \in DOMAIN f \ S |-> f[x]]
None == [x \in {} |-> x]

-------------------------------------------------------------------------------
\* A column in the database: its type as SQL, and where its data came from.
Sqlite == platform = "sqlite"
Base(type) == TypeMap[platform][type]
Signs(c) == c.unsigned /\ platform \in {"sqlite", "mysql"} /\ ~(Sqlite /\ c.type = "decimal")
Stored(c, from) ==
    [base |-> IF Signs(c) THEN Base(c.type) \o " UNSIGNED" ELSE Base(c.type),
     length |-> IF c.type \in TypesWithoutLengths[platform] \cup Autoincrement THEN "" ELSE c.length,
     null |-> c.null, default |-> c.default, from |-> from]

\* SQLite: the type a blueprint would give to a stored column.  With a length,
\* only those of CHAR and VARCHAR are known; without one, those of the type map.
ReadType(c, autoincrement) ==
    CASE c.base = "CHAR" -> IF c.length = "36" THEN "uuid" ELSE "char"
      [] c.base = "VARCHAR" -> IF c.length = "4" THEN "year" ELSE "string"
      [] c.base \notin SqliteNames \/ c.length # "" -> "unknown"
      [] c.base = "INTEGER" -> IF autoincrement THEN "increments" ELSE "integer"
      [] c.base = "LONGBLOB" -> "binary"
      [] c.base = "TEXT" -> "text"
      [] OTHER -> CHOOSE t \in DOMAIN SqliteTypes: SqliteTypes[t] = c.base
\* An index, or a constraint, is named for its kind and for the column it was
\* made on, and keeps the name when the column is renamed.
Key(kind, n) == [kind |-> kind, name |-> n, columns |-> {n}]
PrimaryKey == Key("primary", "id")
GetCurrentSchema == [n \in DOMAIN table.columns |->
    LET c == table.columns[n]
        type == ReadType(c, n = "id" /\ PrimaryKey \in table.keys)
    IN  [Column(n, type, c.length, FALSE) EXCEPT !.null = c.null, !.default = c.default]]

-------------------------------------------------------------------------------
\* The database's part: what one statement, or a clause of one, makes of a
\* table, which holds rows.  Their values, and the defaults that are given, are
\* such that every type can take them.
Fail(t) == [t EXCEPT !.ok = FALSE]
Names(cs) == {cs[k].name : k \in DOMAIN cs}
Has(c) == HasType(platform, Base(c.type), c.length)
NoDefault(c) == ~c.null /\ c.default = "none"
KeysOn(t, S) == {k \in t.keys: k.columns \cap S # {}}
\* In an ADD COLUMN, but on SQL Server, a raw default is quoted as a string is.
Quoted(c) == [c EXCEPT !.default = IF @ = "raw" /\ platform # "mssql" THEN "text" ELSE @]
\* MySQL gives the rows a value by itself.
AddColumn(t, c, length) ==
    IF c.name \in DOMAIN t.columns \/ ~Has(c) \/ (NoDefault(c) /\ platform # "mysql") THEN Fail(t)
    ELSE [t EXCEPT !.columns = Put(@, c.name, Stored([Quoted(c) EXCEPT !.length = length], "default"))]
Rename(t, old, c, redefine) ==
    IF old \notin DOMAIN t.columns \/ c.name \in DOMAIN t.columns \/ (redefine /\ ~Has(c)) THEN Fail(t)
    ELSE [t EXCEPT !.columns = Put(Without(@, {old}), c.name, IF redefine THEN Stored(c, @[old].from) ELSE @[old]),
                   !.keys = {[k EXCEPT !.columns = {IF n = old THEN c.name ELSE n: n \in @}]: k \in @}]
\* Postgres drops a default first, but converts one that another replaces, and a
\* text is no number; SQL Server keeps the type of an indexed column.
Convertible(c, d) == c.default = "none" \/ d.default = "none" \/ c.base # "VARCHAR" \/ d.base = "VARCHAR"
SameText(c, d) == c.base = "VARCHAR" /\ d.base = "VARCHAR" /\ c.length = d.length
Alter(t, n, c) ==
    IF n \notin DOMAIN t.columns \/ ~Has(c) THEN Fail(t)
    ELSE LET old == t.columns[n]
             new == Stored(c, old.from)
         IN  IF \/ platform = "postgres" /\ ~Convertible(old, new)
                \/ platform = "mssql" /\ KeysOn(t, {n}) # {} /\ ~SameText(old, new)
             THEN Fail(t) ELSE [t EXCEPT !.columns = Put(@, n, new)]
\* On SQL Server a column with a default, which is a constraint, or with an index
\* is not dropped; elsewhere its indexes go with it.
Drop(t, S) ==
    IF \/ ~(S \subseteq DOMAIN t.columns)
       \/ platform = "mssql" /\ (KeysOn(t, S) # {} \/ \E n \in S: t.columns[n].default # "none")
    THEN Fail(t) ELSE [t EXCEPT !.columns = Without(@, S), !.keys = @ \ KeysOn(t, S)]
SameKey(j, k) == j.kind = k.kind /\ j.name = k.name
DropKey(t, key) == IF ~\E k \in t.keys: SameKey(k, key) THEN Fail(t) ELSE [t EXCEPT !.keys = {k \in @: ~SameKey(k, key)}]
AddKey(t, key) ==
    IF \/ ~(key.columns \subseteq DOMAIN t.columns) \/ \E k \in t.keys: SameKey(k, key)
       \/ key.kind = "primary" /\ (Sqlite \/ \E k \in t.keys: k.kind = "primary")
    THEN Fail(t) ELSE [t EXCEPT !.keys = @ \cup {key}]

\* SQLite: CREATE TEMPORARY TABLE ... AS SELECT names; DROP TABLE; CREATE TABLE
\* columns; INSERT INTO (new names) SELECT names FROM the copy.  A type that is a
\* length only does not parse, and a key in the CREATE TABLE has no name.
Lost == [columns |-> None, keys |-> {}, ok |-> FALSE]
Emptied(t) == [t EXCEPT !.ok = FALSE, !.columns = [n \in DOMAIN @ |-> [@[n] EXCEPT !.from = "lost"]]]
Unnamed(keys) == {[k EXCEPT !.name = ""]: k \in {k \in keys: k.kind # "index"}}
Creatable(columns, keys) ==
    /\ \A k \in DOMAIN columns: columns[k].type = "unknown" => columns[k].length = ""
    /\ \A j, k \in DOMAIN columns: j = k \/ columns[j].name # columns[k].name
    /\ \A k \in keys: k.columns \subseteq Names(columns)
    /\ \A j, k \in keys: j = k \/ j.kind # "primary" \/ k.kind # "primary"
Rebuild(t, names, columns, copied, keys) ==
    LET counting == {columns[k].name: k \in {k \in DOMAIN columns: columns[k].type \in Autoincrement}}
        written == Unnamed(keys \cup {Key("primary", n): n \in counting})
        From(k) == IF k \in copied \cap DOMAIN t.columns THEN t.columns[k].from ELSE "default"
        new == [columns |-> [n \in Names(columns) |-> LET k == CHOOSE k \in DOMAIN columns: columns[k].name = n
                                                      IN  Stored(columns[k], From(k))],
                keys |-> written, ok |-> TRUE]
    IN  CASE ~(names \subseteq DOMAIN t.columns) -> Fail(t)
          [] ~Creatable(columns, written) -> Lost
          [] ~(copied \subseteq names) -> Emptied(new)
          [] OTHER -> new

-------------------------------------------------------------------------------
\* compile_alter_sql() of the four platforms, as functions from tables to tables:
\* statement by statement until one fails.  One of several clauses does all of
\* them or nothing.
Then(t, Op(_)) == IF t.ok THEN Op(t) ELSE t
Each(t, S, Op(_, _)) == FoldLeft(LAMBDA u, x: IF u.ok THEN Op(u, x) ELSE u, t, SetToSeq(S))
Whole(t, u) == IF u.ok \/ Sqlite THEN u ELSE Fail(t)
AddsColumns(t, sized) == Whole(t, Each(t, DOMAIN diff.added, LAMBDA u, n: AddColumn(u, diff.added[n], IF sized THEN diff.added[n].length ELSE "")))
\* A RENAME COLUMN of Postgres is a statement of its own.
Renames(t, redefine) ==
    IF platform = "postgres" /\ Cardinality(DOMAIN diff.renamed) > 1 THEN Fail(t)
    ELSE Whole(t, Each(t, DOMAIN diff.renamed, LAMBDA u, n: Rename(u, n, diff.renamed[n], redefine)))
Changes(t) == Whole(t, Each(t, DOMAIN diff.changed, LAMBDA u, n: Alter(u, n, diff.changed[n])))
Drops(t) == Then(t, LAMBDA u: Drop(u, diff.dropped))
DropsKeys(t) == Each(t, diff.droppedKeys, DropKey)
AddsIndexes(t) == Each(t, {k \in diff.keys: k.kind = "index"}, AddKey)
AddsConstraints(t) == Each(t, {k \in diff.keys: k.kind # "index"}, AddKey)

Copies == DOMAIN diff.renamed \cup diff.dropped \cup DOMAIN diff.changed # {}
\* The careless copy: the columns that change are written as they were.
RebuiltUnchanged(t) ==
    LET original == Without(diff.from, diff.dropped)
        columns == Over(Over(original, diff.renamed), diff.added)
    IN  IF ~Copies THEN t
        ELSE Then(t, LAMBDA u: Rebuild(u, DOMAIN original, columns, DOMAIN columns \ DOMAIN diff.added, {k \in diff.keys: k.kind # "index"}))
Rebuilt(t) ==
    LET original == Without(diff.from, diff.dropped)
        columns == Over(Over(Over(original, diff.renamed), diff.changed), diff.added)
    IN  IF ~Copies THEN t
        ELSE Then(t, LAMBDA u: Rebuild(u, DOMAIN original, columns, DOMAIN columns \ DOMAIN diff.added, {k \in diff.keys: k.kind # "index"}))
\* The driver begins no transaction before a statement that alters a table, but
\* before the INSERT: a later failure takes the copied rows back.
CompileSqlite(t) ==
    LET copied == Rebuilt(AddsColumns(DropsKeys(t), FALSE))
        all == AddsConstraints(AddsIndexes(copied))
    IN  IF Copies /\ copied.ok /\ ~all.ok THEN Emptied(copied) ELSE all
CompilePostgres(t) == AddsConstraints(AddsIndexes(DropsKeys(Changes(Drops(Renames(AddsColumns(t, TRUE), FALSE))))))
CompileMySQL(t) == DropsKeys(AddsConstraints(AddsIndexes(Drops(Changes(Renames(AddsColumns(t, TRUE), TRUE))))))
CompileMSSQL(t) == AddsConstraints(DropsKeys(AddsIndexes(Drops(Renames(Changes(AddsColumns(t, TRUE)), FALSE)))))
Compile(t) == CASE Sqlite -> CompileSqlite(t) [] platform = "postgres" -> CompilePostgres(t)
                [] platform = "mysql" -> CompileMySQL(t) [] OTHER -> CompileMSSQL(t)

-------------------------------------------------------------------------------
\* The calls of a migration on the Blueprint.
NoDiff == [added |-> None, changed |-> None, renamed |-> None, dropped |-> {}, keys |-> {}, droppedKeys |-> {}, from |-> None]
Call(d, n) == /\ calls < MaxCalls /\ outcome = "pending" /\ calls' = calls + 1
              /\ diff' = d /\ last' = n /\ UNCHANGED <<platform, table, outcome, before>>
Nullable(c) == [c EXCEPT !.null = TRUE]
Default(c, v) == [c EXCEPT !.default = v]
Add(n, c) == Call([diff EXCEPT !.added = Put(@, n, c)], n)
\* change() moves the column just declared.
Change(n, c) == Call([diff EXCEPT !.added = Without(@, {n}), !.changed = Put(@, n, c)], n)
Declare(n, method) ==
    \E c \in {Declares(n, method), Nullable(Declares(n, method)), Default(Declares(n, method), "text"), Default(Declares(n, method), "raw")}:
      Add(n, c) \/ Change(n, c)
AddKeys(kind) == last # "" /\ Call([diff EXCEPT !.keys = @ \cup {Key(kind, last)}], last)
RenameColumn(old, new, method) == Call([diff EXCEPT !.renamed = Put(@, old, Column(new, Added[method][1], "", FALSE))], last)
DropColumn(n) == n \notin diff.dropped /\ Call([diff EXCEPT !.dropped = @ \cup {n}], last)
DropIndex(n) == diff.droppedKeys = {} /\ Call([diff EXCEPT !.droppedKeys = {Key("index", n)}], last)

\* Leaving the "async with": the table is read, then the statements run.  A
\* failure undoes what was done on Postgres and SQL Server; MySQL and SQLite have
\* committed it (in which order, of statements of one sort, is left open).
Read ==
    /\ outcome = "pending" /\ diff # NoDiff /\ outcome' = "read" /\ before' = table
    /\ diff' = [diff EXCEPT !.from = IF Sqlite THEN GetCurrentSchema ELSE None]
    /\ UNCHANGED <<platform, table, last, calls>>
Run ==
    /\ outcome = "read"
    /\ LET result == Compile(table) IN
         /\ outcome' = IF result.ok THEN "done" ELSE "failed"
         /\ table' = IF result.ok \/ platform \in {"mysql", "sqlite"} THEN result ELSE table
    /\ UNCHANGED <<platform, diff, last, calls, before>>

\* A created table: a primary key, a column of some method and a string, which
\* is indexed.
Created(id, a) == [columns |-> [n \in {"id", "a", "b"} |->
                                  CASE n = "id" -> Stored(Declares(n, id), n) [] n = "a" -> Stored(Declares(n, a), n)
                                    [] OTHER -> Stored([Declares(n, "string") EXCEPT !.null = TRUE, !.default = "raw"], n)],
                   keys |-> {PrimaryKey, Key("index", "b")}, ok |-> TRUE]
Init == /\ platform \in Platforms /\ diff = NoDiff /\ last = "" /\ calls = 0 /\ outcome = "pending"
        /\ \E c \in {<<"uuid", "string">>} \cup ({"increments"} \X Methods): table = Created(c[1], c[2])
        /\ before = table
Next == \/ \E method \in Methods: \/ \E n \in {"a", "b", "c"}: Declare(n, method)
                                  \/ \E old \in {"a", "b"}, new \in {"c", "d"}: RenameColumn(old, new, method)
        \/ (\E kind \in {"unique", "index", "primary"}: AddKeys(kind))
        \/ (\E n \in {"a", "b"}: DropColumn(n)) \/ DropIndex("b") \/ Read \/ Run
Spec == Init /\ [][Next]_vars

-------------------------------------------------------------------------------
Finals == (DOMAIN before.columns \ (diff.dropped \cup DOMAIN diff.renamed)) \cup Names(diff.renamed) \cup DOMAIN diff.added
Touched == DOMAIN diff.changed \cup DOMAIN diff.renamed \cup diff.dropped
Untouched == DOMAIN before.columns \ Touched
Rebuilds == Sqlite /\ Touched # {}
Readable(c) == ReadType(c, TRUE) # "unknown"
\* Each column is touched once, exists, and leads to a new name, and so does each
\* key; what is added has a value for the rows there are.
Ordinary ==
    /\ Touched \subseteq DOMAIN before.columns
    /\ DOMAIN diff.changed \cap (DOMAIN diff.renamed \cup diff.dropped) = {} /\ DOMAIN diff.renamed \cap diff.dropped = {}
    /\ (Names(diff.renamed) \cup DOMAIN diff.added) \cap DOMAIN before.columns = {}
    /\ Names(diff.renamed) \cap DOMAIN diff.added = {} /\ Cardinality(Names(diff.renamed)) = Cardinality(DOMAIN diff.renamed)
    /\ \A n \in DOMAIN diff.added: ~NoDefault(diff.added[n]) /\ diff.added[n].default # "raw"
    /\ \A key \in diff.keys: key.kind # "primary" /\ key.columns \subseteq Finals /\ key \notin before.keys
    /\ \A key \in diff.droppedKeys: key.columns \subseteq Untouched
\* What the code asks of the database in vain: SQLite to copy a column of a type
\* that was not read back, Postgres to rename two columns in one statement or to
\* convert a default, SQL Server to drop a column that has a default, or to drop
\* or change one that has a key.
Refused ==
    CASE Sqlite -> Rebuilds /\ \E n \in Untouched: ~Readable(before.columns[n])
      [] platform = "postgres" -> \/ Cardinality(DOMAIN diff.renamed) > 1
                                  \/ \E n \in DOMAIN diff.changed: ~Convertible(before.columns[n], Stored(diff.changed[n], n))
      [] platform = "mssql" -> \/ KeysOn(before, diff.dropped \cup DOMAIN diff.changed) # {}
                               \/ \E n \in diff.dropped: before.columns[n].default # "none"
      [] OTHER -> FALSE
Took(n) == LET c == table.columns[n] IN
    CASE n \in DOMAIN diff.added -> LET d == Stored(diff.added[n], "default") IN c = [d EXCEPT !.length = c.length]
      [] n \in DOMAIN diff.changed -> c = Stored(diff.changed[n], n)
      [] n \in Untouched -> c = before.columns[n]
      [] OTHER -> \E old \in DOMAIN diff.renamed:
                    /\ diff.renamed[old].name = n /\ c.from = old
                    /\ platform \in {"postgres", "mssql"} => c = before.columns[old]
Renamed(n) == IF n \in DOMAIN diff.renamed THEN diff.renamed[n].name ELSE n
KeysKept == {[k EXCEPT !.columns = {Renamed(n): n \in @}]: k \in before.keys \ (diff.droppedKeys \cup KeysOn(before, diff.dropped))}
\* On all four platforms an ordinary alteration that the database does not refuse
\* leaves exactly the columns asked for, each as declared and with the data of
\* the column it was, and the keys asked for, although SQLite copies the table
\* and each platform orders its statements in a way of its own.  But for
\* SQLite's copy, which loses them, the other keys stay with their columns
\* (SQLitePlatform.py 165-287, PostgresPlatform.py 170-341, MySQLPlatform.py
\* 143-309, MSSQLPlatform.py 96-188).
AlteredAsDeclared ==
    outcome \in {"done", "failed"} /\ Ordinary /\ ~Refused =>
      /\ outcome = "done" /\ DOMAIN table.columns = Finals
      /\ \A n \in Finals: Took(n)
      /\ diff.keys \subseteq table.keys /\ diff.droppedKeys \cap table.keys = {}
      /\ ~Rebuilds => table.keys = KeysKept \cup diff.keys

\* docs/adr/026-schema-column-change.md: on SQLite, changing a column "keeps the
\* existing rows and the untouched columns" (SQLitePlatform.py 214-263, 427-445).
UntouchedKept ==
    outcome \in {"done", "failed"} /\ Ordinary /\ Touched = DOMAIN diff.changed =>
      outcome = "done" /\ \A n \in Untouched: table.columns[n] = before.columns[n]
===============================================================================
