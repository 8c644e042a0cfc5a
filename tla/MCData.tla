-------------------------------- MODULE MCData --------------------------------
(* Small instances of the modules about the database, side by side: a        *)
(* behaviour is one of the part chosen at its start, and the others stay as   *)
(* they are.                                                                  *)
EXTENDS Models, Migrator, TLC

CONSTANTS Parts,        \* the parts that are checked
          Null, MaxCalls,
          Altering      \* the methods of the Blueprint that alter a table
VARIABLE part

(* Migrator: either one process runs all the commands and is not killed, or    *)
(* two processes migrate, overlapping, and are killed.                          *)
CONSTANTS p1, p2
Two == {p1, p2}
VARIABLE alone
InitEither == alone \in BOOLEAN /\ MigratorInit
NextEither ==
    /\ MigratorNext /\ UNCHANGED alone
    /\ IF alone THEN run'[p2] = Idle /\ crashes' = 0
       ELSE \A p \in Two : run'[p].cmd \in {"migrate", "none"}
\* A process that is not killed leaves between its commands what the migrations
\* table says, and undoes the migrations in reverse order
\* (Migrator.py 55-59, 108-153, 155-201, 209-240).
UndoneInOrder == LastInFirstOut /\ [](alone => AtRest)

(* Models: either two instances edit the stored row 1, or they look for values *)
(* and create rows.                                                            *)
VARIABLES seeks, begun
\* 1 and 2 are the same number written in two ways.
SameNumber(v, w) == v = w \/ {v, w} = {1, 2}
modelled == <<vars, seeks, begun>>
InitModels == Init /\ seeks \in BOOLEAN /\ begun = 0 /\ (~seeks => row[1] # Absent /\ row[2] = Absent)
NextModels ==
    /\ UNCHANGED seeks
    /\ \E m \in Instances :
         \/ Saves(m) /\ UNCHANGED begun
         \/ /\ IF seeks THEN Seeks(m) ELSE Edits(m) /\ row'[2] = Absent
            /\ begun' = begun + (IF sets' = sets /\ doing[m] = "none" THEN 1 ELSE 0)
    /\ begun' <= IF seeks THEN 2 ELSE 3      \* the operations that are begun
ASSUME ValuesCompare

(* Paging *)
VARIABLES disjuncts, walk, pages, atFirst, always, changes
P == INSTANCE Paging WITH Ids <- 1 .. 4, Counts <- {1, 2, 3}, MaxChanges <- 2, MaxPages <- 5,
         Queries <- {<<S>> : S \in SUBSET (1 .. 4)} \cup {<<S, T>> : S, T \in {{1}, {1, 3}, {2, 4}}}
paged == <<disjuncts, walk, pages, atFirst, always, changes>>
WalkIsTheQuery == part = "paging" => P!WalkIsTheQuery

(* Query *)
VARIABLES builder, calls, given
Q == INSTANCE Query
built == <<builder, calls, given>>
BindingsAligned == part = "query" => Q!BindingsAligned

(* Schema *)
VARIABLES platform, table, diff, last, altered, outcome, before
S == INSTANCE Schema WITH Platforms <- {"sqlite", "postgres", "mysql", "mssql"},
         Methods <- Altering, MaxCalls <- 3, calls <- altered
drawn == <<platform, table, diff, last, altered, outcome, before>>

(* Creation: of the columns a and id, and of a_id, by morphs("a"). *)
VARIABLES action, draft, column, foreign, raised, steps, created, wanted, left, existing
K == INSTANCE Creation WITH Platforms <- {"sqlite", "mysql", "postgres", "mssql"}, Names <- {<<"a">>, <<"id">>},
         Composite <- <<<<"a">>, <<"id">>>>, Methods <- {"increments", "decimal"}, Defaults <- {"text"}, Actions <- {"cascade", "set null", "unknown"}, MaxCalls <- 4,
         last <- column, lastForeign <- foreign, calls <- steps, stored <- created, asked <- wanted, outcome <- left,
         before <- existing
drafted == <<action, draft, column, foreign, raised, steps, created, wanted, left, existing>>
UntouchedKept == part = "schema" => S!UntouchedKept

(* Relations *)
VARIABLES models, related, links, has, result, loaded, writes
R == INSTANCE Relations WITH Owners <- {1, 2}, Ids <- {1, 2, 3}, Types <- <<"article", "product">>,
         Age <- <<2, 2, Null>>, MaxWrites <- 3, MaxLoads <- 2, rows <- related
joined == <<models, related, links, has, result, loaded, writes>>
MorphedAsNamed == part = "relations" => R!MorphedAsNamed

(* Collection: dicts of a key, some of one key, one of a text, one empty. *)
VARIABLES heap, held, nested, asked, uses
Number(n) == [n |-> n, text |-> FALSE]
Text(n)   == [n |-> n, text |-> TRUE]
Dict(k, v) == "k" :> k @@ "v" :> v
Zero == Dict(Number(0), Number(1))
One  == Dict(Number(1), Number(1))
Also == Dict(Number(1), Number(2))
Dicts == {Zero, One, Also, "k" :> Text(1), <<>>}
C == INSTANCE Collection WITH Keys <- {"k"}, Values <- {Number(0), Text(1)}, Lists <- {<<>>, <<One, Zero, Also>>},
         Callbacks <- {[x \in Dicts |-> IF x = One THEN Also ELSE x], [x \in Dicts |-> IF x = One THEN <<>> ELSE One]},
         MaxCalls <- 2, last <- asked, calls <- uses
collected == <<heap, held, nested, asked, uses>>
AsCalled == part = "collection" => C!AsCalled

(* Factory: of users, of posts, and of the users who write posts. *)
VARIABLES factories, produced, stack, call, log, chained
F == INSTANCE Factory WITH Factories <- <<"user", "post", "author">>,
         Table <- "user" :> "user" @@ "author" :> "user" @@ "post" :> "post",
         Definition <- [o \in {"user", "post", "author"} |-> "status" :> "new"], Returns <- LAMBDA s, attrs : "status" :> s,
         States <- "user" :> {"old"} @@ [o \in {"post", "author"} |-> {}],
         Callbacks <- "user" :> {"call"} @@ [o \in {"post", "author"} |-> {}],
         Overrides <- {"status" :> "given"}, Counts <- {2}, MaxCalls <- 4, rows <- produced, calls <- chained
manufactured == <<factories, produced, stack, call, log, chained>>
(* Casts: a field of every annotation that makes a difference.                *)
VARIABLES annotated, raw, assigning, cell, castings
Val(is, v)  == [is |-> is, of |-> "", v |-> v]
Text2(of, v) == [is |-> "str", of |-> of, v |-> v]
Plain(types) == [types |-> types, descriptor |-> "none", default |-> Absent, cast |-> ""]
Defaults(types, x) == [types |-> types, descriptor |-> "field", default |-> x, cast |-> ""]
Annotations ==
    {Plain(types) : types \in UNION {{{t}, {t, "none"}} : t \in {"bool", "int", "float", "dict", "datetime", "time",
                                                             "timedelta", "object", "enum", "str"}}
                              \cup {{"int", "str"}, {"int", "str", "none"}}}
    \cup {Defaults({}, Val("int", 2)), Defaults({"int", "none"}, Val("int", 2)), Defaults({"dict"}, Val("dict", 0)),
          Defaults({"object", "none"}, Val("object", 1)), Defaults({"str"}, Text2("words", 1)),
          [Plain({}) EXCEPT !.descriptor = "model"], [Plain({"object"}) EXCEPT !.descriptor = "model"],
          [Plain({"decimal", "none"}) EXCEPT !.cast = "decimal"]}
Sorts == "bool" :> {"bool", "int"} @@ "int" :> {"int", "float"} @@ "float" :> {"int", "float"} @@ "json" :> {"dict", "int"}
         @@ "date" :> {"datetime", "elsewhere"} @@ "decimal" :> {"int", "float", "decimal"} @@ "time" :> {"time"}
         @@ "timedelta" :> {"timedelta", "int"} @@ "object" :> {"object", "dict"} @@ "enum" :> {"enum", "int"}
         @@ "any" :> {"int"} @@ "str" :> {"int", "float"}
Z == INSTANCE Casts WITH
       Fields <- Annotations, Unset <- Absent, MaxCalls <- 4,
       Given <- [c \in DOMAIN Sorts |->
                   {Val("none", 0), Text2("words", 0), Text2("empty", 0)}
                   \cup {Val(is, v) : is \in Sorts[c], v \in {1, 2}} \cup {Text2(of, v) : of \in Sorts[c] \ {"object", "enum", "bool"}, v \in {1, 2}}],
       field <- annotated, dirty <- assigning, row <- cell, calls <- castings
casted == <<annotated, raw, assigning, cell, castings>>
-------------------------------------------------------------------------------
\* A table that is altered, or created, is as the migration declared it on every
\* platform, and a value that is saved reads as its field was declared
\* (schema/Blueprint.py, schema/platforms, models/caster.py).
AsDeclared == /\ (part = "schema" => S!AlteredAsDeclared) /\ (part = "creation" => K!CreatedAsDeclared)
              /\ (part = "casts" => Z!ReadsAsSaved)
\* Loading a relation for a whole result, and asking where it has some, agree
\* with loading it for each model alone, and a factory makes the parents and the
\* children it was asked for, as many and as given (relationships/, get_related,
\* map_related, query_has; factory/factory.py).
RelatedAlike == /\ (part = "relations" => R!LoadedIsRelated /\ R!HasMeansSome)
                /\ (part = "factory" => F!FamilyIsWhole)
-------------------------------------------------------------------------------
InitEach ==
    /\ part \in Parts
    /\ InitEither /\ (part # "migrator" => alone /\ files = {})
    /\ InitModels /\ (part # "models" => seeks /\ \A k \in DOMAIN row : row[k] = Absent)
    /\ P!Init /\ (part # "paging" => disjuncts = <<{}>>)
    /\ Q!Init
    /\ S!Init /\ (part \notin {"schema", "creation"} => platform = "sqlite")
    /\ (part # "schema" => table = S!Created("uuid", "string"))
    /\ K!Init
    /\ R!Init
    /\ F!Init
    /\ Z!Init /\ (part # "casts" => annotated = Plain({"int"}))
    /\ C!Init /\ (part # "collection" => heap = <<<<>>, <<>>>> /\ held.d = 2)

\* A step of p, the part that was chosen.
Of(p) ==
    /\ part = p /\ UNCHANGED part
    /\ IF p = "migrator" THEN TRUE ELSE UNCHANGED <<migratorVars, alone>>
    /\ IF p = "models" THEN TRUE ELSE UNCHANGED modelled
    /\ IF p = "paging" THEN TRUE ELSE UNCHANGED paged
    /\ IF p = "query" THEN TRUE ELSE UNCHANGED built
    /\ IF p = "schema" THEN TRUE ELSE UNCHANGED drawn
    /\ IF p = "creation" THEN TRUE ELSE UNCHANGED drafted
    /\ IF p = "relations" THEN TRUE ELSE UNCHANGED joined
    /\ IF p = "collection" THEN TRUE ELSE UNCHANGED collected
    /\ IF p = "factory" THEN TRUE ELSE UNCHANGED manufactured
    /\ IF p = "casts" THEN TRUE ELSE UNCHANGED casted
NextEach ==
    \/ Of("migrator") /\ NextEither
    \/ Of("models") /\ NextModels
    \/ Of("paging") /\ P!Next
    \/ Of("query") /\ Q!Next
    \/ Of("schema") /\ S!Next
    \/ Of("creation") /\ K!Next
    \/ Of("collection") /\ C!Next
    \/ Of("factory") /\ F!Next
    \/ Of("casts") /\ Z!Next
    \/ Of("relations") /\ R!Next /\ (has' = Null \/ DOMAIN loaded' \subseteq {has', "morph_many"})
SpecEach == InitEach /\ [][NextEach]_<<part, migratorVars, alone, modelled, paged, built, drawn, drafted, joined, collected,
                                     manufactured, casted>>
===============================================================================
