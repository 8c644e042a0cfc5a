-------------------------------- MODULE Query --------------------------------
(***************************************************************************)
(* The query builder and the four SQL grammars (masoniteorm/models/        *)
(* builder.py, masoniteorm/query/grammars).  A program chains calls on a   *)
(* builder and then compiles it.  Compiling yields the text, with a "?"    *)
(* wherever a value goes, and separately the list of values: the driver    *)
(* matches the two by position only.                                       *)
(*                                                                         *)
(* A token of the text is <<word, call, part>>, where call is the number   *)
(* of the call that asked for it and part tells its values apart: the      *)
(* token <<"?", n, j>> stands where value j of call n must be bound.       *)
(***************************************************************************)
EXTENDS Naturals, Sequences, SequencesExt
CONSTANT MaxCalls     \* bound on the calls chained on a builder
VARIABLES builder, calls,
          given       \* history: the values given to the calls so far, that are to be bound

NewBuilder == [table |-> TRUE, columns |-> <<>>, joins |-> <<>>, wheres |-> <<>>, groups |-> <<>>,
               having |-> <<>>, orders |-> <<>>, aggregates |-> <<>>, distinct |-> FALSE,
               lock |-> FALSE, limit |-> 0, offset |-> 0]
Nothing == [kind |-> "none"]
\* An entry of one of the builder's lists: what call n added, with its values
\* and, for a subquery or a group, the nested builder.
Entry(kind, or, n, values, query) == [kind |-> kind, or |-> or, at |-> n, values |-> values, query |-> query]

-----------------------------------------------------------------------------
\* A grammar is known by the order of its format strings, by how it writes
\* LIMIT and OFFSET, and by a few words of its own.
Usual == <<"columns", "from", "joins", "wheres", "group_by", "having", "order_by", "limit", "offset", "lock">>
SQLite == [format |-> Usual, noTable |-> <<"columns", "lock">>, window |-> "together", exists |-> "EXISTS", locks |-> FALSE]
MySQL == [format |-> Usual, noTable |-> <<"columns", "lock">>, window |-> "separate", exists |-> "EXISTS", locks |-> TRUE]
Postgres == [format |-> Usual, noTable |-> <<"columns", "lock">>, window |-> "separate", exists |-> "EXISTS", locks |-> TRUE]
MSSQL == [format |-> <<"limit", "columns", "from", "lock", "joins", "wheres", "group_by", "having", "order_by", "offset">>,
          noTable |-> <<"columns">>, window |-> "top", exists |-> "CASE WHEN EXISTS", locks |-> TRUE]
Dialects == {SQLite, MySQL, Postgres, MSSQL}
NoLimit == 999          \* SQLite's LIMIT -1

-----------------------------------------------------------------------------
\* Fragments: a piece of text and the values bound while it was compiled.
Fragment(sql, bindings) == [sql |-> sql, bindings |-> bindings]
Empty == Fragment(<<>>, <<>>)
f ++ g == Fragment(f.sql \o g.sql, f.bindings \o g.bindings)
All(fs) == FoldLeft(LAMBDA f, g: f ++ g, Empty, fs)
Text(word) == Fragment(<<<<word, 0, 0>>>>, <<>>)
Name(e) == Fragment(<<<<"name", e.at, 0>>>>, <<>>)
Mark(v) == <<"?", v[1], v[2]>>
Bound(values) == Fragment([i \in DOMAIN values |-> Mark(values[i])], values)
Inlined(values) == Fragment([i \in DOMAIN values |-> <<"literal", values[i][1], values[i][2]>>], <<>>)
Separated(fs, word) == All([i \in DOMAIN fs |-> IF i = 1 THEN fs[i] ELSE Text(word) ++ fs[i]])
Clause(word, fs, between) == IF fs = <<>> THEN Empty ELSE Text(word) ++ Separated(fs, between)
RECURSIVE CompileSelect(_, _), ProcessWheres(_, _, _)

Parens(f) == Text("(") ++ f ++ Text(")")
SubSelect(e, d) == Parens(CompileSelect(e.query, d))

\* A raw piece carries its own marks; the values given with it are bound.
Raw(e) == Name(e) ++ Bound(e.values)

ProcessAggregates(b) == [i \in DOMAIN b.aggregates |-> Text("aggregate") ++ Name(b.aggregates[i])]
ProcessColumns(b, d) ==
    LET One(e) == CASE e.kind = "raw" -> Raw(e)
                    [] e.kind = "sub" -> SubSelect(e, d) ++ Name(e)
                    [] e.kind = "exists" -> Text(d.exists) ++ SubSelect(e, d) ++ Name(e)
                    [] OTHER -> Name(e)
        selected == [i \in DOMAIN b.columns |-> One(b.columns[i])] \o ProcessAggregates(b)
    IN  IF selected = <<>> THEN Text("*") ELSE Separated(selected, ",")

ProcessJoins(b) ==
    LET On(e, i) == Text(IF i = 1 THEN "ON" ELSE IF e.or THEN "OR" ELSE "AND")
                    ++ (IF e.kind = "value" THEN Name(e) ++ Bound(e.values) ELSE Name(e))
    IN  All([j \in DOMAIN b.joins |->
               Text("JOIN") ++ All([i \in DOMAIN b.joins[j] |-> On(b.joins[j][i], i)])])

\* The condition of one where entry, without its connective.
WhereCondition(e, d) ==
    CASE e.kind = "raw"     -> Raw(e)
      [] e.kind = "between" -> Name(e) ++ Text("BETWEEN") ++ Bound(<<e.values[1]>>) ++ Text("AND") ++ Bound(<<e.values[2]>>)
      [] e.kind \in {"columns", "null", "boolean"} -> Name(e)
      [] e.kind = "group"   -> Parens(ProcessWheres(e.query, d, TRUE))
      [] e.kind = "exists"  -> Text("EXISTS") ++ SubSelect(e, d)
      [] e.kind = "sub"     -> Name(e) ++ SubSelect(e, d)
      [] e.kind = "in"      -> Name(e) ++ Text("IN") ++ Parens(Separated([i \in DOMAIN e.values |-> Bound(<<e.values[i]>>)], ","))
      [] OTHER              -> Name(e) ++ Bound(e.values)

\* The where keyword of an entry depends on its place, not only on how it was
\* added: an or_where that comes first is the WHERE.
ProcessWheres(b, d, stripFirst) ==
    LET Keyword(i) == IF i > 1 THEN Text(IF b.wheres[i].or THEN "OR" ELSE "AND")
                      ELSE IF stripFirst THEN Empty ELSE Text("WHERE")
    IN  All([i \in DOMAIN b.wheres |-> Keyword(i) ++ WhereCondition(b.wheres[i], d)])

\* A raw GROUP BY ends the list and discards the columns before it.
ProcessGroupBy(b) ==
    LET raw == SelectSeq(b.groups, LAMBDA e: e.kind = "raw")
    IN  IF raw # <<>> THEN Text("GROUP BY") ++ Raw(Head(raw))
        ELSE Clause("GROUP BY", [i \in DOMAIN b.groups |-> Name(b.groups[i])], ",")

\* The value of a plain having is written into the text.
ProcessHaving(b) ==
    Clause("HAVING", [i \in DOMAIN b.having |-> IF b.having[i].kind = "raw" THEN Raw(b.having[i])
                                                ELSE Name(b.having[i]) ++ Inlined(b.having[i].values)], "AND")

ProcessOrderBy(b, d) ==
    LET One(e) == CASE e.kind = "raw" -> Raw(e)
                    [] e.kind = "sub" -> SubSelect(e, d)
                    [] OTHER -> Name(e)
    IN  Clause("ORDER BY", [i \in DOMAIN b.orders |-> One(b.orders[i])], ",")

Number(word, n) == Fragment(<<<<word, n, 0>>>>, <<>>)
ProcessLimit(b, d) ==
    IF b.limit = 0 \/ (d.window # "separate" /\ b.offset # 0) THEN Empty
    ELSE Number(IF d.window = "top" THEN "TOP" ELSE "LIMIT", b.limit)
\* SQL Server fetches one row when no limit is set.
ProcessOffset(b, d) ==
    CASE b.offset = 0          -> Empty
      [] d.window = "together" -> Number("LIMIT", IF b.limit = 0 THEN NoLimit ELSE b.limit) ++ Number("OFFSET", b.offset)
      [] d.window = "top"      -> Number("OFFSET", b.offset) ++ Number("FETCH NEXT", IF b.limit = 0 THEN 1 ELSE b.limit)
      [] OTHER                 -> Number("OFFSET", b.offset)
ProcessLocks(b, d) == IF b.lock /\ d.locks THEN Text("lock") ELSE Empty

\* str.format evaluates its arguments in the order they are written, which fixes
\* the order of the bindings; the format string fixes where each piece stands.
EvaluatedByName == <<"columns", "group_by", "having", "joins", "order_by", "wheres">>
Evaluated == <<"columns", "joins", "wheres", "group_by", "having", "order_by">>
CompileSelect(b, d) ==
    LET part == [columns |-> ProcessColumns(b, d), from |-> Text("FROM"), joins |-> ProcessJoins(b),
                 wheres |-> ProcessWheres(b, d, FALSE), group_by |-> ProcessGroupBy(b),
                 having |-> ProcessHaving(b), order_by |-> ProcessOrderBy(b, d),
                 limit |-> ProcessLimit(b, d), offset |-> ProcessOffset(b, d), lock |-> ProcessLocks(b, d)]
        format == IF b.table THEN d.format ELSE d.noTable
    IN  Text(IF b.distinct /\ b.table THEN "SELECT DISTINCT" ELSE "SELECT")
        ++ Fragment(All([i \in DOMAIN format |-> part[format[i]]]).sql,
                    All([i \in DOMAIN Evaluated |-> part[Evaluated[i]]]).bindings)

CompileDelete(b, d) == Text("DELETE") ++ ProcessWheres(b, d, FALSE)
KeyValueEquals(values) == Separated([i \in DOMAIN values |-> Bound(<<values[i]>>)], ",")
CompileUpdate(b, d, values) == Text("UPDATE") ++ KeyValueEquals(values) ++ ProcessWheres(b, d, FALSE)

\* A row to insert is a dict: pairs of a column and a value, in the order they
\* were written.  Rows of a list are sorted by column first; a row is written
\* under the columns of the first.
Values(row) == [i \in DOMAIN row |-> row[i][2]]
Insert(rows) ==
    LET sorted == [i \in DOMAIN rows |-> SortSeq(rows[i], LAMBDA p, q: p[1] < q[1])]
    IN  IF Len(rows) = 1 THEN rows ELSE sorted
CompileBulkCreate(rows) ==
    [columns |-> [i \in DOMAIN rows[1] |-> rows[1][i][1]],
     values |-> Separated([r \in DOMAIN rows |-> Parens(Separated([i \in DOMAIN rows[r] |-> Bound(<<rows[r][i][2]>>)], ","))], ",")]

-----------------------------------------------------------------------------
\* The calls of a program.  Call n gives the values <<n, 1>>, <<n, 2>>, ...
n == calls + 1
V(k) == [j \in 1..k |-> <<n, j>>]
Plain(kind, values) == Entry(kind, FALSE, n, values, Nothing)
Then(b, values) == /\ calls < MaxCalls
                   /\ builder' = b
                   /\ calls' = n
                   /\ given' = given \o values
Add(list, e, values) == Then([builder EXCEPT ![list] = Append(@, e)], values)

\* Nested builders: a subquery with a raw column, conditions and a raw order;
\* an aggregate with a join and an inner group; a table-less one.
InnerValues == V(4)
InnerGroup == [NewBuilder EXCEPT !.wheres = <<Plain("value", <<<<n, 1>>>>), Entry("between", TRUE, n, <<<<n, 2>>, <<n, 3>>>>, Nothing),
                                               Entry("in", FALSE, n, <<<<n, 4>>>>, Nothing)>>]
Subqueries == {[NewBuilder EXCEPT !.columns = <<Plain("raw", <<<<n, 1>>>>)>>, !.orders = <<Plain("raw", <<<<n, 4>>>>)>>,
                                  !.wheres = <<Plain("in", <<<<n, 2>>>>), Plain("null", <<>>)>>, !.having = <<Plain("raw", <<<<n, 3>>>>)>>],
               [NewBuilder EXCEPT !.aggregates = <<Plain("count", <<>>)>>, !.joins = <<<<Plain("column", <<>>), Entry("value", TRUE, n, <<<<n, 1>>>>, Nothing)>>>>,
                                  !.wheres = <<Entry("group", FALSE, n, <<>>, [NewBuilder EXCEPT !.wheres = <<Plain("raw", <<<<n, 2>>, <<n, 3>>>>), Plain("value", <<<<n, 4>>>>)>>])>>],
               [NewBuilder EXCEPT !.table = FALSE, !.columns = <<Plain("raw", V(4))>>]}

Where == \E or \in BOOLEAN: Add("wheres", Entry("value", or, n, V(1), Nothing), V(1))
\* A Boolean is compared in the text, whatever the operator.
WhereBoolean == \E or \in BOOLEAN: Add("wheres", Entry("boolean", or, n, <<>>, Nothing), <<>>)
WhereGroup == Add("wheres", Entry("group", FALSE, n, <<>>, InnerGroup), InnerValues)
WhereSub == \E q \in Subqueries, kind \in {"sub", "exists"}, or \in BOOLEAN:
              (kind = "sub" => ~or) /\ Add("wheres", Entry(kind, or, n, <<>>, q), InnerValues)
WhereIn == \E k \in 0..2: Add("wheres", Plain("in", V(k)), V(k))
Between == Add("wheres", Plain("between", V(2)), V(2))
WhereNull == \E or \in BOOLEAN, kind \in {"null", "columns"}: Add("wheres", Entry(kind, or, n, <<>>, Nothing), <<>>)
WhereRaw == \E or \in BOOLEAN, k \in {0, 2}: Add("wheres", Entry("raw", or, n, V(k), Nothing), V(k))
Join == Add("joins", <<Plain("column", <<>>)>>, <<>>)
JoinOnValue == \E or \in BOOLEAN: Add("joins", <<Plain("column", <<>>), Entry("value", or, n, V(1), Nothing)>>, V(1))

Select == Add("columns", Plain("column", <<>>), <<>>)
SelectRaw == Add("columns", Plain("raw", V(1)), V(1))
SelectSub == \E q \in Subqueries: Add("columns", Entry("sub", FALSE, n, <<>>, q), InnerValues)
\* The base columns are kept when an added column is the first.
OwnColumns == IF builder.columns = <<>> THEN <<Entry("all", FALSE, 0, <<>>, Nothing)>> ELSE builder.columns
AddSelectExists == \E q \in Subqueries: Then([builder EXCEPT !.columns = Append(OwnColumns, Entry("exists", FALSE, n, <<>>, q))], InnerValues)
AddSelectRaw == Then([builder EXCEPT !.columns = Append(OwnColumns, Plain("raw", V(1)))], V(1))
Aggregate == Add("aggregates", Plain("count", <<>>), <<>>)

GroupBy == \E kind \in {"column", "raw"}: Add("groups", Plain(kind, <<>>), <<>>)
Having == Add("having", Plain("value", V(1)), <<>>)
HavingRaw == Add("having", Plain("raw", V(1)), V(1))
OrderBy == Add("orders", Plain("column", <<>>), <<>>)
OrderByRaw == Add("orders", Plain("raw", V(1)), V(1))
OrderBySub == \E q \in Subqueries: Add("orders", Entry("sub", FALSE, n, <<>>, q), InnerValues)
Window == \E skip \in 0..1: Then([builder EXCEPT !.limit = 2, !.offset = skip, !.distinct = TRUE, !.lock = TRUE], <<>>)

Init == builder = NewBuilder /\ calls = 0 /\ given = <<>>
Next == \/ Where \/ WhereBoolean \/ WhereGroup \/ WhereSub \/ WhereIn \/ Between \/ WhereNull \/ WhereRaw
        \/ Join \/ JoinOnValue \/ Select \/ SelectRaw \/ SelectSub \/ AddSelectExists \/ AddSelectRaw \/ Aggregate
        \/ GroupBy \/ Having \/ HavingRaw \/ OrderBy \/ OrderByRaw \/ OrderBySub \/ Window
vars == <<builder, calls, given>>
Spec == Init /\ [][Next]_vars

-----------------------------------------------------------------------------
Marks(f) == SelectSeq(f.sql, LAMBDA t: t[1] = "?")
Aligned(f) == Marks(f) = [i \in DOMAIN f.bindings |-> Mark(f.bindings[i])]
\* Rows with the same columns, in any order of writing.
SomeRows == LET Row(r) == {<<<<1, <<r, 1>>>>, <<2, <<r, 2>>>>>>, <<<<2, <<r, 2>>>>, <<1, <<r, 1>>>>>>}
            IN  {<<a>> : a \in Row(1)} \cup {<<a, b>> : a \in Row(1), b \in Row(2)}
InsertedAligned ==
    \A rows \in SomeRows:
      LET c == CompileBulkCreate(Insert(rows))
      IN  /\ Aligned(c.values)
          /\ \A i \in DOMAIN c.values.bindings:
                c.values.bindings[i][2] = c.columns[((i - 1) % Len(c.columns)) + 1]
\* In every dialect, whatever was chained and in whatever order, the values of a
\* SELECT, an UPDATE and a DELETE stand in the order of their marks, and the
\* SELECT binds each value given to a call exactly once; an inserted value is
\* written under its own column, whatever the order of the keys of the rows
\* (BaseGrammar.py 133-186, 228-281, 301-397, 426-498, 575-780, 857-903).
BindingsAligned ==
    /\ \A d \in Dialects:
          LET select == CompileSelect(builder, d) IN
          /\ Aligned(select) /\ Aligned(CompileDelete(builder, d)) /\ Aligned(CompileUpdate(builder, d, <<<<0, 1>>, <<0, 2>>>>))
          /\ Len(select.bindings) = Len(given) /\ ToSet(select.bindings) = ToSet(given)
    /\ InsertedAligned
=============================================================================
