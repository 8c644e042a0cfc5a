------------------------------ MODULE Collection ------------------------------
(* support/collection.py: a Collection wraps a list, and two collections made  *)
(* of one list share it.  Some methods change the list itself, some put        *)
(* another list in its place, and the others return a new collection.          *)
EXTENDS Integers, Sequences, SequencesExt, FiniteSets, TLC

CONSTANTS Dicts,        \* the items: functions of keys to values
          Lists,        \* the lists that collections are made of
          Keys, Values,
          Callbacks,    \* functions of the items to items, of which {} is false
          MaxCalls      \* bound: calls made

VARIABLES heap,         \* the lists
          held,         \* the list that each collection wraps
          nested,       \* collections that wrap a collection of it, not the list
          last,         \* the last call: [call, on, arg, answer, before]
          calls

vars == <<heap, held, nested, last, calls>>

Names == {"c", "d"}
Items(c) == heap[held[c]]
\* None is compared as the text "None", which comes after every digit.
None   == [n |-> 10, text |-> TRUE]
Get(item, key) == IF key \in DOMAIN item THEN item[key] ELSE None
True(item) == item # <<>>
Mapped(s, f) == [i \in 1 .. Len(s) |-> f[s[i]]]

\* A slice of a list: negative bounds count from its end.
Clip(i, n) == IF i < 0 THEN Max({0, n + i}) ELSE Min({i, n})
Slice(s, from, to) == SubSeq(s, Clip(from, Len(s)) + 1, Clip(to, Len(s)))

Take(s, n)  == IF n < 0 THEN Slice(s, n, Len(s)) ELSE Slice(s, 0, n)
Page(s, page, number) == Slice(s, page, number)
Chunk(s, size) == [i \in 1 .. (Len(s) + size - 1) \div size |-> Slice(s, (i - 1) * size, i * size)]
Collapse(s) == FlattenSeq(s)
First(s)    == IF s = <<>> THEN <<>> ELSE Head(s)
Every(s, f) == \A x \in ToSet(s) : True(f[x])
\* The shorter of both decides.
Zipped(s, t) == [i \in 1 .. Min({Len(s), Len(t)}) |-> <<s[i], t[i]>>]
\* A value that is false is not looked at: contains() then looks for the key.
Holds(s, key, v) == v.n # 0 /\ \E x \in ToSet(s) : key \in DOMAIN x /\ x[key] = v
Filter(s, f) == SelectSeq(s, LAMBDA x : True(f[x]))
Diff(s, t)  == SelectSeq(s, LAMBDA x : ~Contains(t, x))
Pluck(s, key) == LET with == SelectSeq(s, LAMBDA x : key \in DOMAIN x) IN [i \in 1 .. Len(with) |-> with[i][key]]

\* Numbers, and texts of numbers, are compared as numbers.
Compare(a, op, b) ==
    CASE op = "==" -> a.n = b.n [] op = "!=" -> a.n # b.n [] op = "<" -> a.n < b.n [] op = ">=" -> a.n >= b.n
Where(s, key, op, v) == SelectSeq(s, LAMBDA x : Compare(Get(x, key), op, v))
\* Texts of numbers only are looked for as numbers.
Sought(vs) == IF \A v \in vs : v.text /\ v # None THEN {[v EXCEPT !.text = FALSE] : v \in vs} ELSE vs
WhereIn(s, key, vs)    == SelectSeq(s, LAMBDA x : key \in DOMAIN x /\ x[key] \in Sought(vs))
WhereNotIn(s, key, vs) == SelectSeq(s, LAMBDA x : key \in DOMAIN x /\ x[key] \notin Sought(vs))
Unique(s, key) ==
    FoldLeft(LAMBDA acc, x : IF \E i \in 1 .. Len(acc) : Get(acc[i], key) = Get(x, key) THEN acc ELSE Append(acc, x),
             <<>>, s)

\* Python cannot compare a number and a text.
Sortable(s, key) == Len(s) < 2 \/ \A x, y \in ToSet(s) : {key} \subseteq DOMAIN x /\ Get(x, key).text = Get(y, key).text
\* list.sort(): stable.
Sorted(s, key) ==
    LET Before(i, j) == Get(s[i], key).n < Get(s[j], key).n \/ (Get(s[i], key).n = Get(s[j], key).n /\ i <= j)
        Nth(n)       == CHOOSE i \in 1 .. Len(s) : Cardinality({j \in 1 .. Len(s) : Before(j, i)}) = n
    IN  [n \in 1 .. Len(s) |-> s[Nth(n)]]
\* itertools.groupby(): runs of one key; a dict keeps the last of a key.
Runs(s, key) ==
    LET ends == {0, Len(s)} \cup {i \in 1 .. Len(s) - 1 : Get(s[i], key) # Get(s[i + 1], key)}
    IN  [v \in {Get(x, key) : x \in ToSet(s)} |->
            LET stop == Max({i \in ends \ {0} : Get(s[i], key) = v})
            IN  SubSeq(s, Max({i \in ends : i < stop}) + 1, stop)]
GroupBy(s, key) == Runs(Sorted(s, key), key)

\* sum(), max() and min() of the values of a key, or of the items if none has it.
\* What cannot be added or compared is 0; one item alone needs no comparison.
Nought == [n |-> 0, text |-> FALSE]
Numbers(s, key) == Pluck(s, key) # <<>> /\ \A v \in ToSet(Pluck(s, key)) : ~v.text
Total(s, key)   == IF Numbers(s, key) THEN FoldLeft(LAMBDA n, v : n + v.n, 0, Pluck(s, key)) ELSE 0
\* avg(): the sum and what it is divided by; of no items, an error.
Average(s, key) == <<Total(s, key), IF Numbers(s, key) THEN Len(Pluck(s, key)) ELSE 1>>
Extreme(s, key, greatest) ==
    LET vs == ToSet(Pluck(s, key))
        ns == {v.n : v \in vs}
    IN  CASE vs # {} /\ (\A v, w \in vs : v.text = w.text) ->
                 [n |-> IF greatest THEN Max(ns) ELSE Min(ns), text |-> \E v \in vs : v.text]
          [] vs = {} /\ Len(s) = 1 -> s[1]
          [] OTHER -> Nought
Greatest(s, key) == Extreme(s, key, TRUE)
Least(s, key)    == Extreme(s, key, FALSE)

Without(s, i) == SubSeq(s, 1, i) \o SubSeq(s, i + 2, Len(s))
ForgetIn(s, keys, order) == FoldLeft(LAMBDA t, i : IF i \in keys THEN Without(t, i) ELSE t, s, order)
\* Careless: the first position first.
ForgetUpwards(s, keys) == ForgetIn(s, keys, [j \in 1 .. Len(s) |-> j - 1])
\* forget(): the last position first.
Forget(s, keys) == ForgetIn(s, keys, [j \in 1 .. Len(s) |-> Len(s) - j])
\* each(): replaces the items until the callback answers false.
Each(s, f) ==
    LET stop == {i \in 1 .. Len(s) : ~True(f[s[i]])}
    IN  [i \in 1 .. Len(s) |-> IF \E j \in stop : j <= i THEN s[i] ELSE f[s[i]]]
\* transform() and reject() keep the answers that are not false.
Transform(s, f) == SelectSeq(Mapped(s, f), True)
-------------------------------------------------------------------------------
Init ==
    \E a, b \in Lists, same \in BOOLEAN :
        \* An empty list is not kept: `items or []`.
        /\ heap = <<a, b>>
        /\ held = [c |-> 1, d |-> IF same /\ a # <<>> THEN 1 ELSE 2]
        /\ nested = {} /\ calls = 0
        /\ last = [call |-> "new", on |-> "c", arg |-> 0, answer |-> 0, before |-> <<>>]

Did(call, c, arg, answer) ==
    /\ calls < MaxCalls /\ calls' = calls + 1
    /\ last' = [call |-> call, on |-> c, arg |-> arg, answer |-> answer, before |-> [n \in Names |-> Items(n)]]
Gives(call, c, arg, answer) == Did(call, c, arg, answer) /\ UNCHANGED <<heap, held, nested>>
Changes(call, c, arg, s, answer) ==
    Did(call, c, arg, answer) /\ heap' = [heap EXCEPT ![held[c]] = s] /\ UNCHANGED <<held, nested>>
\* Another list takes the place of the collection's own.
Rebinds(call, c, arg, s, wraps) ==
    /\ Did(call, c, arg, 0)
    /\ heap' = Append(heap, s) /\ held' = [held EXCEPT ![c] = Len(heap) + 1]
    /\ nested' = IF wraps THEN nested \cup {c} ELSE nested \ {c}

Slices(c) ==
    \/ \E n \in -2 .. 2 : Gives("take", c, n, Take(Items(c), n))
    \/ \E p, n \in 0 .. 2 : Gives("for_page", c, <<p, n>>, Page(Items(c), p, n))
    \/ \E n \in 1 .. 2 : \/ Gives("chunk", c, n, Chunk(Items(c), n))
                         \/ Gives("collapse", c, n, Collapse(Chunk(Items(c), n)))
Selects(c) ==
    \/ \E f \in Callbacks : \/ Gives("filter", c, f, Filter(Items(c), f)) \/ Gives("map", c, f, Mapped(Items(c), f))
                            \/ Gives("first", c, f, First(Filter(Items(c), f))) \/ Gives("every", c, f, Every(Items(c), f))
                            \/ Filter(Items(c), f) # <<>> /\ Gives("last", c, f, Last(Filter(Items(c), f)))
    \* zip() refuses a collection that wraps another.
    \/ \E d \in Names : \/ Gives("diff", c, d, Diff(Items(c), Items(d)))
                        \/ d \notin nested /\ Gives("zip", c, d, Zipped(Items(c), Items(d)))
    \/ \E key \in Keys, v \in Values :
           \/ \E op \in {"==", "!=", "<", ">="} : Gives("where", c, <<key, op, v>>, Where(Items(c), key, op, v))
           \/ Gives("contains", c, <<key, v>>, Holds(Items(c), key, v))
    \* Of no values, both call themselves without end.
    \/ \E key \in Keys, vs \in SUBSET Values \ {{}} :
           \/ Gives("where_in", c, <<key, vs>>, WhereIn(Items(c), key, vs))
           \/ Gives("where_not_in", c, <<key, vs>>, WhereNotIn(Items(c), key, vs))
    \/ \E key \in Keys : Gives("unique", c, key, Unique(Items(c), key)) \/ Gives("pluck", c, key, Pluck(Items(c), key))
Counts(c) ==
    \E key \in Keys : \/ Gives("sum", c, key, Total(Items(c), key))
                      \/ Items(c) # <<>> /\ Gives("avg", c, key, Average(Items(c), key))
                      \/ Gives("max", c, key, Greatest(Items(c), key))
                      \/ Gives("min", c, key, Least(Items(c), key))
Orders(c) ==
    \/ \E key \in Keys :
           /\ Sortable(Items(c), key)
           /\ \/ Changes("sort", c, key, Sorted(Items(c), key), 0)
              \/ Changes("group_by", c, key, Sorted(Items(c), key), GroupBy(Items(c), key))
    \* reverse() wraps the collection that a slice is.
    \/ Rebinds("reverse", c, 0, Reverse(Items(c)), TRUE)
    \/ /\ c \notin nested
       /\ \E n \in 1 .. Min({2, Len(Items(c))}) : \E f \in Injection(1 .. n, 1 .. Len(Items(c))) :
              Rebinds("random", c, n, [i \in 1 .. n |-> Items(c)[f[i]]], FALSE)
\* A wrapped collection has no append(), insert() and `+=`.
Grows(c) == c \notin nested /\
    \/ \E d \in Names : Len(Items(d)) < 4 /\ Changes("merge", c, d, Items(c) \o Items(d), 0)
    \/ \E x \in Dicts : Changes("push", c, x, Append(Items(c), x), 0) \/ Changes("prepend", c, x, Cons(x, Items(c)), 0)
Shrinks(c) == Items(c) # <<>> /\
    \/ Changes("pop", c, 0, Front(Items(c)), Last(Items(c)))
    \/ \E keys \in SUBSET (0 .. Len(Items(c)) - 1) : Changes("forget", c, keys, Forget(Items(c), keys), 0)
    \/ \E i \in 0 .. Len(Items(c)) - 1 : Changes("pull", c, i, Forget(Items(c), {i}), Items(c)[i + 1])
Replaces(c) ==
    \/ \E f \in Callbacks :
        \/ Changes("each", c, f, Each(Items(c), f), 0)
        \/ Rebinds("transform", c, f, Transform(Items(c), f), FALSE)
        \* reject() leaves the list in its place, rather than an empty one.
        \/ LET kept == Transform(Items(c), f) IN
             IF kept = <<>> THEN Gives("reject", c, f, 0) ELSE Rebinds("reject", c, f, kept, FALSE)
    \/ \E i \in 1 .. Len(Items(c)), x \in Dicts : Changes("put", c, i, [Items(c) EXCEPT ![i] = x], 0)

Next == \E c \in Names : Slices(c) \/ Selects(c) \/ Counts(c) \/ Orders(c) \/ Grows(c) \/ Shrinks(c) \/ Replaces(c)
Spec == Init /\ [][Next]_vars
-------------------------------------------------------------------------------
Positions(s, x) == {i \in 1 .. Len(s) : s[i] = x}
SameItems(s, t) == \A x \in ToSet(s) \cup ToSet(t) : Cardinality(Positions(s, x)) = Cardinality(Positions(t, x))
\* Grouping puts every item in the group of its key, in order, although it is
\* made of runs; chunks are the collection; a unique item is the first of its
\* key; sorting is stable and loses nothing; forgetting several positions leaves
\* every other item; and no call changes a collection that wraps another list
\* (collection.py group_by, chunk, unique, sort, forget, __init__).
AsCalled ==
    last.call # "new" =>
    LET s == last.before[last.on]  r == last.answer  now == Items(last.on) IN
    /\ last.call = "group_by" =>
           \A x \in ToSet(s) : LET v == Get(x, last.arg) IN r[v] = SelectSeq(s, LAMBDA y : Get(y, last.arg) = v)
    /\ last.call = "chunk" => FlattenSeq(r) = s /\ \A i \in 1 .. Len(r) : Len(r[i]) = last.arg \/ i = Len(r)
    /\ last.call = "unique" => \A i \in 1 .. Len(s) :
           (\A j \in 1 .. i - 1 : Get(s[j], last.arg) # Get(s[i], last.arg))
           <=> \E j \in 1 .. Len(r) : r[j] = s[i] /\ \A k \in 1 .. i - 1 : s[k] # s[i]
    /\ last.call \in {"sort", "reverse"} => SameItems(s, now)
    /\ last.call = "sort" => \A i \in 1 .. Len(now) - 1 : Get(now[i], last.arg).n <= Get(now[i + 1], last.arg).n
    /\ last.call = "forget" =>
           now = [i \in 1 .. Len(s) - Cardinality(last.arg) |->
                     s[CHOOSE j \in 1 .. Len(s) : j - 1 \notin last.arg /\ Cardinality({k \in 0 .. j - 1 : k \notin last.arg}) = i]]
    /\ \A c \in Names \ {last.on} : Items(c) # last.before[c] => held[c] = held[last.on]
===============================================================================
