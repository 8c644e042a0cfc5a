-------------------------------- MODULE Paging --------------------------------
(***************************************************************************)
(* Walking over the rows of a query page by page: chunk(), chunk_by_id(),  *)
(* paginate() and simple_paginate() (masoniteorm/models/builder.py,        *)
(* masoniteorm/pagination).  Each page is a query of its own: between two  *)
(* of them the consumer of the page, or another client, deletes and        *)
(* inserts rows that the query matches.  A query is a sequence of          *)
(* disjuncts: its wheres up to the first or_where() outside a group, those *)
(* from there to the next, and so on.                                      *)
(***************************************************************************)
EXTENDS Naturals, Sequences, SequencesExt
CONSTANTS Ids,          \* the keys a row can have
          Counts,       \* page sizes
          Queries,      \* the rows that the disjuncts of a query match at the start
          MaxChanges,   \* bound on the rows deleted and inserted during a walk
          MaxPages      \* bound on the pages: a walk over several disjuncts may not end
VARIABLES disjuncts,    \* the rows that each disjunct of the query matches
          walk,         \* the walk: its parameters and the local variables of the code
          pages,        \* the pages handed to the consumer
          \* history: the rows at the start, those never deleted since, the number of changes
          atFirst, always, changes
vars == <<disjuncts, walk, pages, atFirst, always, changes>>

Matching == UNION ToSet(disjuncts)
None == 0       \* no limit, no offset, no last id
Ordered(S, desc) ==
    [n \in 1..Cardinality(S) |-> CHOOSE i \in S: Cardinality({j \in S: IF desc THEN j > i ELSE j < i}) = n - 1]
\* LIMIT limit OFFSET skip
Window(s, limit, skip) == SubSeq(s, skip + 1, IF limit = None THEN Len(s) ELSE Min({skip + limit, Len(s)}))
\* limit and offset are the query's own.
Idle == [kind |-> "none", count |-> 1, desc |-> FALSE, offset |-> None, limit |-> None, remaining |-> None,
         last |-> None, page |-> 0, total |-> None, next |-> "done"]

Init == /\ disjuncts \in Queries /\ walk = Idle /\ pages = <<>>
        /\ atFirst = Matching /\ always = Matching /\ changes = 0

Begin(w) ==
    /\ walk.kind = "none"
    /\ \E limit \in {None, 1, 2, 3}, skip \in {None, 1}:
         walk' = [w EXCEPT !.limit = limit, !.offset = skip, !.remaining = limit]
    /\ atFirst' = Matching /\ always' = Matching
    /\ UNCHANGED <<disjuncts, pages, changes>>
Started(kind, count, next) == [Idle EXCEPT !.kind = kind, !.count = count, !.next = next]
BeginChunk == \E c \in Counts: Begin(Started("chunk", c, "fetch"))
BeginById == \E c \in Counts, d \in BOOLEAN: Begin([Started("by_id", c, "fetch") EXCEPT !.desc = d, !.page = 1])
BeginPaginate == \E c \in Counts: Begin([Started("paginate", c, "total") EXCEPT !.page = 1])
BeginSimple == \E c \in Counts: Begin([Started("simple", c, "fetch") EXCEPT !.page = 1])

Fetches(kind) == walk.kind = kind /\ walk.next = "fetch" /\ UNCHANGED <<disjuncts, atFirst, always, changes>>
Stop == UNCHANGED pages /\ walk' = [walk EXCEPT !.next = "done"]
Yield(results, w) == pages' = Append(pages, results) /\ walk' = w

\* The limit and the offset of a page take the place of the query's own.
Chunk ==
    /\ Fetches("chunk")
    /\ LET results == Window(Ordered(Matching, FALSE), walk.count, walk.page * walk.count) IN
         IF results = <<>> THEN Stop
         ELSE Yield(results, [walk EXCEPT !.page = @ + 1, !.next = IF Len(results) < walk.count THEN "done" ELSE "fetch"])

BeyondOrAt(last) == IF last = None THEN Matching
                    ELSE UNION ToSet(Front(disjuncts)) \cup {i \in Last(disjuncts): IF walk.desc THEN i <= last ELSE i >= last}
\* The keyset condition, which replaces the offset after the first page.  It is
\* appended with AND, without parentheses around what was there: it limits the
\* last disjunct only.
Beyond(last) == IF last = None THEN Matching
                ELSE UNION ToSet(Front(disjuncts)) \cup {i \in Last(disjuncts): IF walk.desc THEN i < last ELSE i > last}
ChunkById ==
    /\ Fetches("by_id") /\ Len(pages) < MaxPages
    /\ LET limit == IF walk.limit = None THEN walk.count ELSE Min({walk.count, walk.remaining})
           results == Window(Ordered(Beyond(walk.last), walk.desc), limit, IF walk.page = 1 THEN walk.offset ELSE None)
       IN  IF limit = 0 \/ results = <<>> THEN Stop
           ELSE Yield(results, [walk EXCEPT !.page = @ + 1, !.last = Last(results),
                                            !.remaining = IF walk.limit = None THEN None ELSE @ - Len(results),
                                            !.next = IF Len(results) # walk.count THEN "done" ELSE "fetch"])

\* paginate(): the total and the page are two queries.  The consumer goes on to
\* the next page the paginator names.
Total ==
    /\ walk.kind = "paginate" /\ walk.next = "total"
    /\ walk' = [walk EXCEPT !.total = Cardinality(Matching), !.next = "fetch"]
    /\ UNCHANGED <<disjuncts, pages, atFirst, always, changes>>
LastPage(total, count) == (total + count - 1) \div count
Paginate ==
    /\ Fetches("paginate")
    /\ Yield(Window(Ordered(Matching, FALSE), walk.count, (walk.page - 1) * walk.count),
             [walk EXCEPT !.page = @ + 1, !.next = IF walk.page < LastPage(walk.total, walk.count) THEN "total" ELSE "done"])
\* simple_paginate(): one more row than asked for tells whether there is a next page.
SimplePaginate ==
    /\ Fetches("simple")
    /\ LET results == Window(Ordered(Matching, FALSE), walk.count + 1, (walk.page - 1) * walk.count)
       IN  Yield(Window(results, walk.count, 0),
                 [walk EXCEPT !.page = @ + 1, !.next = IF Len(results) > walk.count THEN "fetch" ELSE "done"])

Change ==
    /\ walk.next # "done" /\ changes < MaxChanges /\ changes' = changes + 1
    /\ \E i \in Ids:
         \/ /\ i \in Matching /\ disjuncts' = [k \in DOMAIN disjuncts |-> disjuncts[k] \ {i}]
            /\ always' = always \ {i}
         \/ /\ i \notin Matching /\ UNCHANGED always
            /\ \E by \in SUBSET DOMAIN disjuncts \ {{}}:
                 disjuncts' = [k \in DOMAIN disjuncts |-> IF k \in by THEN disjuncts[k] \cup {i} ELSE disjuncts[k]]
    /\ UNCHANGED <<walk, pages, atFirst>>

Begins == BeginChunk \/ BeginById \/ BeginPaginate \/ BeginSimple
Pages == Chunk \/ ChunkById \/ Total \/ Paginate \/ SimplePaginate
Next == Begins \/ Pages \/ Change
Spec == Init /\ [][Next]_vars

-------------------------------------------------------------------------------
Walked == FlattenSeq(pages)
Done == walk.kind # "none" /\ walk.next = "done"
Limits == IF walk.kind = "by_id" THEN walk.limit ELSE None
Skips == IF walk.kind = "by_id" THEN walk.offset ELSE None
OneDisjunct == Len(disjuncts) = 1
\* When nobody writes meanwhile, the pages put together are the rows the query
\* selects in their order: none is skipped or comes twice at a border between
\* pages, at a limit that is not a multiple of the page size, or at the last
\* page.  chunk_by_id() keeps the offset and the limit of the query, if it has
\* no or_where() outside a group; the other walks drop both (builder.py
\* 495-603, LengthAwarePaginator.py, SimplePaginator.py).
PagesAreTheQuery ==
    Done /\ changes = 0 /\ (walk.kind = "by_id" => OneDisjunct) =>
      Walked = Window(Ordered(atFirst, walk.desc), Limits, Skips)

\* chunk_by_id() may be used to delete, or to insert, while walking: the limit is
\* kept, and a walk with neither limit nor offset that ends has met every row
\* that was there all the time.  No row comes twice, if the query has no
\* or_where() outside a group (builder.py 553-603).
KeysetMeetsAll ==
    walk.kind = "by_id" =>
      /\ OneDisjunct => IsInjective(Walked)
      /\ walk.limit # None => Len(Walked) <= walk.limit
      /\ Done /\ walk.limit = None /\ walk.offset = None => always \subseteq ToSet(Walked)

\* A walk is the query it pages (builder.py 495-607).
WalkIsTheQuery == PagesAreTheQuery /\ KeysetMeetsAll
===============================================================================
