------------------------------- MODULE JsonApi -------------------------------
(***************************************************************************)
(* JSON:API documents (jsonapi/response.py): a resource, or a collection   *)
(* of them, is told what to include and which fields to show, by its chain *)
(* of calls or by the query string of the request, and is serialized.      *)
(***************************************************************************)
EXTENDS Naturals, SequencesExt
CONSTANTS Type,          \* the type of each resource
          Attributes, Hidden,
          Answers,       \* the resources of a response, in order
          Graphs,        \* what to_relationships() may answer: for each resource a sequence
                         \* of relationships <<name, resources>>, without those of None
          Includes,      \* what is asked to be included: sets of paths, which are sequences of names
          FieldSpecs,    \* what fields are asked for: sets of <<type, field>>
          MaxCalls
VARIABLES related, items,              \* the resources and those of the response
          include, fields, chained,    \* the state of the chain
          document, calls
vars == <<related, items, include, fields, chained, document, calls>>

Nothing == [data |-> <<>>, included |-> <<>>]
Init == /\ related \in Graphs
        /\ items \in Answers
        /\ include = {} /\ fields = {} /\ chained = FALSE
        /\ document = Nothing /\ calls = 0
-----------------------------------------------------------------------------
\* A resource object: its identity, its attributes, its linkage.
Shown(r, specs) == {a \in Attributes \ Hidden : Type[r] \in {s[1] : s \in specs} => <<Type[r], a>> \in specs}
Data(r, specs) == [id |-> r, attributes |-> Shown(r, specs), links |-> UNION {ToSet(l[2]) : l \in ToSet(related[r])}]

Nested(paths, name) == {Tail(p) : p \in {q \in paths : Len(q) > 1 /\ Head(q) = name}}
\* The resources found on the way, each once; `found` is both `seen` and `included`.
RECURSIVE CollectTwice(_, _, _)
CollectTwice(r, paths, found) ==
    FoldLeft(LAMBDA f, link : IF <<link[1]>> \notin paths THEN f
                              ELSE FoldLeft(LAMBDA g, item : CollectTwice(item, Nested(paths, link[1]), Append(g, item)),
                                            f, link[2]),
             found, related[r])
RECURSIVE Collect(_, _, _)
Collect(r, paths, found) ==
    FoldLeft(LAMBDA f, link : IF <<link[1]>> \notin paths THEN f
                              ELSE FoldLeft(LAMBDA g, item : IF item \in ToSet(g) THEN g
                                                ELSE Collect(item, Nested(paths, link[1]), Append(g, item)),
                                            f, link[2]),
             found, related[r])

Document(paths, specs) ==
    LET objects(rs) == [i \in DOMAIN rs |-> Data(rs[i], specs)]
    IN  [data |-> objects(items), included |-> objects(FoldLeft(LAMBDA f, r : Collect(r, paths, f), <<>>, items))]
Rendered(paths, specs) == document = Nothing /\ document' = Document(paths, specs) /\ UNCHANGED <<related, items, chained, calls>>
Serialize == Rendered(include, fields) /\ UNCHANGED <<include, fields>>
\* Sent without a chain of calls, the query string is the chain of this response.
Respond(paths, specs) == ~chained /\ include' = paths /\ fields' = specs /\ Rendered(paths, specs)

Calls == calls < MaxCalls /\ document = Nothing /\ calls' = calls + 1 /\ chained' = TRUE
         /\ UNCHANGED <<related, items, document>>
Include(paths) == Calls /\ include' = paths /\ UNCHANGED fields
Fields(specs) == Calls /\ fields' = fields \cup specs /\ UNCHANGED include

Next == \/ Serialize
        \/ \E paths \in Includes : Include(paths)
        \/ \E specs \in FieldSpecs : Fields(specs)
        \/ \E paths \in Includes, specs \in FieldSpecs : Respond(paths, specs)
Spec == Init /\ [][Next]_vars
-----------------------------------------------------------------------------
Ids(objects) == {objects[i].id : i \in DOMAIN objects}
(* A compound document is whole: nothing is included twice, everything         *)
(* included is linked from another object of the document, what a relationship *)
(* asked for by its name leads to is there                                    *)
(* (jsonapi/response.py _collect_included).                                    *)
Compound ==
    LET all == document.data \o document.included
    IN  /\ Cardinality(Ids(document.included)) = Len(document.included)
        /\ \A r \in Ids(document.included) : \E i \in DOMAIN all : r \in all[i].links
        /\ document # Nothing => \A r \in ToSet(items) : \A l \in ToSet(related[r]) :
                <<l[1]>> \in include => ToSet(l[2]) \subseteq Ids(document.included)
=============================================================================
