------------------------------- MODULE Factory -------------------------------
(* masoniteorm/factory/factory.py: factories that make models for tests and  *)
(* seeders.  What is chained on a factory stays with it; create() makes the  *)
(* parents of for_() first, then row after row with the children of has(),   *)
(* by create() of their factories.  A dict is a function; a row's primary    *)
(* key is its place among all rows.                                          *)
EXTENDS Naturals, Sequences, FiniteSets, SequencesExt, TLC

CONSTANTS Factories,    \* the factories, each once, in an order that has() and for_() follow:
                        \* none is reached from itself
          Table,        \* the table of each factory's model, in the singular
          Definition,   \* the attributes that definition() gives
          States,       \* the states of each factory, and what their callbacks return
          Returns(_, _),
          Callbacks,    \* the callbacks of each factory
          Overrides,    \* what is given to create() and make()
          Counts, MaxCalls

VARIABLES factories,    \* [count, states, has, for, making, creating]
          rows,         \* [table, attributes, by]: by, the factory that made it
          stack,        \* the calls of create() under way, the innermost first
          call,         \* the outermost: [of, overrides, first, value, how]; first, the rows before it
          log,          \* the callbacks called: [callback, row, rows]; rows, how many there were
          calls

vars == <<factories, rows, stack, call, log, calls>>

NoCall == [of |-> Factories[1], overrides |-> <<>>, first |-> 0, value |-> <<>>, how |-> "none"]
Idle == stack = <<>> /\ calls < MaxCalls

\* The fluent helpers add to the factory they are called on.
Chain(o) ==
    /\ Idle /\ calls' = calls + 1
    /\ \/ \E n \in Counts : factories' = [factories EXCEPT ![o].count = n]
       \/ \E s \in States[o] : factories' = [factories EXCEPT ![o].states = Append(@, s)]
       \/ \E i, j \in DOMAIN Factories :
             /\ Factories[i] = o /\ i < j
             /\ \/ factories' = [factories EXCEPT ![o].has = Append(@, Factories[j])]
                \/ factories' = [factories EXCEPT ![o].for = Append(@, Factories[j])]
       \/ \E c \in Callbacks[o] : \/ factories' = [factories EXCEPT ![o].making = Append(@, c)]
                                  \/ factories' = [factories EXCEPT ![o].creating = Append(@, c)]
    /\ call' = NoCall /\ log' = <<>> /\ UNCHANGED <<rows, stack>>

\* _build_attributes(): every state sees what the ones before it have made.
BuildAttributes(o, overrides) ==
    overrides @@ FoldLeft(LAMBDA attrs, s : Returns(s, attrs) @@ attrs, Definition[o], factories[o].states)
\* _infer_fk(): {parent_table_singular}_id.
InferFk(o) == Table[o] \o "_id"

Frame(o, overrides) == [of |-> o, overrides |-> overrides, parents |-> 0, row |-> 0, children |-> 0,
                        called |-> 0, results |-> <<>>]
Top  == stack[1]
Self == factories[Top.of]
Update(fields) == stack' = <<fields @@ Top>> \o Tail(stack)
\* An exception leaves all calls, and the rows there are.
Raise == stack' = <<>> /\ call' = [call EXCEPT !.how = "raised"]

Create(o, overrides) ==
    /\ Idle /\ calls' = calls + 1
    /\ stack' = <<Frame(o, overrides)>>
    /\ call' = [of |-> o, overrides |-> overrides, first |-> Len(rows), value |-> <<>>, how |-> "creating"]
    /\ log' = <<>> /\ UNCHANGED <<factories, rows>>

\* make(): models that are not written, without parents and children.
Make(o, overrides) ==
    /\ Idle /\ calls' = calls + 1
    /\ LET models == [i \in 1 .. factories[o].count |-> BuildAttributes(o, overrides)] IN
       \/ /\ log' = [i \in 1 .. Len(models) * Len(factories[o].making) |->
                      [callback |-> factories[o].making[((i - 1) % Len(factories[o].making)) + 1], row |-> 0,
                       rows |-> Len(rows)]]
          /\ call' = [of |-> o, overrides |-> overrides, first |-> Len(rows), value |-> models, how |-> "made"]
       \/ /\ models # <<>> /\ factories[o].making # <<>> /\ log' = <<>>
          /\ call' = [of |-> o, overrides |-> overrides, first |-> Len(rows), value |-> <<>>, how |-> "raised"]
    /\ UNCHANGED <<factories, rows, stack>>

InParents  == stack # <<>> /\ Top.parents < Len(Self.for)
InChildren == stack # <<>> /\ Top.row # 0 /\ Top.children < Len(Self.has)

Parent ==
    /\ InParents
    /\ stack' = <<Frame(Self.for[Top.parents + 1], <<>>)>> \o stack
    /\ UNCHANGED <<factories, rows, call, log, calls>>

\* Model.create(), which may raise.
Insert ==
    /\ stack # <<>> /\ ~InParents /\ Top.row = 0 /\ Len(Top.results) < Self.count
    /\ \/ /\ rows' = Append(rows, [table |-> Table[Top.of], by |-> Top.of,
                                   attributes |-> BuildAttributes(Top.of, Top.overrides)])
          /\ Update("row" :> Len(rows')) /\ UNCHANGED call
       \/ Raise /\ UNCHANGED rows
    /\ UNCHANGED <<factories, log, calls>>

Child ==
    /\ InChildren
    /\ stack' = <<Frame(Self.has[Top.children + 1], InferFk(Top.of) :> Top.row)>> \o stack
    /\ UNCHANGED <<factories, rows, call, log, calls>>

\* The after_creating callbacks, then the row is one of the results.
Called ==
    /\ stack # <<>> /\ Top.row # 0 /\ ~InChildren
    /\ IF Top.called < Len(Self.creating)
       THEN \/ /\ Update("called" :> Top.called + 1) /\ UNCHANGED call
               /\ log' = Append(log, [callback |-> Self.creating[Top.called + 1], row |-> Top.row, rows |-> Len(rows)])
            \/ Raise /\ UNCHANGED log
       ELSE /\ Update("row" :> 0 @@ "children" :> 0 @@ "called" :> 0 @@ "results" :> Append(Top.results, Top.row))
            /\ UNCHANGED <<call, log>>
    /\ UNCHANGED <<factories, rows, calls>>

\* A factory that makes one gives the model itself, any other a list, which
\* for_() refuses.
Return ==
    /\ stack # <<>> /\ ~InParents /\ Top.row = 0 /\ Len(Top.results) = Self.count
    /\ IF Len(stack) = 1
       THEN stack' = <<>> /\ call' = [call EXCEPT !.value = Top.results, !.how = "created"]
       ELSE LET caller == stack[2]
                parent == caller.parents < Len(factories[caller.of].for)
            IN  IF parent /\ Self.count # 1 THEN Raise
                ELSE /\ UNCHANGED call
                     /\ stack' = <<(IF parent
                                    THEN "parents" :> caller.parents + 1
                                         @@ "overrides" :> (caller.overrides @@ InferFk(Top.of) :> Top.results[1])
                                    ELSE "children" :> caller.children + 1) @@ caller>> \o Tail(Tail(stack))
    /\ UNCHANGED <<factories, rows, log, calls>>

Init == /\ factories = [o \in Range(Factories) |->
                          [count |-> 1, states |-> <<>>, has |-> <<>>, for |-> <<>>, making |-> <<>>, creating |-> <<>>]]
        /\ rows = <<>> /\ stack = <<>> /\ log = <<>> /\ calls = 0
        /\ call = NoCall
Next == \/ \E o \in Range(Factories) :
              Chain(o) \/ \E overrides \in Overrides : Create(o, overrides) \/ Make(o, overrides)
        \/ Parent \/ Insert \/ Child \/ Called \/ Return
Spec == Init /\ [][Next]_vars
-------------------------------------------------------------------------------
Field(r, column) == IF column \in DOMAIN rows[r].attributes THEN rows[r].attributes[column] ELSE 0
Sum(s) == FoldLeft(LAMBDA a, b : a + b, 0, s)

\* When create() has returned, there are as many rows as the factory counts.
\* Each has what was given to create(), the parents of for_() where nothing was
\* given for them, the same for all, and of every factory of has() as many
\* children as that one counts; and each callback was called once for it, in
\* order and after its children were there; a factory of for_() counts one
\* (factory.py, create, has, for_, after_creating).
FamilyIsWhole ==
    call.how = "created" =>
        LET made == Range(call.value)
            self == factories[call.of]
            ChildrenOf(r, h) == {c \in call.first + 1 .. Len(rows) : rows[c].by = h /\ Field(c, InferFk(call.of)) = r}
            CalledFor(r) == SelectSeq(log, LAMBDA entry : entry.row = r)
        IN  /\ Len(call.value) = self.count /\ Cardinality(made) = self.count
            /\ \A r \in made : rows[r].by = call.of /\ r > call.first
            /\ \A r \in made, c \in DOMAIN call.overrides : Field(r, c) = call.overrides[c]
            /\ \A f \in Range(self.for) : factories[f].count = 1
            /\ \A f \in Range(self.for) : InferFk(f) \notin DOMAIN call.overrides /\ made # {} =>
                 \E p \in call.first + 1 .. Len(rows) :
                    rows[p].table = Table[f] /\ \A r \in made : Field(r, InferFk(f)) = p /\ p < r
            /\ \A r \in made, h \in Range(self.has) :
                 Cardinality(ChildrenOf(r, h)) =
                     Cardinality({i \in DOMAIN self.has : self.has[i] = h}) * factories[h].count
            /\ \A r \in made :
                 /\ [i \in DOMAIN CalledFor(r) |-> CalledFor(r)[i].callback] = self.creating
                 /\ \A i \in DOMAIN CalledFor(r), h \in Range(self.has) :
                       \A c \in ChildrenOf(r, h) : c <= CalledFor(r)[i].rows
===============================================================================
