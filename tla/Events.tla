------------------------------- MODULE Events -------------------------------
(* events/: the application's dispatcher.  Every EventServiceProvider binds  *)
(* a dispatcher when it registers and adds the listeners it declares when it *)
(* boots; Application registers all its providers before it boots the first. *)
(* Dispatches run side by side: a listener may be awaited while others add   *)
(* or forget listeners, and a test may put a fake in the dispatcher's place. *)
EXTENDS Naturals, Sequences, SequencesExt, FiniteSets

CONSTANTS Declared,     \* the event -> listeners table of each event provider
          Names,        \* events that are dispatched, and patterns
          Patterns,     \* the names with a wildcard
          Matches(_, _),\* Matches(name, pattern): fnmatchcase()
          Listeners,
          MaxDispatches, MaxChanges  \* bounds

VARIABLES booting,      \* how many providers have registered, and booted
          dispatchers,  \* of each dispatcher, its table in insertion order
          bound,        \* what the container has under "events"
          recorded,     \* events that a fake captured
          dispatches,   \* each dispatch: what it has still to call, what it called
          heard,        \* the registrations in force, in their order
          changes

vars == <<booting, dispatchers, bound, recorded, dispatches, heard, changes>>

Providers == 1 .. Len(Declared)
Booted    == booting.booted = Len(Declared)
Current   == bound.dispatcher

\* The listeners of a table for a name: exact ones first, then those of every
\* other pattern that matches.
Under(table, name) ==
    FlattenSeq([i \in 1 .. Len(table) |-> IF table[i].name = name THEN table[i].to ELSE <<>>])
GetListeners(table, name) ==
    Under(table, name) \o
    FlattenSeq([i \in 1 .. Len(table) |->
        IF table[i].name # name /\ table[i].name \in Patterns /\ Matches(name, table[i].name)
        THEN table[i].to ELSE <<>>])
\* Registration: at the end of the name's list, or a new last entry.
Listened(table, name, l) ==
    IF \E i \in 1 .. Len(table) : table[i].name = name
    THEN [i \in 1 .. Len(table) |-> IF table[i].name # name THEN table[i]
                                    ELSE [table[i] EXCEPT !.to = Append(@, l)]]
    ELSE Append(table, [name |-> name, to |-> <<l>>])
Forgotten(table, name) == SelectSeq(table, LAMBDA e : e.name # name)

Init ==
    /\ booting = [registered |-> 0, booted |-> 0]
    /\ dispatchers = [d \in Providers |-> <<>>]
    /\ bound = [dispatcher |-> 0, fake |-> FALSE, names |-> {}]
    /\ recorded = <<>> /\ dispatches = <<>> /\ heard = <<>> /\ changes = 0

\* A careless form of the next definition: a provider boots once it is registered.
MayBootAtOnce == booting.booted < booting.registered
MayBoot == booting.registered = Len(Declared) /\ booting.booted < Len(Declared)

Register ==
    /\ booting.registered < Len(Declared)
    /\ booting' = [booting EXCEPT !.registered = @ + 1]
    /\ bound' = [bound EXCEPT !.dispatcher = booting'.registered]
    /\ UNCHANGED <<dispatchers, recorded, dispatches, heard, changes>>
Boot ==
    /\ MayBoot
    /\ booting' = [booting EXCEPT !.booted = @ + 1]
    /\ LET rows == Declared[booting'.booted] IN
       /\ dispatchers' = [dispatchers EXCEPT ![Current] =
              FoldLeft(LAMBDA t, r : Listened(t, r[1], r[2]), @, rows)]
       /\ heard' = heard \o rows
    /\ UNCHANGED <<bound, recorded, dispatches, changes>>

Change == Booted /\ changes < MaxChanges /\ changes' = changes + 1
          /\ UNCHANGED <<booting, dispatches>>
Listen(name, l) ==
    /\ Change
    /\ dispatchers' = [dispatchers EXCEPT ![Current] = Listened(@, name, l)]
    /\ heard' = Append(heard, <<name, l>>)
    /\ UNCHANGED <<bound, recorded>>
Forget(name) ==
    /\ Change
    /\ dispatchers' = [dispatchers EXCEPT ![Current] = Forgotten(@, name)]
    /\ heard' = SelectSeq(heard, LAMBDA r : r[1] # name)
    /\ UNCHANGED <<bound, recorded>>
Flush ==
    /\ Change
    /\ dispatchers' = [dispatchers EXCEPT ![Current] = <<>>]
    /\ heard' = <<>>
    /\ UNCHANGED <<bound, recorded>>
\* Event.fake(): no names means every event.
Fake(names) ==
    /\ Change /\ ~bound.fake
    /\ bound' = [bound EXCEPT !.fake = TRUE, !.names = names]
    /\ recorded' = <<>>
    /\ UNCHANGED <<dispatchers, heard>>
ShouldFake(name) == bound.fake /\ (bound.names = {} \/ name \in bound.names)

Begin(name, halt) ==
    /\ Booted /\ Len(dispatches) < MaxDispatches
    /\ LET fake == ShouldFake(name) IN
       /\ recorded' = IF fake THEN Append(recorded, name) ELSE recorded
       /\ dispatches' = Append(dispatches,
              [name |-> name, halt |-> halt, called |-> <<>>, stopped |-> FALSE, fake |-> fake,
               dispatcher |-> Current, heard |-> heard, left |-> IF fake THEN <<>>
                                    ELSE GetListeners(dispatchers[Current], name)])
    /\ UNCHANGED <<booting, dispatchers, bound, heard, changes>>

Left(d) == d.left
\* The next listener is called and answers nothing, a value or False: False
\* stops the dispatch, and so does any value when the first answer is wanted.
Call(i) ==
    /\ LET d == dispatches[i] IN
       /\ Left(d) # <<>> /\ ~d.stopped
       /\ \E answer \in {"none", "value", "false"} :
             dispatches' = [dispatches EXCEPT ![i] =
                 [d EXCEPT !.called = Append(@, Head(Left(d))), !.left = Tail(Left(d)),
                           !.stopped = answer = "false" \/ (d.halt /\ answer # "none")]]
    /\ UNCHANGED <<booting, dispatchers, bound, recorded, heard, changes>>

Next == \/ Register \/ Boot \/ Flush
        \/ \E n \in Names : Forget(n) \/ \E l \in Listeners : Listen(n, l)
        \/ \E names \in SUBSET (Names \ Patterns) : Fake(names)
        \/ \E n \in Names \ Patterns, halt \in BOOLEAN : Begin(n, halt)
        \/ \E i \in 1 .. Len(dispatches) : Call(i)
Spec == Init /\ [][Next]_vars

----------------------------------------------------------------------------
\* A dispatch calls every listener that was registered for its event when it
\* began, those the providers declared included, once per registration and
\* nothing else: those of its own name first, in their order; a fake one calls
\* none and is recorded (dispatcher.py dispatch(), provider.py, application.py
\* register_providers()).
HearsInOrder ==
    \A i \in 1 .. Len(dispatches) :
        LET d     == dispatches[i]
            own   == SelectSeq(d.heard, LAMBDA r : r[1] = d.name)
            other == SelectSeq(d.heard, LAMBDA r : r[1] # d.name /\ r[1] \in Patterns
                                                   /\ Matches(d.name, r[1]))
            all   == Len(own) + Len(other)
            calls == Len(d.called)
        IN  IF d.fake THEN d.called = <<>> /\ Contains(recorded, d.name)
            ELSE /\ calls <= all /\ (d.left = <<>> /\ ~d.stopped => calls = all)
                 /\ \A j \in 1 .. calls : j <= Len(own) => d.called[j] = own[j][2]
                 /\ \A l \in Listeners :
                       Len(SelectSeq(d.called, LAMBDA c : c = l))
                       <= Len(SelectSeq(own \o other, LAMBDA r : r[2] = l))
=============================================================================
