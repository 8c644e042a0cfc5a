----------------------------- MODULE Container -----------------------------
(* container/container.py: the service container.  Objects are bound under   *)
(* string or class keys; a class is resolved by finding, for every annotated *)
(* parameter of its constructor, an object in the container, or by resolving *)
(* the annotation itself.  Swaps take the place of a class, hooks are called *)
(* on bind, make and resolve.                                                *)
EXTENDS Naturals, Sequences, SequencesExt, FiniteSets, TLC

CONSTANTS Classes,      \* the application's classes
          Parent,       \* the class each one extends, or ""
          Needs,        \* the annotations of each constructor, in order
          Keys,         \* string keys
          MaxCalls      \* bound: calls made

VARIABLES objects,      \* the bindings, in insertion order
          swaps,        \* the object put in the place of a class
          hooks,        \* keys and classes that listeners wait for, per action
          settings,     \* strict and override
          made,         \* number of objects constructed
          last,         \* the last call: what it asked for and what came of it
          calls

vars == <<objects, swaps, hooks, settings, made, last, calls>>

Actions == {"bind", "make", "resolve"}
ClassOf(v)   == [kind |-> "class", of |-> v, id |-> 0, with |-> <<>>]
Instance(c, id, with) == [kind |-> "instance", of |-> c, id |-> id, with |-> with]
RECURSIVE Subclass(_, _)
Subclass(c, d) == c = d \/ (c # "" /\ Parent[c] # "" /\ Subclass(Parent[c], d))

Bound(name)  == {i \in 1 .. Len(objects) : objects[i].key = name}
Value(name)  == objects[CHOOSE i \in Bound(name) : TRUE].value
\* The careless search: an object of a class that the asked one extends.
FitsUpwards(v, c) == Subclass(c, v.of) \/ Subclass(v.of, c)
Fits(v, c)   == Subclass(v.of, c)
\* _find_obj() and _find_annotated_parameter(): the first that fits.
Found(c)     == {i \in 1 .. Len(objects) : Fits(objects[i].value, c)}
FirstFound(c) == objects[CHOOSE i \in Found(c) : \A j \in Found(c) : i <= j].value

\* A hook runs when its key, or the class of the object, has a listener; then
\* every listener of the action runs.
Fired(action, key, v) ==
    LET waiting == hooks[action] IN
    IF (key \in Keys /\ key \in waiting) \/ v.of \in waiting THEN {<<action, h>> : h \in waiting} ELSE {}

\* resolve(): [value, next number, hooks fired].  What a parameter finds that
\* is a class is resolved in its turn.
RECURSIVE Resolve(_, _)
Resolve(c, n) ==
    LET Param(acc, need) ==
            LET found == IF need \in DOMAIN swaps THEN swaps[need]
                         ELSE IF Found(need) # {} THEN FirstFound(need) ELSE ClassOf(need)
                fired == IF need \notin DOMAIN swaps /\ Found(need) # {}
                         THEN Fired("resolve", need, found) ELSE {}
                r == IF found.kind = "class" THEN Resolve(found.of, acc.next)
                     ELSE [value |-> found, next |-> acc.next, fired |-> {}]
            IN  [with |-> Append(acc.with, r.value), next |-> r.next,
                 fired |-> acc.fired \cup fired \cup r.fired]
        args == FoldLeft(Param, [with |-> <<>>, next |-> n, fired |-> {}], Needs[c])
    IN  [value |-> Instance(c, args.next, args.with), next |-> args.next + 1,
         fired |-> args.fired]
Resolved(v, n) == IF v.kind = "class" THEN Resolve(v.of, n)
                  ELSE [value |-> v, next |-> n, fired |-> {}]

Init ==
    /\ objects = <<>> /\ swaps = <<>> /\ made = 1 /\ calls = 0
    /\ hooks = [a \in Actions |-> {}]
    /\ settings \in [strict : BOOLEAN, override : BOOLEAN]
    /\ last = [call |-> "none", asked |-> "", value |-> ClassOf(""), fired |-> {},
               from |-> made]

Done(call, asked, value, fired) ==
    /\ last' = [call |-> call, asked |-> asked, value |-> value, fired |-> fired,
                from |-> made]
    /\ UNCHANGED settings

Call == calls < MaxCalls /\ calls' = calls + 1

Bind(name, v) ==
    /\ ~(settings.strict /\ Bound(name) # {})
    /\ IF settings.override \/ Bound(name) = {}
       THEN /\ Done("bind", name, v, Fired("bind", name, v))
            /\ objects' = IF Bound(name) = {} THEN Append(objects, [key |-> name, value |-> v])
                          ELSE [i \in 1 .. Len(objects) |->
                                   IF i \in Bound(name) THEN [key |-> name, value |-> v]
                                   ELSE objects[i]]
       ELSE Done("bind", name, v, {}) /\ UNCHANGED objects
    /\ UNCHANGED <<swaps, hooks>>
BindClass(name, c) == Call /\ Bind(name, ClassOf(c)) /\ UNCHANGED made
\* singleton() and simple(): the object bound is constructed once, now.
Singleton(name, c) ==
    /\ Call
    /\ LET r == Resolve(c, made) IN Bind(name, r.value) /\ made' = r.next
Unbind(name) ==
    /\ Call /\ Bound(name) # {}
    /\ objects' = SelectSeq(objects, LAMBDA e : e.key # name)
    /\ Done("unbind", name, ClassOf(""), {})
    /\ UNCHANGED <<swaps, hooks, made>>
Swap(c, d) ==
    /\ Call /\ Subclass(d, c) /\ c # d
    /\ LET r == Resolve(d, made) IN
       /\ swaps' = (c :> r.value) @@ swaps
       /\ Done("swap", c, r.value, {})
       /\ made' = r.next
    /\ UNCHANGED <<objects, hooks>>
Hook(action, key) ==
    /\ Call /\ hooks' = [hooks EXCEPT ![action] = @ \cup {key}]
    /\ Done("hook", key, ClassOf(""), {})
    /\ UNCHANGED <<objects, swaps, made>>

\* make(): what is bound under the key; else a swap; else, for a class, the
\* first object that fits, or the class itself resolved.
Make(name) ==
    /\ Call
    /\ LET source == IF Bound(name) # {} THEN Value(name)
                     ELSE IF Found(name) # {} THEN FirstFound(name) ELSE ClassOf(name)
           r      == Resolved(source, made)
           swapped == Bound(name) = {} /\ name \in DOMAIN swaps
           found  == IF Bound(name) = {} /\ Found(name) = {} THEN {}
                     ELSE Fired("make", name, source) \cup
                          (IF Bound(name) = {} THEN Fired("resolve", name, source) ELSE {})
       IN  /\ name \in Keys => Bound(name) # {}
           /\ IF swapped
              THEN Done("make", name, swaps[name], {}) /\ UNCHANGED made
              ELSE Done("make", name, r.value, found \cup r.fired) /\ made' = r.next
    /\ UNCHANGED <<objects, swaps, hooks>>

Next == \/ \E c \in Classes, k \in Keys \cup Classes :
              (k \in Classes => Subclass(c, k)) /\ (BindClass(k, c) \/ Singleton(k, c))
        \/ \E k \in Keys \cup Classes : Unbind(k) \/ Make(k) \/ \E a \in Actions : Hook(a, k)
        \/ \E c, d \in Classes : Swap(c, d)
Spec == Init /\ [][Next]_vars

----------------------------------------------------------------------------
\* An object that the container constructs or finds is of the class asked for,
\* each argument it is given is of the class the constructor names, and an
\* argument the container holds an instance for is that instance, shared, not
\* another one (container.py resolve(), _find_annotated_parameter()).
RECURSIVE WellMade(_)
WellMade(v) ==
    \A i \in 1 .. Len(v.with) :
        /\ Subclass(v.with[i].of, Needs[v.of][i]) /\ v.with[i].kind = "instance"
        /\ WellMade(v.with[i])
MadeAsNeeded ==
    last.call = "make" =>
        /\ last.asked \in Classes => Subclass(last.value.of, last.asked)
        /\ last.value.kind = "instance" /\ WellMade(last.value)
        /\ last.value.id >= last.from => \A i \in 1 .. Len(last.value.with) :
              LET need == Needs[last.value.of][i]
                  held == {j \in 1 .. Len(objects) : /\ Subclass(objects[j].value.of, need)
                                                     /\ \A k \in 1 .. j - 1 :
                                                        ~Subclass(objects[k].value.of, need)}
              IN  need \notin DOMAIN swaps => \A j \in held :
                     objects[j].value.kind = "instance" => last.value.with[i] = objects[j].value

=============================================================================
