----------------------------- MODULE Validation -----------------------------
(* validation/: the form requests a route depends on.  FastAPI runs the      *)
(* dependencies of a route in post-order and each of them once; every one    *)
(* validates its form and adds to the errors kept with the request; the last *)
(* one of the route raises them all.  A mapping is a function from names to  *)
(* values; a value is [type, n, number]: a text of n characters or, when     *)
(* number holds, the one digit n; an integer n; a list of n members.         *)
EXTENDS Naturals, Sequences, FiniteSets, SequencesExt, TLC

CONSTANTS FieldsOf,     \* the fields of each form, in order of declaration
          Prepares,     \* the mapping that prepare_for_validation() of each form merges
          Stopping,     \* the forms with stop_on_first_failure
          Routes,       \* the forms a route depends on, in the order they are solved
          Bodies,       \* what a body may hold for each form: mappings, or NotAMapping
          Queries,      \* the query strings
          Absent, NotAMapping,
          Stored        \* the values of the column that unique and exists ask

VARIABLES route, request,   \* [write, raw, body, query, path, verdict]: verdict is what
                          \* authorize() and after() of its forms say
          at,               \* the dependency to solve next
          solved,           \* the instance, or Absent, that each dependency gave
          errors,           \* the bag: <<prefix, field>>
          outcome

vars == <<route, request, at, solved, errors, outcome>>

Forms    == DOMAIN FieldsOf
None     == [type |-> "none", n |-> 0, number |-> FALSE]
Integer(k) == [type |-> "int", n |-> k, number |-> TRUE]
IsEmpty(v) == v = None \/ (v.type \in {"str", "list"} /\ v.n = 0 /\ ~v.number)
Lookup(data, name) == IF name \in DOMAIN data THEN data[name] ELSE None

\* pydantic's coercion in its lax mode: {} or {the value}.
Coerced(type, v) ==
    IF type = "str" THEN {w \in {v} : w.type = "str"}
    ELSE IF v.type = "bool" \/ v.number THEN {Integer(v.n)} ELSE {}

\* rules.py.  to_number() and size_of(): {} or {the number}.
ToNumber(v) == {w.n : w \in {u \in {v} : u.number}}
SizeOf(v)   == IF v.type = "str" /\ v.number THEN {1}
               ELSE IF v.type \in {"none", "bool"} THEN {} ELSE {v.n}
Numeric(field) == \E i \in 1 .. Len(field.rules) : field.rules[i].rule \in {"numeric", "integer"}
Passes(rule, numeric, v, data) ==
    CASE rule.rule = "required"    -> ~IsEmpty(v)
      [] rule.rule = "required_if" -> Lookup(data, rule.other) # rule.expected \/ ~IsEmpty(v)
      [] rule.rule = "nullable"    -> TRUE
      [] rule.rule = "string"      -> v.type = "str"
      [] rule.rule = "integer"     -> v.type \in {"int", "str"} /\ v.number
      [] rule.rule = "numeric"     -> ToNumber(v) # {}
      [] rule.rule = "boolean"     -> v.type = "bool" \/ (v.number /\ v.n \in {0, 1})
      [] rule.rule = "between"     -> \E s \in (IF numeric THEN ToNumber(v) ELSE SizeOf(v)) :
                                         rule.low <= s /\ s <= rule.high
      [] rule.rule = "in"          -> v \in rule.values
      [] rule.rule = "not_in"      -> v \notin rule.values
      [] rule.rule = "matches"     -> v.type = "str" /\ v \in rule.values
      [] rule.rule = "same_as"     -> v = Lookup(data, rule.other)
      [] rule.rule = "unique"      -> v \notin Stored
      [] rule.rule = "exists"      -> v \in Stored
Implicit(rule) == rule.rule \in {"required", "required_if"}

AcceptsNone(field)    == \E i \in 1 .. Len(field.rules) : Implicit(field.rules[i])
                                                       \/ field.rules[i].rule = "nullable"
DefaultsToNone(field) == \E i \in 1 .. Len(field.rules) : Implicit(field.rules[i])
\* check(): a rule that is not implicit is left out for an empty value.
CheckUnlessEmpty(field, v, data) ==
    IsEmpty(v) \/ \A i \in 1 .. Len(field.rules) : Passes(field.rules[i], Numeric(field), v, data)
Check(field, v, data) ==
    \A i \in 1 .. Len(field.rules) :
        \/ ~Implicit(field.rules[i]) /\ IsEmpty(v)
        \/ Passes(field.rules[i], Numeric(field), v, data)

\* parse(): what the model makes of the data, field by field.
Parsed(field, data) ==
    IF field.name \in DOMAIN data
    THEN IF data[field.name] = None THEN {w \in {None} : AcceptsNone(field)}
         ELSE Coerced(field.type, data[field.name])
    ELSE IF field.default # Absent THEN {field.default}
    ELSE IF DefaultsToNone(field) THEN {None} ELSE {}

\* validate_input(): [errors, instance, denied].
ValidateInput(form, input, verdict) ==
    LET fields  == FieldsOf[form]
        Names   == {fields[i].name : i \in 1 .. Len(fields)}
        Field(name) == fields[CHOOSE i \in 1 .. Len(fields) : fields[i].name = name]
        data    == Prepares[form] @@ input
        failed  == {name \in Names : Parsed(Field(name), data) = {}}
        values  == [name \in Names \ failed |-> CHOOSE v \in Parsed(Field(name), data) : TRUE]
        all     == values @@ data
        Rule(bag, field) ==
            IF (form \in Stopping /\ bag # {}) \/ field.name \in failed
               \/ Check(field, Lookup(all, field.name), all) THEN bag
            ELSE bag \cup {field.name}
        ruled   == FoldLeft(Rule, failed, fields) \cup {a \in {"after"} : verdict = "adds"}
    IN  IF verdict = "denies" THEN [errors |-> {}, instance |-> Absent, denied |-> TRUE]
        ELSE IF input = NotAMapping THEN [errors |-> {""}, instance |-> Absent, denied |-> FALSE]
        ELSE [errors |-> ruled, instance |-> IF ruled = {} THEN values ELSE Absent, denied |-> FALSE]

\* request_input(): the query, and over it the body or its part for the form.
Embedded == Cardinality(ToSet(route)) > 1
KnownQuery(form) ==
    LET known == {FieldsOf[form][i].name : i \in 1 .. Len(FieldsOf[form])} \cap DOMAIN request.query
    IN  [name \in known |-> request.query[name]]
RequestInput(form) ==
    IF ~request.raw \/ request.body[form] = Absent THEN KnownQuery(form)
    ELSE IF request.body[form] = NotAMapping THEN NotAMapping
    ELSE request.body[form] @@ KnownQuery(form)

Init ==
    /\ route \in Routes
    /\ request \in [write : BOOLEAN, raw : BOOLEAN, query : Queries, path : {"valid", "invalid"},
                    verdict : {"allows", "denies", "adds"},
                    body : {b \in [Forms -> UNION {Bodies[f] : f \in Forms} \cup {Absent}] :
                               \A f \in Forms : /\ b[f] \in Bodies[f] \cup {Absent}
                                                /\ f \notin ToSet(route) => b[f] = Absent
                                                /\ b[f] = Absent => Embedded \/ f \notin ToSet(route)}]
    /\ ~request.raw => \A f \in Forms : request.body[f] \in {Absent, NotAMapping}
    /\ at = 1 /\ solved = <<>> /\ errors = {} /\ outcome = "solving"

\* The dependency of validated_dependency() that is solved next; one that is
\* asked for again is taken from FastAPI's cache.
Raises(form) == Last(route) = form
Depend ==
    /\ outcome = "solving" /\ at <= Len(route) /\ at' = at + 1
    /\ LET form    == route[at]
           missing == ~request.raw /\ request.write
           input   == RequestInput(form)
           result  == IF missing THEN [errors |-> {""}, instance |-> Absent, denied |-> FALSE]
                      ELSE ValidateInput(form, input, request.verdict)
           bag     == errors \cup {<<IF Embedded THEN form ELSE "", name>> : name \in result.errors}
       IN  IF form \in DOMAIN solved \/ request.path = "invalid"
           THEN UNCHANGED <<errors, outcome>> /\ solved' = solved @@ (form :> Absent)
           ELSE /\ solved' = solved @@ (form :> result.instance)
                /\ errors' = bag
                /\ outcome' = IF result.denied THEN "forbidden"
                              ELSE IF bag # {} /\ Raises(form) THEN "invalid" ELSE "solving"
    /\ UNCHANGED <<route, request>>
\* All dependencies are solved: FastAPI answers for the path or calls the handler.
Handle ==
    /\ outcome = "solving" /\ at > Len(route)
    /\ outcome' = IF request.path = "invalid" THEN "invalid" ELSE "handled"
    /\ UNCHANGED <<route, request, at, solved, errors>>

Next == Depend \/ Handle
Spec == Init /\ [][Next]_vars

----------------------------------------------------------------------------
\* Whether an instance may be handed on: every field has its type, and each of
\* its rules holds of what the handler reads there.
Sound(form, instance) ==
    \A i \in 1 .. Len(FieldsOf[form]) :
        LET field == FieldsOf[form][i]
            v     == instance[field.name]
        IN  /\ v.type = field.type \/ (v = None /\ (AcceptsNone(field) \/ field.default = None))
            /\ \A j \in 1 .. Len(field.rules) :
                  LET rule == field.rules[j] IN
                  IF rule.rule = "required" THEN ~IsEmpty(v)
                  ELSE IF rule.rule = "required_if" /\ rule.other \in DOMAIN instance
                       THEN instance[rule.other] = rule.expected => ~IsEmpty(v)
                  ELSE IsEmpty(v) \/ Passes(rule, Numeric(field), v, instance)
\* The handler gets no instance that breaks a rule of its form; and on a route
\* that names no dependency twice it runs only when every form gave one, while
\* a 422 comes after all of them were validated and names those that gave none
\* (form_request.py validated_dependency(), apply_rules()).
Complete == Len(route) = Cardinality(ToSet(route)) => \A f \in ToSet(route) : solved[f] # Absent
HandlesOnlyValid ==
    /\ outcome = "handled" =>
          /\ \A f \in ToSet(route) : solved[f] # Absent => Sound(f, solved[f])
          /\ Complete
    /\ outcome = "invalid" /\ request.path = "valid" /\ Len(route) = Cardinality(ToSet(route)) =>
          /\ DOMAIN solved = ToSet(route)
          /\ \A f \in ToSet(route) : Embedded => (solved[f] = Absent <=> \E e \in errors : e[1] = f)

=============================================================================
