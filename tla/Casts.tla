-------------------------------- MODULE Casts --------------------------------
(* masoniteorm/models/caster.py: one field of a model, from its annotation to *)
(* its cast, and the value it holds: as given, as set, as the database has    *)
(* it, and as read.  A value is [is, of, v]; a text is the text "of" some     *)
(* value; decimals, floats and spans count halves; a datetime "elsewhere" is  *)
(* one hour ahead of UTC.                                                     *)
EXTENDS Naturals, FiniteSets

CONSTANTS Fields,       \* [types, descriptor, default, cast]: the members of the annotation or of the
                        \* descriptor's parameter, if any; "field", "model", deprecated, or "none";
                        \* the default, or Unset; the cast that the annotation declares, or ""
          Given,        \* what a field of each cast is given: values of its type, their texts, other
                        \* texts and None
          Unset,
          MaxCalls

VARIABLES field, raw, dirty,    \* _attributes and _dirty_attributes of the instance, or Unset
          row,                  \* the column, or Unset where there is no row
          calls

vars == <<field, raw, dirty, row, calls>>

Val(is, v)  == [is |-> is, of |-> "", v |-> v]
Text(of, v) == [is |-> "str", of |-> of, v |-> v]
None   == Val("none", 0)
Raises == Val("raises", 0)
Str(x) == IF x.is = "str" THEN x ELSE Text(x.is, x.v)
Numbers == {"bool", "int", "float", "decimal"}
Kind(x)  == IF x.is = "str" THEN x.of ELSE x.is
Truthy(x) == /\ x.is # "none" /\ x.of # "empty"
             /\ x.is \in {"bool", "int", "float", "timedelta", "dict"} => x.v # 0
Halves(x) == IF Kind(x) \in {"bool", "int"} THEN 2 * x.v ELSE x.v
IsNumeric(x) == Kind(x) \in Numbers /\ x # Text("bool", x.v)
AsFloat(x) == IF IsNumeric(x) THEN Val("float", Halves(x)) ELSE Raises
AsInt(x)   == IF IsNumeric(x) /\ (x.is = "str" => x.of = "int") THEN Val("int", Halves(x) \div 2) ELSE Raises
InUtc(x)   == IF x.is = "elsewhere" THEN Val("datetime", x.v - 1) ELSE x
Moment(x)  == IF Kind(x) \in {"datetime", "elsewhere"} THEN Val(Kind(x), x.v) ELSE Raises
Loads(x)   == IF x.of \in {"dict", "int", "float"} THEN Val(x.of, x.v) ELSE Raises

-------------------------------------------------------------------------------
(* Caster.build: the cast of a field, and whether it takes None.               *)
Members(f)  == f.types \ {"none"}
Nullable(f) == "none" \in f.types
Annotated(f) == IF f.types # {} THEN Members(f)
                ELSE IF f.descriptor = "field" /\ f.default # Unset THEN {f.default.is} ELSE {}
NormalizeType(t) == IF t \in {"int", "float", "bool", "time", "timedelta", "enum"} THEN t
                    ELSE IF t \in {"dict", "list"} THEN "json"
                    ELSE IF t \in {"datetime", "date"} THEN "date" ELSE "str"
CastOf(f) == IF f.cast # "" THEN f.cast
             ELSE IF Cardinality(Annotated(f)) > 1 THEN "any"
             ELSE IF Annotated(f) = {} THEN "str"
             ELSE LET t == CHOOSE t \in Annotated(f) : TRUE
                  IN  IF t = "object" \/ f.descriptor = "model" THEN "object" ELSE NormalizeType(t)
\* Declared casts, a nested model's, and those that are none of the casters know
\* of no default.
ApplyDefault(f) ==
    IF f.default # Unset /\ f.descriptor = "field" /\ f.cast = "" /\ CastOf(f) \notin {"object", "str", "enum"}
    THEN f.default ELSE None

\* The get() and set() of the casters.
CastGet(cast, x) ==
    CASE cast = "bool"  -> Val("bool", IF Truthy(x) THEN 1 ELSE 0)
      [] cast = "int"   -> AsInt(x)
      [] cast = "float" -> AsFloat(x)
      [] cast = "json"  -> IF x.is # "str" THEN x ELSE IF Loads(x) = Raises THEN None ELSE Loads(x)
      [] cast = "date"  -> IF Truthy(x) THEN Moment(x) ELSE None
      [] cast = "decimal" -> IF IsNumeric(Str(x)) THEN Val("decimal", Halves(x)) ELSE Raises
      [] cast = "time"  -> IF ~Truthy(x) THEN None ELSE IF Kind(x) = "time" THEN Val("time", x.v) ELSE Raises
      [] cast = "timedelta" -> IF x = None \/ x.is = "timedelta" THEN x
                               ELSE IF AsFloat(x) = Raises THEN Raises ELSE Val("timedelta", AsFloat(x).v)
      [] cast = "object" -> IF x = None \/ x.is = "object" THEN x
                            ELSE IF Kind(x) = "dict" THEN Val("object", x.v) ELSE Raises
      [] cast = "enum"  -> IF x = None THEN None
                           ELSE IF x.is \in {"enum", "int"} THEN Val("enum", x.v) ELSE Raises
      [] cast = "str"   -> IF x = None THEN None ELSE Str(x)
      [] OTHER -> x
\* Times are written to the second.
Seconds(x) == [x EXCEPT !.v = 2 * (@ \div 2)]
CastSet(cast, x) ==
    CASE cast \in {"bool", "int", "float"} -> CastGet(cast, x)
      [] cast = "json" -> IF x = None THEN None
                          ELSE IF x.is = "str" THEN (IF Loads(x) = Raises THEN Raises ELSE x) ELSE Str(x)
      [] cast = "date" -> IF Truthy(x) THEN InUtc(Moment(x)) ELSE None
      [] cast = "decimal" -> Str(x)
      [] cast = "time" -> IF ~Truthy(x) THEN None ELSE IF x.is = "time" THEN Str(Seconds(x)) ELSE Str(x)
      [] cast = "timedelta" -> IF x = None THEN None
                               ELSE IF x.is = "timedelta" THEN Val("float", x.v) ELSE AsFloat(x)
      [] cast = "object" -> IF x.is \in {"object", "dict"} THEN Text("dict", x.v) ELSE x
      [] OTHER -> x

\* Caster.get and Caster.set.
Get(f, x) ==
    LET y == IF Nullable(f) /\ x = None THEN None ELSE CastGet(CastOf(f), x)
    IN  IF y = None THEN ApplyDefault(f) ELSE y
Set(f, x) == IF Nullable(f) /\ x = None THEN None ELSE CastSet(CastOf(f), x)

\* prepare_binding(), then the driver, which refuses what is no value of SQL.
PrepareBinding(x) == IF x.is \in {"datetime", "elsewhere"} THEN Str(InUtc(x)) ELSE x
\* A column of numbers keeps the text of a number as that number.
Stores(x) ==
    LET y == PrepareBinding(x)
    IN  IF y.is = "bool" THEN Val("int", y.v)
        ELSE IF y.is = "str" /\ IsNumeric(y) /\ CastOf(field) \in {"int", "float", "decimal", "timedelta", "enum"}
        THEN IF y.of = "int" THEN Val("int", y.v) ELSE Val("float", Halves(y))
        ELSE IF y.is \in {"none", "int", "float", "str"} THEN y ELSE Raises

-------------------------------------------------------------------------------
Current == IF dirty # Unset THEN dirty ELSE raw
Call == calls < MaxCalls /\ calls' = calls + 1

\* set_attribute(), which may refuse the value.
Assign(x) ==
    /\ Call
    /\ dirty' = IF Set(field, x) = Raises THEN dirty ELSE Set(field, x)
    /\ UNCHANGED <<field, raw, row>>
\* A new model takes its attributes as they are, and casts them when it is inserted.
New(x) == Call /\ raw' = x /\ dirty' = Unset /\ row' = Unset /\ UNCHANGED field

Equivalent(x, y) == x = y \/ (IsNumeric(x) /\ IsNumeric(y) /\ Halves(x) = Halves(y))
Written == IF dirty # Unset THEN dirty ELSE Set(field, raw)
Insert ==
    /\ Call /\ row = Unset /\ Current # Unset /\ Written # Raises /\ Stores(Written) # Raises
    /\ row' = Stores(Written) /\ raw' = Current /\ dirty' = Unset
    /\ UNCHANGED field
Update ==
    /\ Call /\ row # Unset /\ dirty # Unset
    /\ IF Equivalent(dirty, raw) THEN UNCHANGED row
       ELSE Stores(dirty) # Raises /\ row' = Stores(dirty)
    /\ raw' = dirty /\ dirty' = Unset /\ UNCHANGED field
Load == Call /\ row # Unset /\ raw' = row /\ dirty' = Unset /\ UNCHANGED <<field, row>>

Init == field \in Fields /\ raw = Unset /\ dirty = Unset /\ row = Unset /\ calls = 0
Next == \/ \E x \in Given[CastOf(field)] : Assign(x) \/ New(x)
        \/ Insert \/ Update \/ Load
Spec == Init /\ [][Next]_vars
-------------------------------------------------------------------------------
Alike(x, y) == \/ Equivalent(x, y) /\ CastOf(field) \in {"str", "any"}
               \/ IF x.is = "time" THEN Seconds(x) = Seconds(y) ELSE InUtc(x) = InUtc(y)

\* A field that is saved and can be read reads as its row will when it is loaded
\* again, whether it was assigned or given to a new model: to the second, at the
\* same moment in time, and the same number where a text is another way of
\* writing it; and None is NULL in a column that may be (caster.py 349-395,
\* attribute.py 33-66, 100-104).
ReadsAsSaved ==
    row # Unset /\ dirty = Unset =>
        /\ Get(field, raw) # Raises => Alike(Get(field, raw), Get(field, row))
        /\ Nullable(field) /\ raw = None => row = None
===============================================================================
