-------------------------------- MODULE Models --------------------------------
(***************************************************************************)
(* Model instances over one table: assignment, dirty tracking, save,       *)
(* touch, delete, first_or_create and update_or_create (masoniteorm/       *)
(* models/model.py, attribute.py, observer.py, builder.py).  A save gives  *)
(* up control at every observer and at its statement: other tasks assign   *)
(* to the same instance, or write the same row through another one.        *)
(***************************************************************************)
EXTENDS Naturals, FiniteSets, Functions, FiniteSetsExt
CONSTANTS Instances, Keys, Vals, Absent,
          Same(_, _),     \* original_is_equivalent on two values
          MaxSets         \* bound on the assignments of a program
VARIABLES row,            \* the table: key -> [x, y, u] or Absent
          exists, attributes, dirty, original,   \* the four parts of an instance
          doing,          \* where a task that saves, touches or deletes the instance is
          sent,           \* the columns of the statement under way
          sets,           \* assignments so far
          \* What follows is history, read by the properties only:
          stored,         \* the values an instance has read from its row or written to it
          raced,          \* the columns assigned after a save sent its statement, or
                          \* that it wrote before one of its observers raised
          assigned,       \* the columns assigned since the instance was loaded or saved
          seeking,        \* the value a first_or_create under way did not find
          overlapped,     \* the values two of them did not find at the same time
          made            \* the value for whose sake the row was inserted, and not updated since

inst == <<exists, attributes, dirty, original>>
found == <<seeking, overlapped, made>>
history == <<sets, stored, raced, assigned, found>>
vars == <<row, inst, doing, sent, history>>
Columns == {"x", "y", "u"}
Values == Vals \cup Keys \cup {Absent}
\* What is assumed of the constants: values that are equal, or the same number,
\* are equivalent (NaN, which is not itself, is left out), and a stamp differs
\* from the one before (attribute.py 68-87).
ValuesCompare ==
    /\ Keys \subseteq Nat /\ Absent \notin Vals \cup Keys \cup [Columns -> Values]
    /\ \A v \in Values: Same(v, v)
    /\ \A v, w, z \in Values: Same(v, w) /\ Same(w, z) => Same(v, z)
    /\ \A w \in Values: \E v \in Vals: ~Same(v, w)
Nothing == [f \in {} |-> Absent]
Over(f, g) == [k \in DOMAIN f \cup DOMAIN g |-> IF k \in DOMAIN g THEN g[k] ELSE f[k]]
Only(f, S) == [k \in DOMAIN f \cap S |-> f[k]]

\* The value of an instance is its raw attributes under its dirty ones.
GetAttributes(m) == Over(attributes[m], dirty[m])
OriginalIsEquivalent(m, f) == f \in DOMAIN original[m] /\ Same(GetAttributes(m)[f], original[m][f])
GetDirty(m) == Only(GetAttributes(m), {f \in DOMAIN GetAttributes(m): ~OriginalIsEquivalent(m, f)})
Stored == {k \in Keys: row[k] # Absent}

Init ==
    /\ row \in [Keys -> {Absent, [c \in Columns |-> CHOOSE v \in Vals: TRUE]}]
    /\ exists = [m \in Instances |-> FALSE]
    /\ attributes = [m \in Instances |-> Nothing] /\ dirty = attributes /\ original = attributes
    /\ doing = [m \in Instances |-> "none"] /\ sent = attributes /\ sets = 0
    /\ stored = attributes /\ raced = [m \in Instances |-> {}] /\ assigned = raced
    /\ seeking = [m \in Instances |-> Absent] /\ overlapped = {}
    /\ made = [k \in Keys |-> Absent]

Put(var, m, value) == [var EXCEPT ![m] = value]
Becomes(m, ex, raw, dir, orig) ==
    /\ exists' = Put(exists, m, ex) /\ attributes' = Put(attributes, m, raw)
    /\ dirty' = Put(dirty, m, dir) /\ original' = Put(original, m, orig)

\* A program assigns, at any moment, also while a task saves the instance.
SetAttribute(m, f, v) ==
    /\ sets < MaxSets /\ sets' = sets + 1
    /\ dirty' = Put(dirty, m, Over(dirty[m], [c \in {f} |-> v]))
    /\ assigned' = [assigned EXCEPT ![m] = @ \cup {f}]
    /\ raced' = [raced EXCEPT ![m] = IF doing[m] \in {"sent", "saved"} THEN @ \cup {f} ELSE @]
    /\ UNCHANGED <<row, exists, attributes, original, doing, sent, stored, found>>

\* new_from_builder(): the row is the raw attributes and the original.
Hydrated(k) == Over(row[k], [f \in {"id"} |-> k])
Fresh(m, ex, raw, dir, orig) ==
    /\ Becomes(m, ex, raw, dir, orig)
    /\ stored' = Put(stored, m, orig) /\ raced' = Put(raced, m, {})
    /\ assigned' = Put(assigned, m, DOMAIN (IF ex THEN dir ELSE raw))
Load(m, k) ==
    /\ doing[m] = "none" /\ k \in Stored
    /\ Fresh(m, TRUE, Hydrated(k), Nothing, Hydrated(k))
    /\ UNCHANGED <<row, doing, sent, sets, found>>

At(m, from, to) == doing[m] = from /\ doing' = Put(doing, m, to)
Save(m) == At(m, "none", "saving") /\ UNCHANGED <<row, inst, sent, history>>

\* perform_update(): the observers of "updating", of which one stamps u.
Updating(m) ==
    /\ At(m, "saving", IF GetDirty(m) = Nothing THEN "saved" ELSE "updating") /\ exists[m]
    /\ dirty' = IF GetDirty(m) = Nothing \/ "u" \in DOMAIN GetDirty(m) THEN dirty
                ELSE Put(dirty, m, Over(dirty[m], [c \in {"u"} |-> CHOOSE v \in Vals: ~Same(v, GetAttributes(m)["u"])]))
    /\ UNCHANGED <<row, exists, attributes, original, sent, history>>
Update(m) ==
    /\ At(m, "updating", IF GetDirty(m) = Nothing THEN "saved" ELSE "sent")
    /\ sent' = Put(sent, m, GetDirty(m))
    /\ UNCHANGED <<row, inst, history>>
Updated(m) ==
    /\ At(m, "sent", "saved") /\ exists[m]
    /\ LET k == GetAttributes(m)["id"] IN
         /\ row' = IF row[k] = Absent THEN row ELSE [row EXCEPT ![k] = Over(@, Only(sent[m], Columns))]
         /\ made' = IF "x" \in DOMAIN sent[m] THEN [made EXCEPT ![k] = Absent] ELSE made
    /\ stored' = Put(stored, m, Over(stored[m], sent[m]))
    /\ UNCHANGED <<inst, sent, sets, raced, assigned, seeking, overlapped>>

\* perform_insert(): the observers of "creating" stamp u when it is not given.
Creating(m) ==
    /\ At(m, "saving", "creating") /\ ~exists[m]
    /\ dirty' = IF "u" \in DOMAIN GetAttributes(m) THEN dirty
                ELSE Put(dirty, m, Over(dirty[m], [c \in {"u"} |-> CHOOSE v \in Vals: TRUE]))
    /\ UNCHANGED <<row, exists, attributes, original, sent, history>>
Insert(m) ==
    /\ At(m, "creating", "sent") /\ ~exists[m]
    /\ sent' = Put(sent, m, GetAttributes(m))
    /\ UNCHANGED <<row, inst, history>>
Inserted(m) ==
    /\ At(m, "sent", "saved") /\ ~exists[m]
    /\ \E k \in Keys \ Stored:
         /\ "id" \in DOMAIN sent[m] => k = sent[m]["id"]
         /\ row' = [row EXCEPT ![k] = [c \in Columns |-> IF c \in DOMAIN sent[m] THEN sent[m][c] ELSE Absent]]
         /\ attributes' = Put(attributes, m, Over(attributes[m], [c \in {"id"} |-> k]))
         /\ dirty' = Put(dirty, m, Over(dirty[m], [c \in {"id"} |-> k]))
         /\ stored' = Put(stored, m, Over(sent[m], [c \in {"id"} |-> k]))
         /\ made' = IF "x" \notin DOMAIN dirty[m] THEN [made EXCEPT ![k] = seeking[m]] ELSE made
    /\ exists' = Put(exists, m, TRUE)
    /\ UNCHANGED <<original, sent, sets, raced, assigned, seeking, overlapped>>

SyncOriginal(m) == GetAttributes(m)
\* finish_saving(): the observers of "saved", then everything is the original.
FinishSaving(m) ==
    /\ At(m, "saved", "none")
    /\ Becomes(m, exists[m], GetAttributes(m), Nothing, SyncOriginal(m))
    /\ assigned' = Put(assigned, m, {})
    /\ seeking' = Put(seeking, m, Absent) /\ sent' = Put(sent, m, Nothing)
    /\ UNCHANGED <<row, sets, stored, raced, overlapped, made>>

\* An observer or the statement raises: the save ends there.
Fail(m) ==
    /\ doing[m] # "none" /\ doing' = Put(doing, m, "none")
    /\ seeking' = Put(seeking, m, Absent)
    /\ raced' = [raced EXCEPT ![m] = IF doing[m] = "saved" THEN @ \cup DOMAIN sent[m] ELSE @]
    /\ sent' = Put(sent, m, Nothing)
    /\ UNCHANGED <<row, inst, sets, stored, assigned, overlapped, made>>

\* A careless form of the next definition: what else is dirty is sent as well.
TouchAndSave(m) ==
    /\ At(m, "none", "touching") /\ exists[m]
    /\ \E v \in Vals: sent' = Put(sent, m, Over(GetDirty(m), [c \in {"u"} |-> v]))
    /\ UNCHANGED <<row, inst, history>>
\* touch(): one column, and nothing else of the instance is stored or synced.
Touch(m) ==
    /\ At(m, "none", "touching") /\ exists[m]
    /\ \E v \in Vals: sent' = Put(sent, m, [c \in {"u"} |-> v])
    /\ UNCHANGED <<row, inst, history>>
TouchedOriginal(m) == Over(original[m], sent[m])
Touched(m) ==
    /\ At(m, "touching", "none")
    /\ LET k == GetAttributes(m)["id"] IN
         row' = IF row[k] = Absent THEN row ELSE [row EXCEPT ![k] = Over(@, sent[m])]
    /\ attributes' = Put(attributes, m, Over(attributes[m], sent[m]))
    /\ original' = Put(original, m, TouchedOriginal(m))
    /\ stored' = Put(stored, m, Over(stored[m], sent[m]))
    /\ UNCHANGED <<exists, dirty, sent, sets, raced, assigned, found>>

Deleting(m) == At(m, "none", "deleting") /\ exists[m] /\ UNCHANGED <<row, inst, sent, history>>
Delete(m) ==
    /\ At(m, "deleting", "none")
    /\ row' = [row EXCEPT ![GetAttributes(m)["id"]] = Absent]
    /\ made' = [made EXCEPT ![GetAttributes(m)["id"]] = Absent]
    /\ exists' = Put(exists, m, FALSE)
    /\ UNCHANGED <<attributes, dirty, original, sent, sets, stored, raced, assigned, seeking, overlapped>>

\* first_or_create() and update_or_create(): the first row found, filled with
\* the other attributes if any and saved, or a new instance, which is saved.
\* In a new one the values searched for win over the attributes.
\* Its mutant: the attributes win.
CreatedGivenWins(search, given) == Over(search, given)
Created(search, given) == Over(given, search)
Find(m, v, given, update) ==
    /\ doing[m] = "none"
    /\ LET matching == {k \in Stored: row[k]["x"] = v}
           k == CHOOSE k \in matching: \A j \in matching: k <= j
       IN  IF matching # {}
           THEN /\ Fresh(m, TRUE, Hydrated(k), IF update THEN given ELSE Nothing, Hydrated(k))
                /\ doing' = Put(doing, m, IF update /\ given # Nothing THEN "saving" ELSE "none")
                /\ UNCHANGED found
           ELSE /\ Fresh(m, FALSE, Created([c \in {"x"} |-> v], given), Nothing, Nothing)
                /\ doing' = Put(doing, m, "saving")
                /\ seeking' = Put(seeking, m, v)
                /\ overlapped' = IF \E o \in Instances: seeking[o] = v THEN overlapped \cup {v} ELSE overlapped
                /\ UNCHANGED made
    /\ UNCHANGED <<row, sent, sets>>

Given == {Nothing, [c \in {"y"} |-> CHOOSE v \in Vals: TRUE], [c \in {"x"} |-> CHOOSE v \in Vals: TRUE]}
Saves(m) == \/ Updating(m) \/ Update(m) \/ Updated(m) \/ Creating(m) \/ Insert(m) \/ Inserted(m) \/ FinishSaving(m) \/ Fail(m)
Edits(m) == \/ Save(m) \/ Touch(m) \/ Touched(m) \/ Deleting(m) \/ Delete(m)
            \/ \E k \in Keys: Load(m, k)
            \/ \E f \in {"x", "y"}, v \in Vals: SetAttribute(m, f, v)
Seeks(m) == \E v \in Vals, given \in Given, update \in BOOLEAN: Find(m, v, given, update)
Next == \E m \in Instances: Saves(m) \/ Edits(m) \/ Seeks(m)
Spec == Init /\ [][Next]_vars

-------------------------------------------------------------------------------
\* Between saves, a column the instance calls clean holds what the instance last
\* read from its row or wrote to it, up to equivalence: whichever observer or
\* statement raised, touch() or save() was interleaved, no assignment is
\* forgotten.  Left out are the columns assigned while a statement was under
\* way, which finish_saving() marks clean unsent, and those of a statement whose
\* observers raised, which leave the original behind the row (model.py 459-537,
\* 552-558).
CleanIsStored ==
    \A m \in Instances: doing[m] = "none" /\ exists[m] =>
      \A f \in DOMAIN GetAttributes(m) \ raced[m]:
        f \in DOMAIN GetDirty(m) \/ (f \in DOMAIN stored[m] /\ Same(GetAttributes(m)[f], stored[m][f]))

\* A save overwrites no column that was not assigned on its own instance: of two
\* tasks that loaded the same row, neither undoes the other's column with its
\* stale copy (attribute.py 66-92, model.py 526-537).
OnlyOwnColumns ==
    [][\A k \in Keys, c \in {"x", "y"}:
         row[k] # Absent /\ row'[k] # Absent /\ row'[k][c] # row[k][c]
         => \E m \in Instances: doing[m] = "sent" /\ c \in assigned[m]]_vars

\* Calls of first_or_create() or update_or_create() that do not overlap never
\* make a second row for the value they look for (builder.py 444-458).
OneRowAlone ==
    \A v \in Vals \ overlapped:
      Cardinality({k \in Stored: made[k] = v}) <= 1
===============================================================================
