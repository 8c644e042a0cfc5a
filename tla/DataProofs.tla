------------------------------- MODULE DataProofs -------------------------------
(* Proofs about the modules of the database: Models, for any instances, keys   *)
(* and values, and Migrator, for any processes, migrations and statements.     *)
EXTENDS Models, Migrator, TLAPS, WellFoundedInduction, FiniteSetTheorems

Doings == {"none", "saving", "updating", "creating", "sent", "saved", "touching", "deleting"}
InValues(f) == \A c \in DOMAIN f : f[c] \in Values

\* The state of an instance, and of the table.
Kept(m) ==
    /\ exists[m] \in BOOLEAN /\ doing[m] \in Doings
    /\ InValues(attributes[m]) /\ InValues(dirty[m]) /\ InValues(original[m]) /\ InValues(stored[m]) /\ InValues(sent[m])
    /\ DOMAIN original[m] \subseteq DOMAIN attributes[m]
    /\ exists[m] \/ doing[m] \in {"creating", "sent"} => "u" \in DOMAIN attributes[m] \cup DOMAIN dirty[m]
    /\ doing[m] \in {"updating", "saved", "touching"} => exists[m]
    /\ doing[m] = "touching" => DOMAIN sent[m] = {"u"}
Table ==
    /\ DOMAIN row = Keys /\ \A k \in Stored : DOMAIN row[k] = Columns /\ InValues(row[k])
    /\ DOMAIN exists = Instances /\ DOMAIN attributes = Instances /\ DOMAIN dirty = Instances /\ DOMAIN original = Instances
    /\ DOMAIN doing = Instances /\ DOMAIN sent = Instances /\ DOMAIN stored = Instances /\ DOMAIN raced = Instances
    /\ DOMAIN assigned = Instances /\ DOMAIN seeking = Instances /\ DOMAIN made = Keys

(* Only what was assigned is dirty, or sent for an update.                    *)
Assigned(m) ==
    /\ \A c \in {"x", "y"} : c \in DOMAIN GetDirty(m) => c \in assigned[m]
    /\ \A c \in {"x", "y"} : doing[m] = "sent" /\ exists[m] /\ c \in DOMAIN sent[m] => c \in assigned[m]

(* How what an instance holds, its original, its statement and what is stored  *)
(* of it agree, by where its save is.                                          *)
Agrees(f, c, g) == c \in DOMAIN g /\ Same(f[c], g[c])
Synced(m) ==
    /\ exists[m] =>
         \A c \in DOMAIN original[m] \ raced[m] :
           (doing[m] = "saved" /\ c \in DOMAIN sent[m]) \/ Agrees(original[m], c, stored[m])
    /\ doing[m] = "saved" => \A c \in DOMAIN GetAttributes(m) \ raced[m] : Agrees(GetAttributes(m), c, stored[m])
    /\ doing[m] = "sent" => \A c \in DOMAIN GetAttributes(m) \ raced[m] :
         IF c \in DOMAIN sent[m] THEN sent[m][c] = GetAttributes(m)[c]
         ELSE exists[m] /\ Agrees(GetAttributes(m), c, original[m])
    /\ doing[m] = "sent" /\ ~exists[m] => DOMAIN original[m] \subseteq DOMAIN sent[m]
Whole(m) == Kept(m) /\ Assigned(m) /\ Synced(m)
ModelsInv == Table /\ \A m \in Instances : Whole(m)
-----------------------------------------------------------------------------
LEMMA Layered ==
    \A f, g : /\ DOMAIN Over(f, g) = DOMAIN f \cup DOMAIN g
              /\ \A c \in DOMAIN f \cup DOMAIN g : Over(f, g)[c] = IF c \in DOMAIN g THEN g[c] ELSE f[c]
  BY DEF Over

LEMMA Dirty ==
    \A m \in Instances :
      /\ DOMAIN GetAttributes(m) = DOMAIN attributes[m] \cup DOMAIN dirty[m]
      /\ \A c \in DOMAIN GetAttributes(m) : GetAttributes(m)[c] = IF c \in DOMAIN dirty[m] THEN dirty[m][c] ELSE attributes[m][c]
      /\ \A c : c \in DOMAIN GetDirty(m) <=> c \in DOMAIN GetAttributes(m) /\ ~Agrees(GetAttributes(m), c, original[m])
      /\ \A c \in DOMAIN GetDirty(m) : GetDirty(m)[c] = GetAttributes(m)[c]
<1> SUFFICES ASSUME NEW m \in Instances
    PROVE /\ DOMAIN GetAttributes(m) = DOMAIN attributes[m] \cup DOMAIN dirty[m]
          /\ \A c \in DOMAIN GetAttributes(m) : GetAttributes(m)[c] = IF c \in DOMAIN dirty[m] THEN dirty[m][c] ELSE attributes[m][c]
          /\ \A c : c \in DOMAIN GetDirty(m) <=> c \in DOMAIN GetAttributes(m) /\ ~Agrees(GetAttributes(m), c, original[m])
          /\ \A c \in DOMAIN GetDirty(m) : GetDirty(m)[c] = GetAttributes(m)[c]
  OBVIOUS
<1>1. /\ DOMAIN GetAttributes(m) = DOMAIN attributes[m] \cup DOMAIN dirty[m]
      /\ \A c \in DOMAIN GetAttributes(m) : GetAttributes(m)[c] = IF c \in DOMAIN dirty[m] THEN dirty[m][c] ELSE attributes[m][c]
  <2>1. /\ DOMAIN Over(attributes[m], dirty[m]) = DOMAIN attributes[m] \cup DOMAIN dirty[m]
        /\ \A c \in DOMAIN attributes[m] \cup DOMAIN dirty[m] :
             Over(attributes[m], dirty[m])[c] = IF c \in DOMAIN dirty[m] THEN dirty[m][c] ELSE attributes[m][c]
    BY Layered, Zenon
  <2>2. GetAttributes(m) = Over(attributes[m], dirty[m]) BY DEF GetAttributes
  <2> HIDE DEF GetAttributes
  <2> QED BY <2>1, <2>2
<1>2. /\ \A c : c \in DOMAIN GetDirty(m) <=> c \in DOMAIN GetAttributes(m) /\ ~Agrees(GetAttributes(m), c, original[m])
      /\ \A c \in DOMAIN GetDirty(m) : GetDirty(m)[c] = GetAttributes(m)[c]
  BY DEF GetDirty, Only, OriginalIsEquivalent, Agrees
<1> QED BY <1>1, <1>2

LEMMA DirtyNext ==
    \A m \in Instances :
      /\ DOMAIN GetAttributes(m)' = DOMAIN attributes'[m] \cup DOMAIN dirty'[m]
      /\ \A c \in DOMAIN GetAttributes(m)' : GetAttributes(m)'[c] = IF c \in DOMAIN dirty'[m] THEN dirty'[m][c] ELSE attributes'[m][c]
      /\ \A c : c \in DOMAIN GetDirty(m)' <=> c \in DOMAIN GetAttributes(m)' /\ ~Agrees(GetAttributes(m)', c, original'[m])
      /\ \A c \in DOMAIN GetDirty(m)' : GetDirty(m)'[c] = GetAttributes(m)'[c]
<1> SUFFICES ASSUME NEW m \in Instances
    PROVE /\ DOMAIN GetAttributes(m)' = DOMAIN attributes'[m] \cup DOMAIN dirty'[m]
          /\ \A c \in DOMAIN GetAttributes(m)' : GetAttributes(m)'[c] = IF c \in DOMAIN dirty'[m] THEN dirty'[m][c] ELSE attributes'[m][c]
          /\ \A c : c \in DOMAIN GetDirty(m)' <=> c \in DOMAIN GetAttributes(m)' /\ ~Agrees(GetAttributes(m)', c, original'[m])
          /\ \A c \in DOMAIN GetDirty(m)' : GetDirty(m)'[c] = GetAttributes(m)'[c]
  OBVIOUS
<1>1. /\ DOMAIN GetAttributes(m)' = DOMAIN attributes'[m] \cup DOMAIN dirty'[m]
      /\ \A c \in DOMAIN GetAttributes(m)' : GetAttributes(m)'[c] = IF c \in DOMAIN dirty'[m] THEN dirty'[m][c] ELSE attributes'[m][c]
  <2>1. /\ DOMAIN Over(attributes'[m], dirty'[m]) = DOMAIN attributes'[m] \cup DOMAIN dirty'[m]
        /\ \A c \in DOMAIN attributes'[m] \cup DOMAIN dirty'[m] :
             Over(attributes'[m], dirty'[m])[c] = IF c \in DOMAIN dirty'[m] THEN dirty'[m][c] ELSE attributes'[m][c]
    BY Layered, Zenon
  <2>2. GetAttributes(m)' = Over(attributes'[m], dirty'[m]) BY DEF GetAttributes
  <2> HIDE DEF GetAttributes
  <2> QED BY <2>1, <2>2
<1>2. /\ \A c : c \in DOMAIN GetDirty(m)' <=> c \in DOMAIN GetAttributes(m)' /\ ~Agrees(GetAttributes(m)', c, original'[m])
      /\ \A c \in DOMAIN GetDirty(m)' : GetDirty(m)'[c] = GetAttributes(m)'[c]
  BY DEF GetDirty, Only, OriginalIsEquivalent, Agrees
<1> QED BY <1>1, <1>2

LEMMA Held ==
    ASSUME NEW m \in Instances, Kept(m)
    PROVE  InValues(GetAttributes(m)) /\ InValues(GetDirty(m))
<1>1. ASSUME NEW c \in DOMAIN GetAttributes(m) PROVE GetAttributes(m)[c] \in Values
  <2>1. DOMAIN GetAttributes(m) = DOMAIN attributes[m] \cup DOMAIN dirty[m] BY Dirty, Zenon
  <2>2. GetAttributes(m)[c] = IF c \in DOMAIN dirty[m] THEN dirty[m][c] ELSE attributes[m][c] BY Dirty
  <2>3. InValues(attributes[m]) /\ InValues(dirty[m]) BY DEF Kept
  <2> QED BY <2>1, <2>2, <2>3 DEF InValues
<1>2. \A c \in DOMAIN GetDirty(m) : c \in DOMAIN GetAttributes(m) /\ GetDirty(m)[c] = GetAttributes(m)[c] BY Dirty
<1> QED BY <1>1, <1>2 DEF InValues

(* The other instances of a step.                                             *)
Others(m) == \A n \in Instances \ {m} :
    /\ exists'[n] = exists[n] /\ attributes'[n] = attributes[n] /\ dirty'[n] = dirty[n] /\ original'[n] = original[n]
    /\ doing'[n] = doing[n] /\ sent'[n] = sent[n] /\ stored'[n] = stored[n] /\ raced'[n] = raced[n] /\ assigned'[n] = assigned[n]
LEMMA OthersStay ==
    ASSUME NEW m \in Instances, NEW n \in Instances \ {m}, Others(m), Whole(n)
    PROVE  Whole(n)'
<1>1. GetAttributes(n)' = GetAttributes(n) BY DEF Others, GetAttributes
<1>2. GetDirty(n)' = GetDirty(n) BY <1>1 DEF Others, GetDirty, OriginalIsEquivalent
<1>3. Kept(n)' BY DEF Whole, Others, Kept, InValues
<1>4. Assigned(n)' BY <1>2 DEF Whole, Others, Assigned
<1>5. Synced(n)' BY <1>1 DEF Whole, Others, Synced, Agrees
<1> QED BY <1>3, <1>4, <1>5 DEF Whole

(* A step from one place of a save to another.                                *)
LEMMA MovesOn ==
    ASSUME Table, NEW m \in Instances, NEW from, NEW to, At(m, from, to)
    PROVE  /\ doing[m] = from /\ doing'[m] = to /\ DOMAIN doing' = Instances
           /\ \A n \in Instances \ {m} : doing'[n] = doing[n]
  BY DEF Table, At, Put

LEMMA Begins ==
    ASSUME ModelsInv, NEW m \in Instances, Save(m) \/ Deleting(m)
    PROVE  Table' /\ Whole(m)' /\ Others(m)
<1>1. At(m, "none", "saving") \/ At(m, "none", "deleting") BY DEF Save, Deleting
<1>2. doing[m] = "none" /\ doing'[m] \in {"saving", "deleting"} /\ DOMAIN doing' = Instances
      /\ \A n \in Instances \ {m} : doing'[n] = doing[n]
  BY <1>1, MovesOn DEF ModelsInv
<1>3. UNCHANGED <<row, inst, sent, history>> BY DEF Save, Deleting
<1>4. GetAttributes(m)' = GetAttributes(m) /\ GetDirty(m)' = GetDirty(m)
  BY <1>3 DEF inst, GetAttributes, GetDirty, OriginalIsEquivalent
<1>5. Table' BY <1>2, <1>3 DEF ModelsInv, Table, Stored, inst, history, found, InValues
<1>6. Others(m) BY <1>2, <1>3 DEF Others, inst, history, found
<1>7. Kept(m)' BY <1>2, <1>3 DEF ModelsInv, Whole, Kept, Doings, InValues, inst, history, found
<1>8. Assigned(m)' BY <1>2, <1>3, <1>4 DEF ModelsInv, Whole, Assigned, inst, history, found
<1>9. Synced(m)' BY <1>2, <1>3, <1>4 DEF ModelsInv, Whole, Synced, Agrees, inst, history, found
<1> QED BY <1>5, <1>6, <1>7, <1>8, <1>9 DEF Whole

(* What nothing changed since the original agrees with what is stored.        *)
LEMMA CleanAgrees ==
    ASSUME ValuesCompare, NEW m \in Instances, Whole(m), exists[m], doing[m] # "saved",
           NEW c \in DOMAIN GetAttributes(m) \ raced[m], c \notin DOMAIN GetDirty(m)
    PROVE  Agrees(GetAttributes(m), c, stored[m])
<1>1. Agrees(GetAttributes(m), c, original[m]) BY Dirty
<1>2. Agrees(original[m], c, stored[m]) BY <1>1 DEF Whole, Synced, Agrees
<1>3. GetAttributes(m)[c] \in Values BY Held DEF Whole, InValues
<1>4. original[m][c] \in Values /\ stored[m][c] \in Values BY <1>1, <1>2 DEF Whole, Kept, InValues, Agrees
<1> QED BY <1>1, <1>2, <1>3, <1>4 DEF Agrees, ValuesCompare

LEMMA UpdateStep ==
    ASSUME ValuesCompare, ModelsInv, NEW m \in Instances, Update(m)
    PROVE  Table' /\ Whole(m)' /\ Others(m)
<1>1. /\ doing[m] = "updating" /\ doing'[m] = (IF GetDirty(m) = Nothing THEN "saved" ELSE "sent")
      /\ DOMAIN doing' = Instances /\ \A n \in Instances \ {m} : doing'[n] = doing[n]
  BY MovesOn DEF ModelsInv, Update
<1>2. UNCHANGED <<row, inst, history>> BY DEF Update
<1>3. DOMAIN sent' = Instances /\ sent'[m] = GetDirty(m) /\ \A n \in Instances \ {m} : sent'[n] = sent[n]
  BY DEF Update, Put, ModelsInv, Table
<1>4. GetAttributes(m)' = GetAttributes(m) /\ GetDirty(m)' = GetDirty(m)
  BY <1>2 DEF inst, GetAttributes, GetDirty, OriginalIsEquivalent
<1>5. Table' BY <1>1, <1>2, <1>3 DEF ModelsInv, Table, Stored, inst, history, found, InValues
<1>6. Others(m) BY <1>1, <1>2, <1>3 DEF Others, inst, history, found
<1>7. Whole(m) /\ exists[m] BY <1>1 DEF ModelsInv, Whole, Kept
<1>8. InValues(sent'[m])
  BY <1>3, <1>7, Held DEF Whole
<1>9. Kept(m)' BY <1>1, <1>2, <1>7, <1>8 DEF Whole, Kept, Doings, InValues, inst, history, found
<1>10. Assigned(m)' BY <1>1, <1>2, <1>3, <1>4, <1>7 DEF Whole, Assigned, inst, history, found
<1>11. \A c \in DOMAIN original[m] \ raced[m] : Agrees(original[m], c, stored[m]) BY <1>1, <1>7 DEF Whole, Synced
<1>12. \A c \in DOMAIN GetAttributes(m) \ DOMAIN GetDirty(m) : Agrees(GetAttributes(m), c, original[m]) BY Dirty
<1>13. GetDirty(m) = Nothing => \A c \in DOMAIN GetAttributes(m) \ raced[m] : Agrees(GetAttributes(m), c, stored[m])
  <2>1. GetDirty(m) = Nothing => DOMAIN GetDirty(m) = {} BY DEF Nothing
  <2>2. ASSUME GetDirty(m) = Nothing, NEW c \in DOMAIN GetAttributes(m) \ raced[m] PROVE Agrees(GetAttributes(m), c, stored[m])
    BY <1>1, <1>7, <2>1, <2>2, CleanAgrees
  <2> QED BY <2>2
<1>14. Synced(m)'
  <2>1. exists'[m] /\ original' = original /\ raced' = raced /\ stored' = stored BY <1>2, <1>7 DEF inst, history
  <2>2. \A c \in DOMAIN GetDirty(m) : GetDirty(m)[c] = GetAttributes(m)[c] BY Dirty
  <2>3. CASE GetDirty(m) = Nothing
    BY <1>1, <1>4, <1>11, <1>13, <2>1, <2>3 DEF Synced, Agrees
  <2>4. CASE GetDirty(m) # Nothing
    BY <1>1, <1>3, <1>4, <1>11, <1>12, <2>1, <2>2, <2>4 DEF Synced, Agrees
  <2> QED BY <2>3, <2>4
<1> QED BY <1>5, <1>6, <1>9, <1>10, <1>14 DEF Whole

(* What an observer stamps: the column u of what is dirty.                    *)
LEMMA Stamps ==
    ASSUME ModelsInv, NEW m \in Instances, NEW v \in Values, doing[m] # "sent", doing[m] # "saved",
           dirty' = Put(dirty, m, Over(dirty[m], [c \in {"u"} |-> v])),
           UNCHANGED <<row, exists, attributes, original, sent, history>>, DOMAIN doing' = Instances,
           \A n \in Instances \ {m} : doing'[n] = doing[n],
           doing'[m] \in {"updating", "creating"}, doing'[m] = "updating" => exists[m]
    PROVE  Table' /\ Whole(m)' /\ Others(m)
<1>1. DOMAIN dirty' = Instances /\ \A n \in Instances \ {m} : dirty'[n] = dirty[n] BY DEF Put, ModelsInv, Table
<1>2. /\ DOMAIN dirty'[m] = DOMAIN dirty[m] \cup {"u"}
      /\ \A c \in DOMAIN dirty'[m] : dirty'[m][c] = IF c = "u" THEN v ELSE dirty[m][c]
  <2>1. dirty'[m] = Over(dirty[m], [c \in {"u"} |-> v]) BY DEF Put, ModelsInv, Table
  <2> DEFINE stamp == [c \in {"u"} |-> v]
  <2>2. DOMAIN stamp = {"u"} /\ stamp["u"] = v OBVIOUS
  <2>3. /\ DOMAIN Over(dirty[m], stamp) = DOMAIN dirty[m] \cup DOMAIN stamp
        /\ \A c \in DOMAIN dirty[m] \cup DOMAIN stamp : Over(dirty[m], stamp)[c] = IF c \in DOMAIN stamp THEN stamp[c] ELSE dirty[m][c]
    BY Layered, Zenon
  <2> HIDE DEF stamp
  <2> QED BY <2>1, <2>2, <2>3 DEF stamp
<1>3. Whole(m) BY DEF ModelsInv
<1>4. Table' BY <1>1 DEF ModelsInv, Table, Stored, history, found, InValues
<1>5. Others(m) BY <1>1 DEF Others, history, found
<1>6. Kept(m)' BY <1>2, <1>3 DEF Whole, Kept, Doings, InValues, history, found
<1>7. Assigned(m)'
  <2>1. \A c \in {"x", "y"} : c \in DOMAIN GetDirty(m)' => c \in DOMAIN GetDirty(m)
    <3> SUFFICES ASSUME NEW c \in {"x", "y"}, c \in DOMAIN GetDirty(m)' PROVE c \in DOMAIN GetDirty(m) OBVIOUS
    <3>1. c \in DOMAIN GetAttributes(m)' /\ ~Agrees(GetAttributes(m)', c, original'[m]) BY DirtyNext
    <3>2. DOMAIN GetAttributes(m)' = DOMAIN attributes[m] \cup DOMAIN dirty'[m] BY DirtyNext, Zenon
    <3>3. DOMAIN GetAttributes(m) = DOMAIN attributes[m] \cup DOMAIN dirty[m] BY Dirty, Zenon
    <3>4. c \in DOMAIN GetAttributes(m) BY <1>2, <3>1, <3>2, <3>3
    <3>5. GetAttributes(m)'[c] = IF c \in DOMAIN dirty'[m] THEN dirty'[m][c] ELSE attributes[m][c]
      <4>1. \A d \in DOMAIN GetAttributes(m)' :
              GetAttributes(m)'[d] = IF d \in DOMAIN dirty'[m] THEN dirty'[m][d] ELSE attributes'[m][d]
        BY DirtyNext, Zenon
      <4>2. c \in DOMAIN GetAttributes(m)' BY <3>1
      <4> HIDE DEF GetAttributes
      <4> QED BY <4>1, <4>2
    <3>6. GetAttributes(m)[c] = IF c \in DOMAIN dirty[m] THEN dirty[m][c] ELSE attributes[m][c] BY <3>4, Dirty
    <3>7. GetAttributes(m)'[c] = GetAttributes(m)[c] BY <1>2, <3>5, <3>6
    <3> QED BY <3>1, <3>4, <3>7, Dirty DEF Agrees
  <2> QED BY <1>3, <2>1 DEF Whole, Assigned, history
<1>8. Synced(m)' BY <1>3 DEF Whole, Synced, Agrees, history, Kept
<1> QED BY <1>4, <1>5, <1>6, <1>7, <1>8 DEF Whole

LEMMA StampIn == ASSUME ValuesCompare PROVE (CHOOSE v \in Vals : TRUE) \in Values
<1>1. Absent \in Values BY DEF Values
<1>2. \E v \in Vals : TRUE BY <1>1 DEF ValuesCompare
<1> QED BY <1>2 DEF Values

LEMMA UpdatingStep ==
    ASSUME ValuesCompare, ModelsInv, NEW m \in Instances, Updating(m)
    PROVE  Table' /\ Whole(m)' /\ Others(m)
<1>1. /\ doing[m] = "saving" /\ doing'[m] = (IF GetDirty(m) = Nothing THEN "saved" ELSE "updating")
      /\ DOMAIN doing' = Instances /\ \A n \in Instances \ {m} : doing'[n] = doing[n]
  BY MovesOn DEF ModelsInv, Updating
<1>2. exists[m] /\ UNCHANGED <<row, exists, attributes, original, sent, history>> BY DEF Updating
<1>3. Whole(m) BY DEF ModelsInv
<1>4. CASE dirty' = dirty
  <2>1. GetAttributes(m)' = GetAttributes(m) /\ GetDirty(m)' = GetDirty(m)
    BY <1>2, <1>4 DEF GetAttributes, GetDirty, OriginalIsEquivalent
  <2>2. Table' BY <1>1, <1>2, <1>4 DEF ModelsInv, Table, Stored, history, found, InValues
  <2>3. Others(m) BY <1>1, <1>2, <1>4 DEF Others, history, found
  <2>4. Kept(m)' BY <1>1, <1>2, <1>3, <1>4 DEF Whole, Kept, Doings, InValues, history, found
  <2>5. Assigned(m)' BY <1>1, <1>2, <1>3, <1>4, <2>1 DEF Whole, Assigned, history, found
  <2>6. GetDirty(m) = Nothing => \A c \in DOMAIN GetAttributes(m) \ raced[m] : Agrees(GetAttributes(m), c, stored[m])
    <3>1. GetDirty(m) = Nothing => DOMAIN GetDirty(m) = {} BY DEF Nothing
    <3>2. ASSUME GetDirty(m) = Nothing, NEW c \in DOMAIN GetAttributes(m) \ raced[m] PROVE Agrees(GetAttributes(m), c, stored[m])
      BY <1>1, <1>2, <1>3, <3>1, <3>2, CleanAgrees
    <3> QED BY <3>2
  <2>7. Synced(m)' BY <1>1, <1>2, <1>3, <1>4, <2>1, <2>6 DEF Whole, Synced, Agrees, history, found
  <2> QED BY <2>2, <2>3, <2>4, <2>5, <2>7 DEF Whole
<1>5. CASE dirty' # dirty
  <2> DEFINE v == CHOOSE v \in Vals : ~Same(v, GetAttributes(m)["u"])
  <2>1. dirty' = Put(dirty, m, Over(dirty[m], [c \in {"u"} |-> v])) /\ GetDirty(m) # Nothing BY <1>5 DEF Updating
  <2>2. "u" \in DOMAIN GetAttributes(m)
    <3>1. DOMAIN GetAttributes(m) = DOMAIN attributes[m] \cup DOMAIN dirty[m] BY Dirty, Zenon
    <3> QED BY <1>2, <1>3, <3>1 DEF Whole, Kept
  <2>3. GetAttributes(m)["u"] \in Values BY <1>3, <2>2, Held DEF Whole, InValues
  <2>4. v \in Values
    <3>1. \E w \in Vals : ~Same(w, GetAttributes(m)["u"]) BY <2>3 DEF ValuesCompare
    <3> QED BY <3>1 DEF Values
  <2> HIDE DEF v
  <2> QED BY <1>1, <1>2, <2>1, <2>4, Stamps
<1> QED BY <1>4, <1>5

LEMMA CreatingStep ==
    ASSUME ValuesCompare, ModelsInv, NEW m \in Instances, Creating(m)
    PROVE  Table' /\ Whole(m)' /\ Others(m)
<1>1. /\ doing[m] = "saving" /\ doing'[m] = "creating"
      /\ DOMAIN doing' = Instances /\ \A n \in Instances \ {m} : doing'[n] = doing[n]
  BY MovesOn DEF ModelsInv, Creating
<1>2. ~exists[m] /\ UNCHANGED <<row, exists, attributes, original, sent, history>> BY DEF Creating
<1>3. Whole(m) BY DEF ModelsInv
<1>4. CASE "u" \in DOMAIN GetAttributes(m)
  <2>1. dirty' = dirty BY <1>4 DEF Creating
  <2>2. GetAttributes(m)' = GetAttributes(m) /\ GetDirty(m)' = GetDirty(m)
    BY <1>2, <2>1 DEF GetAttributes, GetDirty, OriginalIsEquivalent
  <2>3. DOMAIN GetAttributes(m) = DOMAIN attributes[m] \cup DOMAIN dirty[m] BY Dirty, Zenon
  <2>4. Table' BY <1>1, <1>2, <2>1 DEF ModelsInv, Table, Stored, history, found, InValues
  <2>5. Others(m) BY <1>1, <1>2, <2>1 DEF Others, history, found
  <2>6. Kept(m)' BY <1>1, <1>2, <1>3, <1>4, <2>1, <2>3 DEF Whole, Kept, Doings, InValues, history, found
  <2>7. Assigned(m)' BY <1>1, <1>2, <1>3, <2>1, <2>2 DEF Whole, Assigned, history, found
  <2>8. Synced(m)' BY <1>1, <1>2, <1>3, <2>1, <2>2 DEF Whole, Synced, Agrees, history, found
  <2> QED BY <2>4, <2>5, <2>6, <2>7, <2>8 DEF Whole
<1>5. CASE "u" \notin DOMAIN GetAttributes(m)
  <2> DEFINE v == CHOOSE v \in Vals : TRUE
  <2>1. dirty' = Put(dirty, m, Over(dirty[m], [c \in {"u"} |-> v])) BY <1>5 DEF Creating
  <2>2. v \in Values BY StampIn
  <2> HIDE DEF v
  <2> QED BY <1>1, <1>2, <2>1, <2>2, Stamps
<1> QED BY <1>4, <1>5

LEMMA InsertStep ==
    ASSUME ValuesCompare, ModelsInv, NEW m \in Instances, Insert(m)
    PROVE  Table' /\ Whole(m)' /\ Others(m)
<1>1. /\ doing[m] = "creating" /\ doing'[m] = "sent"
      /\ DOMAIN doing' = Instances /\ \A n \in Instances \ {m} : doing'[n] = doing[n]
  BY MovesOn DEF ModelsInv, Insert
<1>2. ~exists[m] /\ UNCHANGED <<row, inst, history>> BY DEF Insert
<1>3. DOMAIN sent' = Instances /\ sent'[m] = GetAttributes(m) /\ \A n \in Instances \ {m} : sent'[n] = sent[n]
  BY DEF Insert, Put, ModelsInv, Table
<1>4. GetAttributes(m)' = GetAttributes(m) /\ GetDirty(m)' = GetDirty(m)
  BY <1>2 DEF inst, GetAttributes, GetDirty, OriginalIsEquivalent
<1>5. Table' BY <1>1, <1>2, <1>3 DEF ModelsInv, Table, Stored, inst, history, found, InValues
<1>6. Others(m) BY <1>1, <1>2, <1>3 DEF Others, inst, history, found
<1>7. Whole(m) BY DEF ModelsInv
<1>8. InValues(sent'[m]) BY <1>3, <1>7, Held DEF Whole
<1>9. Kept(m)' BY <1>1, <1>2, <1>7, <1>8 DEF Whole, Kept, Doings, InValues, inst, history, found
<1>10. Assigned(m)' BY <1>1, <1>2, <1>3, <1>4, <1>7 DEF Whole, Assigned, inst, history, found
<1>11. DOMAIN GetAttributes(m) = DOMAIN attributes[m] \cup DOMAIN dirty[m] BY Dirty, Zenon
<1>12. Synced(m)'
  <2>1. exists' = exists /\ original' = original /\ raced' = raced /\ stored' = stored BY <1>2 DEF inst, history
  <2>2. DOMAIN original[m] \subseteq DOMAIN sent'[m] BY <1>3, <1>7, <1>11 DEF Whole, Kept
  <2> QED BY <1>1, <1>2, <1>3, <1>4, <2>1, <2>2 DEF Synced
<1> QED BY <1>5, <1>6, <1>9, <1>10, <1>12 DEF Whole

LEMMA TouchStep ==
    ASSUME ValuesCompare, ModelsInv, NEW m \in Instances, Touch(m)
    PROVE  Table' /\ Whole(m)' /\ Others(m)
<1>1. /\ doing[m] = "none" /\ doing'[m] = "touching"
      /\ DOMAIN doing' = Instances /\ \A n \in Instances \ {m} : doing'[n] = doing[n]
  BY MovesOn DEF ModelsInv, Touch
<1>2. exists[m] /\ UNCHANGED <<row, inst, history>> BY DEF Touch
<1>3. PICK v \in Vals : sent' = Put(sent, m, [c \in {"u"} |-> v]) BY DEF Touch
<1>4. DOMAIN sent' = Instances /\ sent'[m] = [c \in {"u"} |-> v] /\ \A n \in Instances \ {m} : sent'[n] = sent[n]
  BY <1>3 DEF Put, ModelsInv, Table
<1>5. GetAttributes(m)' = GetAttributes(m) /\ GetDirty(m)' = GetDirty(m)
  BY <1>2 DEF inst, GetAttributes, GetDirty, OriginalIsEquivalent
<1>6. Table' BY <1>1, <1>2, <1>4 DEF ModelsInv, Table, Stored, inst, history, found, InValues
<1>7. Others(m) BY <1>1, <1>2, <1>4 DEF Others, inst, history, found
<1>8. Whole(m) BY DEF ModelsInv
<1>9. DOMAIN sent'[m] = {"u"} /\ InValues(sent'[m]) BY <1>4 DEF InValues, Values
<1>10. Kept(m)' BY <1>1, <1>2, <1>8, <1>9 DEF Whole, Kept, Doings, InValues, inst, history, found
<1>11. Assigned(m)' BY <1>1, <1>2, <1>5, <1>8 DEF Whole, Assigned, inst, history, found
<1>12. Synced(m)' BY <1>1, <1>2, <1>5, <1>8 DEF Whole, Synced, Agrees, inst, history, found
<1> QED BY <1>6, <1>7, <1>10, <1>11, <1>12 DEF Whole

-----------------------------------------------------------------------------
(* A column that a step leaves alone, and one that it adds.                   *)
LEMMA Unmoved ==
    ASSUME NEW m \in Instances, NEW c,
           c \in DOMAIN attributes'[m] <=> c \in DOMAIN attributes[m], c \in DOMAIN attributes[m] => attributes'[m][c] = attributes[m][c],
           c \in DOMAIN dirty'[m] <=> c \in DOMAIN dirty[m], c \in DOMAIN dirty[m] => dirty'[m][c] = dirty[m][c]
    PROVE  /\ c \in DOMAIN GetAttributes(m)' <=> c \in DOMAIN GetAttributes(m)
           /\ c \in DOMAIN GetAttributes(m) => GetAttributes(m)'[c] = GetAttributes(m)[c]
<1>1. DOMAIN GetAttributes(m) = DOMAIN attributes[m] \cup DOMAIN dirty[m] BY Dirty, Zenon
<1>2. DOMAIN GetAttributes(m)' = DOMAIN attributes'[m] \cup DOMAIN dirty'[m] BY DirtyNext, Zenon
<1>3. \A d \in DOMAIN GetAttributes(m) :
        GetAttributes(m)[d] = IF d \in DOMAIN dirty[m] THEN dirty[m][d] ELSE attributes[m][d]
  BY Dirty, Zenon
<1>4. \A d \in DOMAIN GetAttributes(m)' :
        GetAttributes(m)'[d] = IF d \in DOMAIN dirty'[m] THEN dirty'[m][d] ELSE attributes'[m][d]
  BY DirtyNext, Zenon
<1> HIDE DEF GetAttributes
<1> QED BY <1>1, <1>2, <1>3, <1>4

LEMMA Alike ==
    ASSUME NEW m \in Instances, NEW c,
           c \in DOMAIN GetAttributes(m)' <=> c \in DOMAIN GetAttributes(m),
           c \in DOMAIN GetAttributes(m) => GetAttributes(m)'[c] = GetAttributes(m)[c],
           c \in DOMAIN original'[m] <=> c \in DOMAIN original[m], c \in DOMAIN original[m] => original'[m][c] = original[m][c]
    PROVE  c \in DOMAIN GetDirty(m)' <=> c \in DOMAIN GetDirty(m)
<1>1. c \in DOMAIN GetDirty(m) <=> c \in DOMAIN GetAttributes(m) /\ ~Agrees(GetAttributes(m), c, original[m]) BY Dirty, Zenon
<1>2. c \in DOMAIN GetDirty(m)' <=> c \in DOMAIN GetAttributes(m)' /\ ~Agrees(GetAttributes(m)', c, original'[m]) BY DirtyNext, Zenon
<1> HIDE DEF GetAttributes, GetDirty
<1> QED BY <1>1, <1>2 DEF Agrees

One(f, v) == [c \in {f} |-> v]
LEMMA OneMore ==
    ASSUME NEW d, NEW f, NEW v, NEW to, to = Over(d, One(f, v))
    PROVE  /\ \A c : c \in DOMAIN to <=> c \in DOMAIN d \/ c = f
           /\ to[f] = v /\ \A c \in DOMAIN d : c # f => to[c] = d[c]
<1>1. DOMAIN One(f, v) = {f} /\ One(f, v)[f] = v BY DEF One
<1>2. /\ DOMAIN Over(d, One(f, v)) = DOMAIN d \cup DOMAIN One(f, v)
      /\ \A c \in DOMAIN d \cup DOMAIN One(f, v) : Over(d, One(f, v))[c] = IF c \in DOMAIN One(f, v) THEN One(f, v)[c] ELSE d[c]
  BY Layered, Zenon
<1> QED BY <1>1, <1>2

LEMMA SetStep ==
    ASSUME ValuesCompare, ModelsInv, NEW m \in Instances, NEW f \in {"x", "y"}, NEW v \in Vals, SetAttribute(m, f, v)
    PROVE  Table' /\ Whole(m)' /\ Others(m)
<1>1. UNCHANGED <<row, exists, attributes, original, doing, sent, stored, found>> BY DEF SetAttribute
<1>2. dirty'[m] = Over(dirty[m], [c \in {f} |-> v]) /\ DOMAIN dirty' = Instances /\ \A n \in Instances \ {m} : dirty'[n] = dirty[n]
  BY DEF SetAttribute, Put, ModelsInv, Table
<1>3. /\ \A c : c \in DOMAIN dirty'[m] <=> c \in DOMAIN dirty[m] \/ c = f
      /\ dirty'[m][f] = v /\ \A c \in DOMAIN dirty[m] : c # f => dirty'[m][c] = dirty[m][c]
  <2>1. dirty'[m] = Over(dirty[m], One(f, v)) BY <1>2 DEF One
  <2> QED BY <2>1, OneMore
<1>4. /\ DOMAIN assigned' = Instances /\ DOMAIN raced' = Instances
      /\ assigned'[m] = assigned[m] \cup {f} /\ raced'[m] = IF doing[m] \in {"sent", "saved"} THEN raced[m] \cup {f} ELSE raced[m]
      /\ \A n \in Instances \ {m} : assigned'[n] = assigned[n] /\ raced'[n] = raced[n]
  BY DEF SetAttribute, ModelsInv, Table
<1>5. Whole(m) BY DEF ModelsInv
<1>6. Table' BY <1>1, <1>2, <1>4 DEF ModelsInv, Table, Stored, found, InValues
<1>7. Others(m) BY <1>1, <1>2, <1>4 DEF Others
<1>8. v \in Values BY DEF Values
<1>9. Kept(m)' BY <1>1, <1>3, <1>5, <1>8 DEF Whole, Kept, InValues
<1>10. \A c : c # f =>
         /\ c \in DOMAIN GetAttributes(m)' <=> c \in DOMAIN GetAttributes(m)
         /\ c \in DOMAIN GetAttributes(m) => GetAttributes(m)'[c] = GetAttributes(m)[c]
  BY <1>1, <1>3, Unmoved
<1>11. \A c : c # f => (c \in DOMAIN GetDirty(m)' <=> c \in DOMAIN GetDirty(m)) BY <1>1, <1>10, Alike
<1>12. Assigned(m)' BY <1>1, <1>4, <1>5, <1>11 DEF Whole, Assigned
<1>13. Synced(m)'
  <2>1. raced[m] \subseteq raced'[m] /\ (doing[m] \in {"sent", "saved"} => f \in raced'[m]) BY <1>4
  <2>2. ASSUME doing[m] = "saved", NEW c \in DOMAIN GetAttributes(m)' \ raced'[m] PROVE Agrees(GetAttributes(m)', c, stored[m])
    <3>1. c # f /\ c \in DOMAIN GetAttributes(m) \ raced[m] /\ GetAttributes(m)'[c] = GetAttributes(m)[c] BY <1>10, <2>1, <2>2
    <3> QED BY <1>5, <2>2, <3>1 DEF Whole, Synced, Agrees
  <2>3. ASSUME doing[m] = "sent", NEW c \in DOMAIN GetAttributes(m)' \ raced'[m]
        PROVE  IF c \in DOMAIN sent[m] THEN sent[m][c] = GetAttributes(m)'[c]
               ELSE exists[m] /\ Agrees(GetAttributes(m)', c, original[m])
    <3>1. c # f /\ c \in DOMAIN GetAttributes(m) \ raced[m] /\ GetAttributes(m)'[c] = GetAttributes(m)[c] BY <1>10, <2>1, <2>3
    <3> QED BY <1>5, <2>3, <3>1 DEF Whole, Synced, Agrees
  <2> HIDE DEF GetAttributes
  <2> QED BY <1>1, <1>5, <2>1, <2>2, <2>3 DEF Whole, Synced
<1> QED BY <1>6, <1>7, <1>9, <1>12, <1>13 DEF Whole

LEMMA FailStep ==
    ASSUME ModelsInv, NEW m \in Instances, Fail(m)
    PROVE  Table' /\ Whole(m)' /\ Others(m)
<1>1. /\ DOMAIN doing' = Instances /\ doing'[m] = "none" /\ DOMAIN sent' = Instances /\ sent'[m] = Nothing
      /\ DOMAIN raced' = Instances /\ DOMAIN seeking' = Instances
      /\ raced'[m] = IF doing[m] = "saved" THEN raced[m] \cup DOMAIN sent[m] ELSE raced[m]
      /\ \A n \in Instances \ {m} : doing'[n] = doing[n] /\ sent'[n] = sent[n] /\ raced'[n] = raced[n]
  BY DEF Fail, Put, ModelsInv, Table
<1>2. UNCHANGED <<row, inst, sets, stored, assigned, overlapped, made>> BY DEF Fail
<1>3. GetAttributes(m)' = GetAttributes(m) /\ GetDirty(m)' = GetDirty(m)
  BY <1>2 DEF inst, GetAttributes, GetDirty, OriginalIsEquivalent
<1>4. Whole(m) BY DEF ModelsInv
<1>5. Table' BY <1>1, <1>2 DEF ModelsInv, Table, Stored, inst, InValues
<1>6. Others(m) BY <1>1, <1>2 DEF Others, inst
<1>7. Kept(m)' BY <1>1, <1>2, <1>4 DEF Whole, Kept, Doings, InValues, Nothing, inst
<1>8. Assigned(m)' BY <1>1, <1>2, <1>3, <1>4 DEF Whole, Assigned, inst
<1>9. Synced(m)' BY <1>1, <1>2, <1>4 DEF Whole, Synced, Agrees, inst
<1> QED BY <1>5, <1>6, <1>7, <1>8, <1>9 DEF Whole

LEMMA DeleteStep ==
    ASSUME ValuesCompare, ModelsInv, NEW m \in Instances, Delete(m)
    PROVE  Table' /\ Whole(m)' /\ Others(m)
<1>1. /\ doing[m] = "deleting" /\ doing'[m] = "none" /\ DOMAIN doing' = Instances /\ \A n \in Instances \ {m} : doing'[n] = doing[n]
  BY MovesOn DEF ModelsInv, Delete
<1>2. UNCHANGED <<attributes, dirty, original, sent, sets, stored, raced, assigned, seeking, overlapped>> BY DEF Delete
<1>3. DOMAIN exists' = Instances /\ exists'[m] = FALSE /\ \A n \in Instances \ {m} : exists'[n] = exists[n]
  BY DEF Delete, Put, ModelsInv, Table
<1>4. DOMAIN row' = Keys /\ DOMAIN made' = Keys /\ \A k \in Keys : row'[k] = row[k] \/ row'[k] = Absent
  BY DEF Delete, ModelsInv, Table
<1>5. GetAttributes(m)' = GetAttributes(m) /\ GetDirty(m)' = GetDirty(m)
  BY <1>2 DEF inst, GetAttributes, GetDirty, OriginalIsEquivalent
<1>6. Whole(m) BY DEF ModelsInv
<1>7. Table' BY <1>1, <1>2, <1>3, <1>4 DEF ModelsInv, Table, Stored, InValues
<1>8. Others(m) BY <1>1, <1>2, <1>3 DEF Others
<1>9. Kept(m)' BY <1>1, <1>2, <1>3, <1>6 DEF Whole, Kept, Doings, InValues
<1>10. Assigned(m)' BY <1>1, <1>2, <1>5, <1>6 DEF Whole, Assigned
<1>11. Synced(m)' BY <1>1, <1>3 DEF Synced
<1> QED BY <1>7, <1>8, <1>9, <1>10, <1>11 DEF Whole

LEMMA FinishStep ==
    ASSUME ValuesCompare, ModelsInv, NEW m \in Instances, FinishSaving(m)
    PROVE  Table' /\ Whole(m)' /\ Others(m)
<1>1. /\ doing[m] = "saved" /\ doing'[m] = "none" /\ DOMAIN doing' = Instances /\ \A n \in Instances \ {m} : doing'[n] = doing[n]
  BY MovesOn DEF ModelsInv, FinishSaving
<1>2. UNCHANGED <<row, sets, stored, raced, overlapped, made>> BY DEF FinishSaving
<1>3. /\ DOMAIN exists' = Instances /\ DOMAIN attributes' = Instances /\ DOMAIN dirty' = Instances /\ DOMAIN original' = Instances
      /\ DOMAIN sent' = Instances /\ DOMAIN assigned' = Instances /\ DOMAIN seeking' = Instances
      /\ exists'[m] = exists[m] /\ attributes'[m] = GetAttributes(m) /\ dirty'[m] = Nothing /\ original'[m] = GetAttributes(m)
      /\ sent'[m] = Nothing
      /\ \A n \in Instances \ {m} : /\ exists'[n] = exists[n] /\ attributes'[n] = attributes[n] /\ dirty'[n] = dirty[n]
                                    /\ original'[n] = original[n] /\ sent'[n] = sent[n] /\ assigned'[n] = assigned[n]
  BY DEF FinishSaving, Becomes, SyncOriginal, Put, ModelsInv, Table
<1>4. Whole(m) /\ InValues(GetAttributes(m)) BY Held DEF ModelsInv, Whole
<1>5. Table' BY <1>1, <1>2, <1>3 DEF ModelsInv, Table, Stored, InValues
<1>6. Others(m) BY <1>1, <1>2, <1>3 DEF Others
<1>7. DOMAIN GetAttributes(m) = DOMAIN attributes[m] \cup DOMAIN dirty[m] BY Dirty, Zenon
<1>8. DOMAIN Nothing = {} BY DEF Nothing
<1>9. Kept(m)'
  <2> HIDE DEF GetAttributes
  <2> QED BY <1>1, <1>2, <1>3, <1>4, <1>7, <1>8 DEF Whole, Kept, Doings, InValues
<1>10. \A c : c \notin DOMAIN GetDirty(m)'
  <2> SUFFICES ASSUME NEW c, c \in DOMAIN GetDirty(m)' PROVE FALSE OBVIOUS
  <2>1. c \in DOMAIN GetAttributes(m)' /\ ~Agrees(GetAttributes(m)', c, original'[m]) BY DirtyNext
  <2>2. DOMAIN GetAttributes(m)' = DOMAIN attributes'[m] \cup DOMAIN dirty'[m] BY DirtyNext, Zenon
  <2>3. \A d \in DOMAIN GetAttributes(m)' :
          GetAttributes(m)'[d] = IF d \in DOMAIN dirty'[m] THEN dirty'[m][d] ELSE attributes'[m][d]
    BY DirtyNext, Zenon
  <2> HIDE DEF GetAttributes
  <2>4. c \in DOMAIN GetAttributes(m) /\ GetAttributes(m)'[c] = GetAttributes(m)[c] BY <1>3, <1>8, <2>1, <2>2, <2>3
  <2>5. GetAttributes(m)[c] \in Values BY <1>4, <2>4 DEF InValues
  <2> QED BY <1>3, <2>1, <2>4, <2>5 DEF Agrees, ValuesCompare
<1>11. Assigned(m)' BY <1>1, <1>10 DEF Assigned
<1>12. Synced(m)'
  <2> HIDE DEF GetAttributes
  <2> QED BY <1>1, <1>2, <1>3, <1>4 DEF Whole, Synced, Agrees
<1> QED BY <1>5, <1>6, <1>9, <1>11, <1>12 DEF Whole

-----------------------------------------------------------------------------
(* An UPDATE of the row that GetAttributes(m)["id"] names, if it is there.    *)
LEMMA RowUpdated ==
    ASSUME Table, NEW k, NEW f, InValues(f), DOMAIN f \subseteq Columns,
           row' = IF row[k] = Absent THEN row ELSE [row EXCEPT ![k] = Over(@, f)]
    PROVE  /\ DOMAIN row' = Keys
           /\ \A j \in Keys : row'[j] = row[j] \/ (j \in Stored /\ row'[j] = Over(row[j], f))
           /\ \A j \in Keys : row'[j] # Absent => DOMAIN row'[j] = Columns /\ InValues(row'[j])
           /\ \A j \in Keys : \A c : c \notin DOMAIN f /\ row[j] # Absent /\ c \in Columns => row'[j][c] = row[j][c]
<1>1. DOMAIN row' = Keys /\ \A j \in Keys : row'[j] = row[j] \/ (row[j] # Absent /\ row'[j] = Over(row[j], f))
  <2>1. CASE row[k] = Absent BY <2>1 DEF Table
  <2>2. CASE row[k] # Absent BY <2>2 DEF Table
  <2> QED BY <2>1, <2>2
<1>2. ASSUME NEW j \in Keys, row[j] # Absent, row'[j] = Over(row[j], f)
      PROVE  /\ DOMAIN row'[j] = Columns /\ InValues(row'[j]) /\ \A c \in Columns : c \notin DOMAIN f => row'[j][c] = row[j][c]
  <2>1. DOMAIN row[j] = Columns /\ InValues(row[j]) BY <1>2 DEF Table, Stored
  <2>2. /\ DOMAIN Over(row[j], f) = DOMAIN row[j] \cup DOMAIN f
        /\ \A c \in DOMAIN row[j] \cup DOMAIN f : Over(row[j], f)[c] = IF c \in DOMAIN f THEN f[c] ELSE row[j][c]
    BY Layered, Zenon
  <2> HIDE DEF Columns
  <2> QED BY <1>2, <2>1, <2>2 DEF InValues
<1>3. \A j \in Keys : row'[j] # Absent => DOMAIN row'[j] = Columns /\ InValues(row'[j])
  <2> HIDE DEF Columns
  <2> QED BY <1>1, <1>2 DEF Table, Stored
<1>4. \A j \in Keys : \A c : c \notin DOMAIN f /\ row[j] # Absent /\ c \in Columns => row'[j][c] = row[j][c]
  <2> HIDE DEF Columns
  <2> QED BY <1>1, <1>2
<1>5. \A j \in Keys : row'[j] = row[j] \/ (j \in Stored /\ row'[j] = Over(row[j], f)) BY <1>1 DEF Stored
<1> QED BY <1>1, <1>3, <1>4, <1>5

LEMMA OnlyColumns ==
    ASSUME NEW f, InValues(f)
    PROVE  /\ InValues(Only(f, Columns)) /\ DOMAIN Only(f, Columns) \subseteq Columns
           /\ \A c : c \in DOMAIN Only(f, Columns) => c \in DOMAIN f
  BY DEF InValues, Only

LEMMA UpdatedStep ==
    ASSUME ValuesCompare, ModelsInv, NEW m \in Instances, Updated(m)
    PROVE  /\ Table' /\ Whole(m)' /\ Others(m)
           /\ \A k \in Keys, c \in {"x", "y"} : row[k] # Absent /\ row'[k][c] # row[k][c] => doing[m] = "sent" /\ c \in assigned[m]
           /\ \A k \in Keys : row[k] = Absent => row'[k] = Absent
<1>1. /\ doing[m] = "sent" /\ doing'[m] = "saved" /\ DOMAIN doing' = Instances /\ \A n \in Instances \ {m} : doing'[n] = doing[n]
  BY MovesOn DEF ModelsInv, Updated
<1>2. exists[m] /\ UNCHANGED <<inst, sent, sets, raced, assigned, seeking, overlapped>> BY DEF Updated
<1>3. Whole(m) BY DEF ModelsInv
<1>4. row' = (IF row[GetAttributes(m)["id"]] = Absent THEN row
              ELSE [row EXCEPT ![GetAttributes(m)["id"]] = Over(@, Only(sent[m], Columns))])
  BY DEF Updated
<1>5. DOMAIN made' = Keys BY DEF Updated, ModelsInv, Table
<1>6. /\ InValues(Only(sent[m], Columns)) /\ DOMAIN Only(sent[m], Columns) \subseteq Columns
      /\ \A c : c \in DOMAIN Only(sent[m], Columns) => c \in DOMAIN sent[m]
  BY <1>3, OnlyColumns DEF Whole, Kept
<1>7. /\ DOMAIN row' = Keys
      /\ \A j \in Keys : row'[j] = row[j] \/ (j \in Stored /\ row'[j] = Over(row[j], Only(sent[m], Columns)))
      /\ \A j \in Keys : row'[j] # Absent => DOMAIN row'[j] = Columns /\ InValues(row'[j])
      /\ \A j \in Keys : \A c : c \notin DOMAIN Only(sent[m], Columns) /\ row[j] # Absent /\ c \in Columns => row'[j][c] = row[j][c]
  <2> DEFINE k == GetAttributes(m)["id"]
             f == Only(sent[m], Columns)
  <2>1. row' = (IF row[k] = Absent THEN row ELSE [row EXCEPT ![k] = Over(@, f)]) /\ InValues(f) /\ DOMAIN f \subseteq Columns
    BY <1>4, <1>6
  <2> HIDE DEF k, f
  <2>2. /\ DOMAIN row' = Keys
        /\ \A j \in Keys : row'[j] = row[j] \/ (j \in Stored /\ row'[j] = Over(row[j], f))
        /\ \A j \in Keys : row'[j] # Absent => DOMAIN row'[j] = Columns /\ InValues(row'[j])
        /\ \A j \in Keys : \A c : c \notin DOMAIN f /\ row[j] # Absent /\ c \in Columns => row'[j][c] = row[j][c]
    BY <2>1, RowUpdated DEF ModelsInv
  <2> QED BY <2>2 DEF f
<1>8. DOMAIN stored' = Instances /\ stored'[m] = Over(stored[m], sent[m]) /\ \A n \in Instances \ {m} : stored'[n] = stored[n]
  BY DEF Updated, Put, ModelsInv, Table
<1>9. /\ DOMAIN stored'[m] = DOMAIN stored[m] \cup DOMAIN sent[m]
      /\ \A c \in DOMAIN stored'[m] : stored'[m][c] = IF c \in DOMAIN sent[m] THEN sent[m][c] ELSE stored[m][c]
  <2>1. /\ DOMAIN Over(stored[m], sent[m]) = DOMAIN stored[m] \cup DOMAIN sent[m]
        /\ \A c \in DOMAIN stored[m] \cup DOMAIN sent[m] : Over(stored[m], sent[m])[c] = IF c \in DOMAIN sent[m] THEN sent[m][c] ELSE stored[m][c]
    BY Layered, Zenon
  <2> QED BY <1>8, <2>1
<1>10. GetAttributes(m)' = GetAttributes(m) /\ GetDirty(m)' = GetDirty(m)
  BY <1>2 DEF inst, GetAttributes, GetDirty, OriginalIsEquivalent
<1>11. Table'
  <2> HIDE DEF Columns
  <2> QED BY <1>1, <1>2, <1>5, <1>7, <1>8 DEF ModelsInv, Table, Stored, inst
<1>12. Others(m) BY <1>1, <1>2, <1>8 DEF Others, inst
<1>13. InValues(stored'[m]) BY <1>3, <1>9 DEF Whole, Kept, InValues
<1>14. Kept(m)' BY <1>1, <1>2, <1>3, <1>13 DEF Whole, Kept, Doings, inst
<1>15. Assigned(m)' BY <1>1, <1>2, <1>3, <1>10 DEF Whole, Assigned, inst
<1>16. Synced(m)'
  <2>1. ASSUME NEW c \in DOMAIN original[m] \ raced[m], c \notin DOMAIN sent[m] PROVE Agrees(original[m], c, stored'[m])
    BY <1>1, <1>2, <1>3, <1>9, <2>1 DEF Whole, Synced, Agrees
  <2>2. ASSUME NEW c \in DOMAIN GetAttributes(m) \ raced[m] PROVE Agrees(GetAttributes(m), c, stored'[m])
    <3>1. GetAttributes(m)[c] \in Values BY <1>3, Held DEF Whole, InValues
    <3>2. CASE c \in DOMAIN sent[m]
      <4>1. sent[m][c] = GetAttributes(m)[c] BY <1>1, <1>3, <3>2 DEF Whole, Synced
      <4> QED BY <1>9, <3>1, <3>2, <4>1 DEF Agrees, ValuesCompare
    <3>3. CASE c \notin DOMAIN sent[m]
      <4>1. Agrees(GetAttributes(m), c, original[m]) BY <1>1, <1>3, <3>3 DEF Whole, Synced
      <4>2. Agrees(original[m], c, stored'[m]) BY <2>1, <3>3, <4>1 DEF Agrees
      <4>3. original[m][c] \in Values /\ stored'[m][c] \in Values BY <1>3, <1>13, <4>1, <4>2 DEF Whole, Kept, InValues, Agrees
      <4> QED BY <3>1, <4>1, <4>2, <4>3 DEF Agrees, ValuesCompare
    <3> QED BY <3>2, <3>3
  <2>3. exists' = exists /\ original' = original /\ raced' = raced /\ sent' = sent BY <1>2 DEF inst
  <2> QED BY <1>1, <1>10, <2>1, <2>2, <2>3 DEF Synced
<1>17. \A k \in Keys, c \in {"x", "y"} : row[k] # Absent /\ row'[k][c] # row[k][c] => doing[m] = "sent" /\ c \in assigned[m]
  <2> SUFFICES ASSUME NEW k \in Keys, NEW c \in {"x", "y"}, row[k] # Absent, row'[k][c] # row[k][c] PROVE c \in assigned[m]
    BY <1>1
  <2>1. c \in DOMAIN sent[m] BY <1>6, <1>7 DEF Columns
  <2> QED BY <1>1, <1>2, <1>3, <2>1 DEF Whole, Assigned
<1>18. \A k \in Keys : row[k] = Absent => row'[k] = Absent BY <1>7 DEF Stored
<1> QED BY <1>11, <1>12, <1>14, <1>15, <1>16, <1>17, <1>18 DEF Whole

LEMMA LayeredTo ==
    ASSUME NEW d, NEW f, NEW to, to = Over(d, f)
    PROVE  /\ \A c : c \in DOMAIN to <=> c \in DOMAIN d \/ c \in DOMAIN f
           /\ \A c \in DOMAIN f : to[c] = f[c]
           /\ \A c \in DOMAIN d : c \notin DOMAIN f => to[c] = d[c]
<1>1. DOMAIN Over(d, f) = DOMAIN d \cup DOMAIN f /\ \A c \in DOMAIN d \cup DOMAIN f : Over(d, f)[c] = IF c \in DOMAIN f THEN f[c] ELSE d[c]
  BY Layered, Zenon
<1> QED BY <1>1

LEMMA TouchedStep ==
    ASSUME ValuesCompare, ModelsInv, NEW m \in Instances, Touched(m)
    PROVE  /\ Table' /\ Whole(m)' /\ Others(m)
           /\ \A k \in Keys, c \in {"x", "y"} : row[k] # Absent => row'[k][c] = row[k][c]
           /\ \A k \in Keys : row[k] = Absent => row'[k] = Absent
<1>1. /\ doing[m] = "touching" /\ doing'[m] = "none" /\ DOMAIN doing' = Instances /\ \A n \in Instances \ {m} : doing'[n] = doing[n]
  BY MovesOn DEF ModelsInv, Touched
<1>2. UNCHANGED <<exists, dirty, sent, sets, raced, assigned, found>> BY DEF Touched
<1>3. Whole(m) /\ exists[m] /\ DOMAIN sent[m] = {"u"} /\ InValues(sent[m]) BY <1>1 DEF ModelsInv, Whole, Kept
<1>4. /\ DOMAIN row' = Keys
      /\ \A j \in Keys : row'[j] = row[j] \/ (j \in Stored /\ row'[j] = Over(row[j], sent[m]))
      /\ \A j \in Keys : row'[j] # Absent => DOMAIN row'[j] = Columns /\ InValues(row'[j])
      /\ \A j \in Keys : \A c : c \notin DOMAIN sent[m] /\ row[j] # Absent /\ c \in Columns => row'[j][c] = row[j][c]
  <2> DEFINE k == GetAttributes(m)["id"]
  <2>1. row' = (IF row[k] = Absent THEN row ELSE [row EXCEPT ![k] = Over(@, sent[m])]) BY DEF Touched
  <2>2. DOMAIN sent[m] \subseteq Columns BY <1>3 DEF Columns
  <2> HIDE DEF k
  <2> QED BY <1>3, <2>1, <2>2, RowUpdated DEF ModelsInv
<1>5. /\ DOMAIN stored' = Instances /\ DOMAIN attributes' = Instances /\ DOMAIN original' = Instances
      /\ stored'[m] = Over(stored[m], sent[m]) /\ attributes'[m] = Over(attributes[m], sent[m]) /\ original'[m] = Over(original[m], sent[m])
      /\ \A n \in Instances \ {m} : stored'[n] = stored[n] /\ attributes'[n] = attributes[n] /\ original'[n] = original[n]
  BY DEF Touched, TouchedOriginal, Put, ModelsInv, Table
<1>6. /\ \A c : c \in DOMAIN stored'[m] <=> c \in DOMAIN stored[m] \/ c = "u"
      /\ stored'[m]["u"] = sent[m]["u"] /\ \A c \in DOMAIN stored[m] : c # "u" => stored'[m][c] = stored[m][c]
  BY <1>3, <1>5, LayeredTo
<1>7. /\ \A c : c \in DOMAIN attributes'[m] <=> c \in DOMAIN attributes[m] \/ c = "u"
      /\ attributes'[m]["u"] = sent[m]["u"] /\ \A c \in DOMAIN attributes[m] : c # "u" => attributes'[m][c] = attributes[m][c]
  BY <1>3, <1>5, LayeredTo
<1>8. /\ \A c : c \in DOMAIN original'[m] <=> c \in DOMAIN original[m] \/ c = "u"
      /\ original'[m]["u"] = sent[m]["u"] /\ \A c \in DOMAIN original[m] : c # "u" => original'[m][c] = original[m][c]
  BY <1>3, <1>5, LayeredTo
<1>9. sent[m]["u"] \in Values BY <1>3 DEF InValues
<1>10. Table'
  <2> HIDE DEF Columns
  <2> QED BY <1>1, <1>2, <1>4, <1>5 DEF ModelsInv, Table, Stored, found
<1>11. Others(m) BY <1>1, <1>2, <1>5 DEF Others
<1>12. InValues(stored'[m]) /\ InValues(attributes'[m]) /\ InValues(original'[m])
  BY <1>3, <1>6, <1>7, <1>8, <1>9 DEF Whole, Kept, InValues
<1>13. Kept(m)' BY <1>1, <1>2, <1>3, <1>7, <1>8, <1>12 DEF Whole, Kept, Doings
<1>14. \A c \in {"x", "y"} : c \in DOMAIN GetDirty(m)' <=> c \in DOMAIN GetDirty(m)
  <2> SUFFICES ASSUME NEW c \in {"x", "y"} PROVE c \in DOMAIN GetDirty(m)' <=> c \in DOMAIN GetDirty(m) OBVIOUS
  <2>1. c # "u" OBVIOUS
  <2>2. /\ c \in DOMAIN GetAttributes(m)' <=> c \in DOMAIN GetAttributes(m)
        /\ c \in DOMAIN GetAttributes(m) => GetAttributes(m)'[c] = GetAttributes(m)[c]
    BY <1>2, <1>7, <2>1, Unmoved
  <2> QED BY <1>8, <2>1, <2>2, Alike
<1>15. Assigned(m)' BY <1>1, <1>2, <1>3, <1>14 DEF Whole, Assigned
<1>16. Synced(m)'
  <2>1. ASSUME NEW c \in DOMAIN original'[m] \ raced[m] PROVE Agrees(original'[m], c, stored'[m])
    <3>1. CASE c = "u" BY <1>6, <1>8, <1>9, <3>1 DEF Agrees, ValuesCompare
    <3>2. CASE c # "u"
      <4>1. Agrees(original[m], c, stored[m]) BY <1>1, <1>3, <1>8, <2>1, <3>2 DEF Whole, Synced
      <4> QED BY <1>6, <1>8, <3>2, <4>1 DEF Agrees
    <3> QED BY <3>1, <3>2
  <2> QED BY <1>1, <1>2, <2>1 DEF Synced
<1>17. \A k \in Keys, c \in {"x", "y"} : row[k] # Absent => row'[k][c] = row[k][c] BY <1>3, <1>4 DEF Columns
<1>18. \A k \in Keys : row[k] = Absent => row'[k] = Absent BY <1>4 DEF Stored
<1> QED BY <1>10, <1>11, <1>13, <1>15, <1>16, <1>17, <1>18 DEF Whole

LEMMA InsertedStep ==
    ASSUME ValuesCompare, ModelsInv, NEW m \in Instances, Inserted(m)
    PROVE  /\ Table' /\ Whole(m)' /\ Others(m)
           /\ \A k \in Keys : row[k] # Absent => row'[k] = row[k]
<1>1. /\ doing[m] = "sent" /\ doing'[m] = "saved" /\ DOMAIN doing' = Instances /\ \A n \in Instances \ {m} : doing'[n] = doing[n]
  BY MovesOn DEF ModelsInv, Inserted
<1>2. ~exists[m] /\ UNCHANGED <<original, sent, sets, raced, assigned, seeking, overlapped>> BY DEF Inserted
<1>3. Whole(m) BY DEF ModelsInv
<1>4. PICK k \in Keys \ Stored :
         /\ row' = [row EXCEPT ![k] = [c \in Columns |-> IF c \in DOMAIN sent[m] THEN sent[m][c] ELSE Absent]]
         /\ attributes' = Put(attributes, m, Over(attributes[m], One("id", k)))
         /\ dirty' = Put(dirty, m, Over(dirty[m], One("id", k)))
         /\ stored' = Put(stored, m, Over(sent[m], One("id", k)))
         /\ made' = IF "x" \notin DOMAIN dirty[m] THEN [made EXCEPT ![k] = seeking[m]] ELSE made
  BY DEF Inserted, One
<1>5. /\ DOMAIN row' = Keys /\ \A j \in Keys \ {k} : row'[j] = row[j]
      /\ DOMAIN row'[k] = Columns /\ InValues(row'[k])
  <2>1. DOMAIN row' = Keys /\ \A j \in Keys \ {k} : row'[j] = row[j] BY <1>4 DEF ModelsInv, Table
  <2>2. row'[k] = [c \in Columns |-> IF c \in DOMAIN sent[m] THEN sent[m][c] ELSE Absent] BY <1>4 DEF ModelsInv, Table
  <2>3. InValues(sent[m]) /\ Absent \in Values BY <1>3 DEF Whole, Kept, Values
  <2> QED BY <2>1, <2>2, <2>3 DEF InValues
<1>6. /\ DOMAIN attributes' = Instances /\ DOMAIN dirty' = Instances /\ DOMAIN stored' = Instances /\ DOMAIN exists' = Instances
      /\ DOMAIN made' = Keys
      /\ attributes'[m] = Over(attributes[m], One("id", k)) /\ dirty'[m] = Over(dirty[m], One("id", k))
      /\ stored'[m] = Over(sent[m], One("id", k)) /\ exists'[m] = TRUE
      /\ \A n \in Instances \ {m} : attributes'[n] = attributes[n] /\ dirty'[n] = dirty[n] /\ stored'[n] = stored[n] /\ exists'[n] = exists[n]
  <2>1. exists' = Put(exists, m, TRUE) BY DEF Inserted
  <2> QED BY <1>4, <2>1 DEF Put, ModelsInv, Table
<1>7. /\ \A c : c \in DOMAIN attributes'[m] <=> c \in DOMAIN attributes[m] \/ c = "id"
      /\ attributes'[m]["id"] = k /\ \A c \in DOMAIN attributes[m] : c # "id" => attributes'[m][c] = attributes[m][c]
  BY <1>6, OneMore
<1>8. /\ \A c : c \in DOMAIN dirty'[m] <=> c \in DOMAIN dirty[m] \/ c = "id"
      /\ dirty'[m]["id"] = k /\ \A c \in DOMAIN dirty[m] : c # "id" => dirty'[m][c] = dirty[m][c]
  BY <1>6, OneMore
<1>9. /\ \A c : c \in DOMAIN stored'[m] <=> c \in DOMAIN sent[m] \/ c = "id"
      /\ stored'[m]["id"] = k /\ \A c \in DOMAIN sent[m] : c # "id" => stored'[m][c] = sent[m][c]
  BY <1>6, OneMore
<1>10. k \in Values BY DEF Values
<1>11. Table'
  <2> HIDE DEF Columns
  <2> QED BY <1>1, <1>2, <1>5, <1>6 DEF ModelsInv, Table, Stored
<1>12. Others(m) BY <1>1, <1>2, <1>6 DEF Others
<1>13. InValues(stored'[m]) /\ InValues(attributes'[m]) /\ InValues(dirty'[m])
  BY <1>3, <1>7, <1>8, <1>9, <1>10 DEF Whole, Kept, InValues
<1>14. Kept(m)' BY <1>1, <1>2, <1>3, <1>6, <1>7, <1>8, <1>13 DEF Whole, Kept, Doings
<1>16. \A c \in {"x", "y"} : c \in DOMAIN GetDirty(m)' <=> c \in DOMAIN GetDirty(m)
  <2> SUFFICES ASSUME NEW c \in {"x", "y"} PROVE c \in DOMAIN GetDirty(m)' <=> c \in DOMAIN GetDirty(m) OBVIOUS
  <2>1. c # "id" OBVIOUS
  <2>2. /\ c \in DOMAIN GetAttributes(m)' <=> c \in DOMAIN GetAttributes(m)
        /\ c \in DOMAIN GetAttributes(m) => GetAttributes(m)'[c] = GetAttributes(m)[c]
    BY <1>7, <1>8, <2>1, Unmoved
  <2> QED BY <1>2, <2>2, Alike
<1>17. Assigned(m)' BY <1>1, <1>2, <1>3, <1>16 DEF Whole, Assigned
<1>18. GetAttributes(m)'["id"] = k
  <2>1. DOMAIN GetAttributes(m)' = DOMAIN attributes'[m] \cup DOMAIN dirty'[m] BY DirtyNext, Zenon
  <2>2. \A d \in DOMAIN GetAttributes(m)' :
          GetAttributes(m)'[d] = IF d \in DOMAIN dirty'[m] THEN dirty'[m][d] ELSE attributes'[m][d]
    BY DirtyNext, Zenon
  <2> HIDE DEF GetAttributes
  <2> QED BY <1>8, <2>1, <2>2
<1>19. Synced(m)'
  <2>1. DOMAIN original[m] \subseteq DOMAIN sent[m] BY <1>1, <1>2, <1>3 DEF Whole, Synced
  <2>2. ASSUME NEW c \in DOMAIN GetAttributes(m)' \ raced[m] PROVE Agrees(GetAttributes(m)', c, stored'[m])
    <3>1. CASE c = "id" BY <1>9, <1>10, <1>18, <3>1 DEF Agrees, ValuesCompare
    <3>2. CASE c # "id"
      <4>5. c \in DOMAIN GetAttributes(m)' BY <2>2
      <4>6. /\ c \in DOMAIN GetAttributes(m)' <=> c \in DOMAIN GetAttributes(m)
            /\ c \in DOMAIN GetAttributes(m) => GetAttributes(m)'[c] = GetAttributes(m)[c]
        BY <1>7, <1>8, <3>2, Unmoved
      <4>1. c \in DOMAIN GetAttributes(m) /\ GetAttributes(m)'[c] = GetAttributes(m)[c] BY <4>5, <4>6
      <4>2. c \in DOMAIN sent[m] /\ sent[m][c] = GetAttributes(m)[c] BY <1>1, <1>2, <1>3, <2>2, <4>1 DEF Whole, Synced
      <4>3. GetAttributes(m)[c] \in Values BY <1>3, <4>1, Held DEF Whole, InValues
      <4> QED BY <1>9, <3>2, <4>1, <4>2, <4>3 DEF Agrees, ValuesCompare
    <3> QED BY <3>1, <3>2
  <2> HIDE DEF GetAttributes
  <2> QED BY <1>1, <1>2, <2>1, <2>2 DEF Synced
<1>20. \A j \in Keys : row[j] # Absent => row'[j] = row[j] BY <1>4, <1>5 DEF Stored
<1> QED BY <1>11, <1>12, <1>14, <1>17, <1>19, <1>20 DEF Whole

-----------------------------------------------------------------------------
(* An instance that is loaded, or made anew.                                  *)
LEMMA FreshStep ==
    ASSUME ValuesCompare, ModelsInv, NEW m \in Instances, NEW ex \in BOOLEAN, NEW raw, NEW dir, NEW orig,
           Fresh(m, ex, raw, dir, orig), UNCHANGED <<row, sent, made>>,
           DOMAIN doing' = Instances, doing[m] = "none", doing'[m] \in {"none", "saving"}, \A n \in Instances \ {m} : doing'[n] = doing[n],
           DOMAIN seeking' = Instances,
           InValues(raw), InValues(dir), InValues(orig), DOMAIN orig \subseteq DOMAIN raw,
           ex => "u" \in DOMAIN raw /\ \A c \in DOMAIN raw : c \in DOMAIN orig /\ orig[c] = raw[c],
           ~ex => DOMAIN dir = {}
    PROVE  Table' /\ Whole(m)' /\ Others(m)
<1>1. /\ DOMAIN exists' = Instances /\ DOMAIN attributes' = Instances /\ DOMAIN dirty' = Instances /\ DOMAIN original' = Instances
      /\ DOMAIN stored' = Instances /\ DOMAIN raced' = Instances /\ DOMAIN assigned' = Instances
      /\ exists'[m] = ex /\ attributes'[m] = raw /\ dirty'[m] = dir /\ original'[m] = orig /\ stored'[m] = orig /\ raced'[m] = {}
      /\ assigned'[m] = DOMAIN (IF ex THEN dir ELSE raw)
      /\ \A n \in Instances \ {m} : /\ exists'[n] = exists[n] /\ attributes'[n] = attributes[n] /\ dirty'[n] = dirty[n]
                                    /\ original'[n] = original[n] /\ stored'[n] = stored[n] /\ raced'[n] = raced[n]
                                    /\ assigned'[n] = assigned[n]
  BY DEF Fresh, Becomes, Put, ModelsInv, Table
<1>2. Table'
  <2> HIDE DEF Columns
  <2> QED BY <1>1 DEF ModelsInv, Table, Stored
<1>3. Others(m) BY <1>1 DEF Others
<1>4. Whole(m) BY DEF ModelsInv
<1>5. Kept(m)' BY <1>1, <1>4 DEF Whole, Kept, Doings, InValues
<1>6. ASSUME NEW c \in {"x", "y"}, c \in DOMAIN GetDirty(m)' PROVE c \in assigned'[m]
  <2>1. c \in DOMAIN GetAttributes(m)' /\ ~Agrees(GetAttributes(m)', c, original'[m]) BY <1>6, DirtyNext
  <2>2. DOMAIN GetAttributes(m)' = DOMAIN attributes'[m] \cup DOMAIN dirty'[m] BY DirtyNext, Zenon
  <2>3. \A d \in DOMAIN GetAttributes(m)' :
          GetAttributes(m)'[d] = IF d \in DOMAIN dirty'[m] THEN dirty'[m][d] ELSE attributes'[m][d]
    BY DirtyNext, Zenon
  <2> HIDE DEF GetAttributes
  <2>4. c \in DOMAIN raw \/ c \in DOMAIN dir BY <1>1, <2>1, <2>2
  <2>5. CASE ~ex BY <1>1, <2>4, <2>5
  <2>6. CASE ex
    <3>1. SUFFICES ASSUME c \notin DOMAIN dir PROVE FALSE BY <1>1, <2>6
    <3>2. c \in DOMAIN raw /\ GetAttributes(m)'[c] = raw[c] BY <1>1, <2>1, <2>3, <2>4, <3>1
    <3>3. raw[c] \in Values /\ c \in DOMAIN orig /\ orig[c] = raw[c] BY <2>6, <3>2 DEF InValues
    <3> QED BY <1>1, <2>1, <3>2, <3>3 DEF Agrees, ValuesCompare
  <2> QED BY <2>5, <2>6
<1>7. Assigned(m)' BY <1>6 DEF Assigned
<1>8. Synced(m)'
  <2>1. \A c \in DOMAIN orig : Agrees(orig, c, orig) BY DEF Agrees, InValues, ValuesCompare
  <2> QED BY <1>1, <2>1 DEF Synced
<1> QED BY <1>2, <1>3, <1>5, <1>7, <1>8 DEF Whole

LEMMA RowIsHydrated ==
    ASSUME Table, NEW k \in Stored
    PROVE  InValues(Hydrated(k)) /\ "u" \in DOMAIN Hydrated(k)
<1>1. Hydrated(k) = Over(row[k], One("id", k)) BY DEF Hydrated, One
<1>2. /\ \A c : c \in DOMAIN Hydrated(k) <=> c \in DOMAIN row[k] \/ c = "id"
      /\ Hydrated(k)["id"] = k /\ \A c \in DOMAIN row[k] : c # "id" => Hydrated(k)[c] = row[k][c]
  BY <1>1, OneMore
<1>3. DOMAIN row[k] = Columns /\ InValues(row[k]) BY DEF Table
<1>4. k \in Values BY DEF Stored, Values
<1> QED BY <1>2, <1>3, <1>4 DEF InValues, Columns

LEMMA LoadStep ==
    ASSUME ValuesCompare, ModelsInv, NEW m \in Instances, NEW k \in Keys, Load(m, k)
    PROVE  Table' /\ Whole(m)' /\ Others(m)
<1>1. k \in Stored /\ doing[m] = "none" /\ Fresh(m, TRUE, Hydrated(k), Nothing, Hydrated(k)) /\ UNCHANGED <<row, doing, sent, sets, found>>
  BY DEF Load
<1>2. InValues(Hydrated(k)) /\ "u" \in DOMAIN Hydrated(k) BY <1>1, RowIsHydrated DEF ModelsInv
<1>3. InValues(Nothing) BY DEF InValues, Nothing
<1>4. DOMAIN doing' = Instances /\ DOMAIN seeking' = Instances BY <1>1 DEF ModelsInv, Table, found
<1> DEFINE h == Hydrated(k)
<1>5. Fresh(m, TRUE, h, Nothing, h) /\ InValues(h) /\ "u" \in DOMAIN h BY <1>1, <1>2
<1> HIDE DEF h
<1> QED BY <1>1, <1>3, <1>4, <1>5, FreshStep DEF found

(* A nonempty set of numbers has a smallest one.                              *)
LEMMA Smallest == ASSUME NEW S \in SUBSET Nat, S # {} PROVE \E k \in S : \A j \in S : k <= j
<1> DEFINE R == OpToRel(<, Nat)
<1>1. IsWellFoundedOn(R, Nat) BY NatLessThanWellFounded
<1>2. \A x, y \in S : y < x => <<y, x>> \in R BY DEF OpToRel
<1> HIDE DEF R
<1>3. \E x \in S : \A y \in S : ~ (<<y, x>> \in R) BY <1>1, WFMin
<1>4. PICK x \in S : \A y \in S : ~ (<<y, x>> \in R) BY <1>3
<1>5. \A y \in S : ~ (y < x) BY <1>2, <1>4, Zenon
<1>6. \A y \in S : x <= y BY <1>5
<1> QED BY <1>6

LEMMA GivenIn == ASSUME ValuesCompare, NEW given \in Given PROVE InValues(given)
<1>1. (CHOOSE v \in Vals : TRUE) \in Values BY StampIn
<1> QED BY <1>1 DEF Given, InValues, Nothing

(* What first_or_create() and update_or_create() find, or make.               *)
Matching(v) == {k \in Stored : row[k]["x"] = v}
LEMMA FindStep ==
    ASSUME ValuesCompare, ModelsInv, NEW m \in Instances, NEW v \in Vals, NEW given \in Given, NEW update \in BOOLEAN,
           Find(m, v, given, update)
    PROVE  /\ Table' /\ Whole(m)' /\ Others(m)
           /\ doing[m] = "none" /\ UNCHANGED <<row, made>> /\ doing'[m] \in {"none", "saving"}
           /\ \/ UNCHANGED found
              \/ /\ Matching(v) = {} /\ seeking' = Put(seeking, m, v) /\ doing'[m] = "saving" /\ ~exists'[m]
                 /\ overlapped' = IF \E o \in Instances : seeking[o] = v THEN overlapped \cup {v} ELSE overlapped
                 /\ dirty'[m] = Nothing /\ "x" \in DOMAIN attributes'[m] /\ attributes'[m]["x"] = v
<1>1. doing[m] = "none" /\ UNCHANGED <<row, sent, sets>> BY DEF Find
<1>2. InValues(given) /\ InValues(Nothing) /\ DOMAIN Nothing = {} BY GivenIn DEF InValues, Nothing
<1>3. CASE Matching(v) # {}
  <2> DEFINE k == CHOOSE k \in Matching(v) : \A j \in Matching(v) : k <= j
             h == Hydrated(k)
             dir == IF update THEN given ELSE Nothing
  <2>1. k \in Stored
    <3>1. Matching(v) \in SUBSET Nat BY DEF Matching, Stored, ValuesCompare
    <3>2. \E i \in Matching(v) : \A j \in Matching(v) : i <= j BY <1>3, <3>1, Smallest
    <3>3. k \in Matching(v) BY <3>2
    <3> QED BY <3>3 DEF Matching
  <2>2. Fresh(m, TRUE, h, dir, h) /\ UNCHANGED found /\ \E w \in {"none", "saving"} : doing' = Put(doing, m, w)
    BY <1>3 DEF Find, Matching
  <2>3. InValues(h) /\ "u" \in DOMAIN h BY <2>1, RowIsHydrated DEF ModelsInv
  <2>4. InValues(dir) BY <1>2
  <2>5. DOMAIN doing' = Instances /\ doing'[m] \in {"none", "saving"} /\ \A n \in Instances \ {m} : doing'[n] = doing[n]
    BY <2>2 DEF Put, ModelsInv, Table
  <2>6. DOMAIN seeking' = Instances /\ made' = made BY <2>2 DEF ModelsInv, Table, found
  <2> HIDE DEF h, dir, k
  <2>7. Table' /\ Whole(m)' /\ Others(m) BY <1>1, <2>2, <2>3, <2>4, <2>5, <2>6, FreshStep
  <2> QED BY <1>1, <2>2, <2>5, <2>6, <2>7
<1>4. CASE Matching(v) = {}
  <2> DEFINE raw == Created(One("x", v), given)
  <2>1. /\ Fresh(m, FALSE, raw, Nothing, Nothing) /\ doing' = Put(doing, m, "saving") /\ seeking' = Put(seeking, m, v)
        /\ overlapped' = (IF \E o \in Instances : seeking[o] = v THEN overlapped \cup {v} ELSE overlapped) /\ UNCHANGED made
    BY <1>4 DEF Find, Matching, One
  <2>2. raw = Over(given, One("x", v)) BY DEF Created
  <2>3. /\ \A c : c \in DOMAIN raw <=> c \in DOMAIN given \/ c = "x"
        /\ raw["x"] = v /\ \A c \in DOMAIN given : c # "x" => raw[c] = given[c]
    BY <2>2, OneMore
  <2> HIDE DEF raw
  <2>4. InValues(raw) BY <1>2, <2>3 DEF InValues, Values
  <2>5. DOMAIN doing' = Instances /\ doing'[m] = "saving" /\ \A n \in Instances \ {m} : doing'[n] = doing[n]
    BY <2>1 DEF Put, ModelsInv, Table
  <2>6. DOMAIN seeking' = Instances BY <2>1 DEF Put, ModelsInv, Table
  <2>7. Table' /\ Whole(m)' /\ Others(m) BY <1>1, <1>2, <2>1, <2>4, <2>5, <2>6, FreshStep
  <2>8. ~exists'[m] /\ dirty'[m] = Nothing /\ attributes'[m] = raw BY <2>1 DEF Fresh, Becomes, Put, ModelsInv, Table
  <2> QED BY <1>1, <1>4, <2>1, <2>3, <2>5, <2>7, <2>8
<1> QED BY <1>3, <1>4

-----------------------------------------------------------------------------
LEMMA ModelsInit == ASSUME ValuesCompare PROVE Init => ModelsInv
<1> SUFFICES ASSUME Init PROVE ModelsInv OBVIOUS
<1>1. (CHOOSE v \in Vals : TRUE) \in Values BY StampIn
<1>2. DOMAIN Nothing = {} BY DEF Nothing
<1>3. Table BY <1>1 DEF Init, Table, Stored, InValues
<1>4. \A m \in Instances : Kept(m) BY <1>2 DEF Init, Kept, Doings, InValues
<1>5. \A m \in Instances : \A c : c \notin DOMAIN GetDirty(m)
  <2> SUFFICES ASSUME NEW m \in Instances, NEW c, c \in DOMAIN GetDirty(m) PROVE FALSE OBVIOUS
  <2>1. c \in DOMAIN GetAttributes(m) BY Dirty
  <2>2. DOMAIN GetAttributes(m) = DOMAIN attributes[m] \cup DOMAIN dirty[m] BY Dirty, Zenon
  <2> HIDE DEF GetAttributes
  <2> QED BY <1>2, <2>1, <2>2 DEF Init
<1>6. \A m \in Instances : Assigned(m) BY <1>5 DEF Init, Assigned
<1>7. \A m \in Instances : Synced(m) BY DEF Init, Synced
<1> QED BY <1>3, <1>4, <1>6, <1>7 DEF ModelsInv, Whole

LEMMA ModelsStep ==
    ASSUME ValuesCompare, ModelsInv, [Next]_vars
    PROVE  /\ ModelsInv'
           /\ \A k \in Keys, c \in {"x", "y"} :
                row[k] # Absent /\ row'[k] # Absent /\ row'[k][c] # row[k][c]
                => \E m \in Instances : doing[m] = "sent" /\ c \in assigned[m]
<1>1. ASSUME NEW m \in Instances, Table', Whole(m)', Others(m) PROVE ModelsInv'
  <2>1. \A n \in Instances \ {m} : Whole(n)' BY <1>1, OthersStay DEF ModelsInv
  <2> QED BY <1>1, <2>1 DEF ModelsInv
<1>2. CASE UNCHANGED vars
  <2>1. /\ row' = row /\ exists' = exists /\ attributes' = attributes /\ dirty' = dirty /\ original' = original /\ doing' = doing
        /\ sent' = sent /\ stored' = stored /\ raced' = raced /\ assigned' = assigned /\ seeking' = seeking /\ made' = made
    BY <1>2 DEF vars, inst, history, found
  <2>2. Table' BY <2>1 DEF ModelsInv, Table, Stored, InValues
  <2>3. \A n \in Instances : GetAttributes(n)' = GetAttributes(n) /\ GetDirty(n)' = GetDirty(n)
    BY <2>1 DEF GetAttributes, GetDirty, OriginalIsEquivalent
  <2>4. \A n \in Instances : Whole(n)'
    <3> SUFFICES ASSUME NEW n \in Instances PROVE Whole(n)' OBVIOUS
    <3>1. Kept(n)' BY <2>1 DEF ModelsInv, Whole, Kept, InValues
    <3>2. Assigned(n)' BY <2>1, <2>3 DEF ModelsInv, Whole, Assigned
    <3>3. Synced(n)' BY <2>1, <2>3 DEF ModelsInv, Whole, Synced, Agrees
    <3> QED BY <3>1, <3>2, <3>3 DEF Whole
  <2> QED BY <2>1, <2>2, <2>4 DEF ModelsInv
<1>3. ASSUME NEW m \in Instances, Saves(m) \/ Edits(m) \/ Seeks(m)
      PROVE  /\ ModelsInv'
             /\ \A k \in Keys, c \in {"x", "y"} :
                  row[k] # Absent /\ row'[k] # Absent /\ row'[k][c] # row[k][c] => doing[m] = "sent" /\ c \in assigned[m]
  <2>1. CASE Updating(m) BY <1>1, <2>1, UpdatingStep DEF Updating
  <2>2. CASE Update(m) BY <1>1, <2>2, UpdateStep DEF Update
  <2>3. CASE Updated(m) BY <1>1, <2>3, UpdatedStep
  <2>4. CASE Creating(m) BY <1>1, <2>4, CreatingStep DEF Creating
  <2>5. CASE Insert(m) BY <1>1, <2>5, InsertStep DEF Insert
  <2>6. CASE Inserted(m) BY <1>1, <2>6, InsertedStep
  <2>7. CASE FinishSaving(m) BY <1>1, <2>7, FinishStep DEF FinishSaving
  <2>8. CASE Fail(m) BY <1>1, <2>8, FailStep DEF Fail
  <2>9. CASE Save(m) BY <1>1, <2>9, Begins DEF Save
  <2>10. CASE Touch(m) BY <1>1, <2>10, TouchStep DEF Touch
  <2>11. CASE Touched(m) BY <1>1, <2>11, TouchedStep
  <2>12. CASE Deleting(m) BY <1>1, <2>12, Begins DEF Deleting
  <2>13. CASE Delete(m)
    <3>1. ModelsInv' BY <1>1, <2>13, DeleteStep
    <3>2. \A k \in Keys : row'[k] = row[k] \/ row'[k] = Absent BY <2>13 DEF Delete, ModelsInv, Table
    <3> QED BY <3>1, <3>2
  <2>14. ASSUME NEW k \in Keys, Load(m, k) PROVE ModelsInv' /\ row' = row BY <1>1, <2>14, LoadStep DEF Load
  <2>15. ASSUME NEW f \in {"x", "y"}, NEW v \in Vals, SetAttribute(m, f, v) PROVE ModelsInv' /\ row' = row
    BY <1>1, <2>15, SetStep DEF SetAttribute
  <2>16. ASSUME NEW v \in Vals, NEW given \in Given, NEW update \in BOOLEAN, Find(m, v, given, update) PROVE ModelsInv' /\ row' = row
    <3>1. Table' /\ Whole(m)' /\ Others(m) /\ UNCHANGED <<row, made>> BY <2>16, FindStep
    <3> QED BY <1>1, <3>1
  <2>17. CASE Saves(m) BY <2>17, <2>1, <2>2, <2>3, <2>4, <2>5, <2>6, <2>7, <2>8 DEF Saves
  <2>18. CASE Edits(m) BY <2>18, <2>9, <2>10, <2>11, <2>12, <2>13, <2>14, <2>15 DEF Edits
  <2>19. CASE Seeks(m) BY <2>19, <2>16 DEF Seeks
  <2> QED BY <1>3, <2>17, <2>18, <2>19
<1>4. CASE Next
  <2>1. PICK m \in Instances : Saves(m) \/ Edits(m) \/ Seeks(m) BY <1>4 DEF Next
  <2> QED BY <1>3, <2>1
<1> QED BY <1>2, <1>4

(* A save overwrites no column that was not assigned on its own instance,     *)
(* whatever instances of the row are loaded, assigned, saved, touched and       *)
(* deleted in between, and whichever saves fail.                               *)
THEOREM OthersColumnsKept == ASSUME ValuesCompare PROVE Spec => OnlyOwnColumns
<1>1. Init => ModelsInv BY ModelsInit
<1>2. ModelsInv /\ [Next]_vars => ModelsInv' BY ModelsStep
<1>3. ModelsInv /\ [Next]_vars =>
        [\A k \in Keys, c \in {"x", "y"} :
           row[k] # Absent /\ row'[k] # Absent /\ row'[k][c] # row[k][c]
           => \E m \in Instances : doing[m] = "sent" /\ c \in assigned[m]]_vars
  BY ModelsStep
<1> QED BY <1>1, <1>2, <1>3, PTL DEF Spec, OnlyOwnColumns

(* Between saves, what an instance calls clean is what it last read from its   *)
(* row or wrote to it, but for the columns assigned while a statement was under *)
(* way, or of a statement whose observers raised.                              *)
THEOREM CleanMeansStored == ASSUME ValuesCompare PROVE Spec => []CleanIsStored
<1>1. Init => ModelsInv BY ModelsInit
<1>2. ModelsInv /\ [Next]_vars => ModelsInv' BY ModelsStep
<1>3. ModelsInv => CleanIsStored
  <2> SUFFICES ASSUME ModelsInv, NEW m \in Instances, doing[m] = "none", exists[m], NEW f \in DOMAIN GetAttributes(m) \ raced[m],
                      f \notin DOMAIN GetDirty(m)
               PROVE  f \in DOMAIN stored[m] /\ Same(GetAttributes(m)[f], stored[m][f])
    BY DEF CleanIsStored
  <2>1. Agrees(GetAttributes(m), f, stored[m]) BY CleanAgrees DEF ModelsInv
  <2> QED BY <2>1 DEF Agrees
<1> QED BY <1>1, <1>2, <1>3, PTL DEF Spec

-----------------------------------------------------------------------------
(* What a call that found nothing inserts has the value it looked for.        *)
Searching(m) ==
    /\ seeking[m] \in Vals \cup {Absent}
    /\ seeking[m] # Absent => (doing[m] \in {"saving", "creating", "sent"} /\ ~exists[m]) \/ doing[m] = "saved"
    /\ seeking[m] # Absent /\ doing[m] # "saved" /\ "x" \notin DOMAIN dirty[m] =>
         "x" \in DOMAIN attributes[m] /\ attributes[m]["x"] = seeking[m]
    /\ seeking[m] # Absent /\ doing[m] = "sent" /\ "x" \notin DOMAIN dirty[m] =>
         "x" \in DOMAIN sent[m] /\ sent[m]["x"] = seeking[m]
(* A row that was made for a value has it still; two rows, two calls, or a row *)
(* and a call, for one value have overlapped.                                  *)
MadeOnce ==
    /\ \A k \in Keys : made[k] # Absent => k \in Stored /\ row[k]["x"] = made[k]
    /\ \A m, n \in Instances : m # n /\ seeking[m] # Absent /\ seeking[m] = seeking[n] => seeking[m] \in overlapped
    /\ \A m \in Instances, k \in Keys :
         seeking[m] # Absent /\ doing[m] # "saved" /\ made[k] = seeking[m] => seeking[m] \in overlapped
    /\ \A k, l \in Keys : k # l /\ made[k] # Absent /\ made[k] = made[l] => made[k] \in overlapped
MadeInv == ModelsInv /\ (\A m \in Instances : Searching(m)) /\ MadeOnce

LEMMA MadeInit == ASSUME ValuesCompare PROVE Init => MadeInv
<1> SUFFICES ASSUME Init PROVE MadeInv OBVIOUS
<1>1. ModelsInv BY ModelsInit
<1>2. \A m \in Instances : seeking[m] = Absent BY DEF Init
<1>3. \A k \in Keys : made[k] = Absent BY DEF Init
<1>4. \A m \in Instances : Searching(m) BY <1>2 DEF Searching
<1>5. MadeOnce BY <1>2, <1>3 DEF MadeOnce
<1> QED BY <1>1, <1>4, <1>5 DEF MadeInv

LEMMA OthersSearch ==
    ASSUME NEW m \in Instances, NEW n \in Instances \ {m}, Others(m), seeking'[n] = seeking[n], Searching(n)
    PROVE  Searching(n)'
  BY DEF Others, Searching

(* A row stays a row.                                                         *)
LEMMA RowStays ==
    ASSUME ValuesCompare, Table, NEW k, NEW f, InValues(f), DOMAIN f \subseteq Columns,
           row' = IF row[k] = Absent THEN row ELSE [row EXCEPT ![k] = Over(@, f)]
    PROVE  \A j \in Keys : row[j] # Absent => row'[j] # Absent
<1> SUFFICES ASSUME NEW j \in Keys, row[j] # Absent, row'[j] = Absent PROVE FALSE OBVIOUS
<1>1. row[j] # row'[j] OBVIOUS
<1>2. row'[j] = Over(row[j], f) BY <1>1 DEF Table
<1>3. DOMAIN row[j] = Columns /\ InValues(row[j]) BY DEF Table, Stored
<1>4. /\ DOMAIN Over(row[j], f) = DOMAIN row[j] \cup DOMAIN f
      /\ \A c \in DOMAIN row[j] \cup DOMAIN f : Over(row[j], f)[c] = IF c \in DOMAIN f THEN f[c] ELSE row[j][c]
  BY Layered, Zenon
<1>5. \A c \in Columns : Over(row[j], f)[c] \in Values /\ DOMAIN Over(row[j], f) = Columns
  <2> HIDE DEF Columns
  <2> QED BY <1>3, <1>4 DEF InValues
<1>6. Over(row[j], f) = [c \in DOMAIN row[j] \cup DOMAIN f |-> IF c \in DOMAIN f THEN f[c] ELSE row[j][c]]
  BY DEF Over
<1>7. Over(row[j], f) \in [Columns -> Values]
  <2> HIDE DEF Columns
  <2>1. DOMAIN row[j] \cup DOMAIN f = Columns BY <1>3
  <2>2. Over(row[j], f) = [c \in Columns |-> Over(row[j], f)[c]] BY <1>6, <2>1
  <2> QED BY <1>5, <2>2
<1> QED BY <1>2, <1>7 DEF ValuesCompare

(* Steps of an instance that make no row, and look for none.                  *)
LEMMA QuietSteps ==
    ASSUME ValuesCompare, MadeInv, NEW m \in Instances, Others(m),
           \/ Save(m) \/ Deleting(m) \/ Updating(m) \/ Update(m) \/ Creating(m) \/ Insert(m) \/ Touch(m)
           \/ (\E k \in Keys : Load(m, k)) \/ (\E f \in {"x", "y"}, v \in Vals : SetAttribute(m, f, v))
    PROVE  (\A n \in Instances : Searching(n)') /\ MadeOnce'
<1>1. UNCHANGED <<row, found>>
  BY DEF Save, Deleting, Updating, Update, Creating, Insert, Touch, Load, SetAttribute, history
<1>2. Searching(m) /\ Whole(m) BY DEF MadeInv, ModelsInv
<1>3. Searching(m)' /\ (doing[m] = "saved" => doing'[m] = "saved" \/ seeking[m] = Absent)
  <2>1. CASE Save(m) \/ Deleting(m)
    <3>1. doing[m] = "none" BY <2>1 DEF Save, Deleting, At
    <3> QED BY <1>1, <1>2, <3>1 DEF Searching, found
  <2>2. CASE Touch(m)
    <3>1. doing[m] = "none" BY <2>2 DEF Touch, At
    <3> QED BY <1>1, <1>2, <3>1 DEF Searching, found
  <2>3. CASE \E k \in Keys : Load(m, k)
    <3>1. doing[m] = "none" BY <2>3 DEF Load
    <3> QED BY <1>1, <1>2, <3>1 DEF Searching, found
  <2>4. CASE Updating(m)
    <3>1. doing[m] = "saving" /\ exists[m] BY <2>4 DEF Updating, At
    <3> QED BY <1>1, <1>2, <3>1 DEF Searching, found
  <2>5. CASE Update(m)
    <3>1. doing[m] = "updating" BY <2>5 DEF Update, At
    <3> QED BY <1>1, <1>2, <3>1 DEF Searching, found
  <2>6. CASE Creating(m)
    <3>1. doing[m] = "saving" /\ doing'[m] = "creating" /\ UNCHANGED <<exists, attributes, sent>>
      BY <2>6 DEF Creating, At, Put, MadeInv, ModelsInv, Table, history
    <3>2. "x" \in DOMAIN dirty[m] => "x" \in DOMAIN dirty'[m]
      <4>1. CASE dirty' = dirty BY <4>1
      <4>2. CASE dirty' = Put(dirty, m, Over(dirty[m], [c \in {"u"} |-> CHOOSE v \in Vals: TRUE]))
        <5> DEFINE w == CHOOSE v \in Vals: TRUE
        <5>1. dirty'[m] = Over(dirty[m], One("u", w)) BY <4>2 DEF Put, MadeInv, ModelsInv, Table, One
        <5> HIDE DEF w
        <5> QED BY <5>1, OneMore
      <4> QED BY <2>6, <4>1, <4>2 DEF Creating
    <3> QED BY <1>1, <1>2, <3>1, <3>2 DEF Searching, found
  <2>7. CASE Insert(m)
    <3>1. doing[m] = "creating" /\ doing'[m] = "sent" /\ UNCHANGED <<exists, attributes, dirty>> /\ sent'[m] = GetAttributes(m)
      BY <2>7 DEF Insert, At, Put, MadeInv, ModelsInv, Table, inst
    <3>2. DOMAIN GetAttributes(m) = DOMAIN attributes[m] \cup DOMAIN dirty[m] BY Dirty, Zenon
    <3>3. \A c \in DOMAIN GetAttributes(m) : GetAttributes(m)[c] = IF c \in DOMAIN dirty[m] THEN dirty[m][c] ELSE attributes[m][c]
      BY Dirty, Zenon
    <3>4. seeking[m] # Absent /\ "x" \notin DOMAIN dirty[m] => "x" \in DOMAIN sent'[m] /\ sent'[m]["x"] = seeking[m]
      <4> HIDE DEF GetAttributes
      <4> QED BY <1>2, <3>1, <3>2, <3>3 DEF Searching
    <3> QED BY <1>1, <1>2, <3>1, <3>4 DEF Searching, found
  <2>8. CASE \E f \in {"x", "y"}, v \in Vals : SetAttribute(m, f, v)
    <3>1. PICK f \in {"x", "y"}, v \in Vals : SetAttribute(m, f, v) BY <2>8
    <3>2. UNCHANGED <<exists, attributes, doing, sent>> /\ dirty'[m] = Over(dirty[m], One(f, v))
      BY <3>1 DEF SetAttribute, Put, One, MadeInv, ModelsInv, Table
    <3>3. "x" \in DOMAIN dirty[m] => "x" \in DOMAIN dirty'[m] BY <3>2, OneMore
    <3> QED BY <1>1, <1>2, <3>2, <3>3 DEF Searching, found
  <2> QED BY <2>1, <2>2, <2>3, <2>4, <2>5, <2>6, <2>7, <2>8
<1>4. \A n \in Instances : Searching(n)' BY <1>1, <1>3, OthersSearch DEF MadeInv, found
<1>5. \A n \in Instances : seeking[n] # Absent /\ doing'[n] # "saved" => doing[n] # "saved" BY <1>3 DEF Others
<1>6. MadeOnce' BY <1>1, <1>5 DEF MadeInv, MadeOnce, Stored, found
<1> QED BY <1>4, <1>6

(* A save that is over, or has failed, looks for nothing.                     *)
LEMMA EndingSteps ==
    ASSUME MadeInv, NEW m \in Instances, Others(m), FinishSaving(m) \/ Fail(m)
    PROVE  (\A n \in Instances : Searching(n)') /\ MadeOnce'
<1>1. UNCHANGED <<row, overlapped, made>> /\ seeking'[m] = Absent /\ \A n \in Instances \ {m} : seeking'[n] = seeking[n]
  BY DEF FinishSaving, Fail, Put, MadeInv, ModelsInv, Table
<1>2. Searching(m)' BY <1>1 DEF Searching
<1>3. \A n \in Instances : Searching(n)' BY <1>1, <1>2, OthersSearch DEF MadeInv
<1>4. MadeOnce' BY <1>1 DEF MadeInv, MadeOnce, Stored, Others
<1> QED BY <1>3, <1>4

(* Rows that are changed keep what they were made for, or are not counted.    *)
LEMMA ChangingSteps ==
    ASSUME ValuesCompare, MadeInv, NEW m \in Instances, Others(m), Updated(m) \/ Touched(m) \/ Delete(m)
    PROVE  (\A n \in Instances : Searching(n)') /\ MadeOnce'
<1>1. UNCHANGED <<seeking, overlapped, dirty, sent>> BY DEF Updated, Touched, Delete, found, inst
<1>2. Searching(m) /\ Whole(m) /\ Table BY DEF MadeInv, ModelsInv
<1>3. seeking[m] = Absent
  <2>1. doing[m] \in {"touching", "deleting"} \/ (doing[m] = "sent" /\ exists[m]) BY DEF Updated, Touched, Delete, At
  <2> QED BY <1>2, <2>1 DEF Searching
<1>4. \A n \in Instances : Searching(n)'
  <2>1. Searching(m)' BY <1>1, <1>2, <1>3 DEF Searching
  <2> QED BY <1>1, <2>1, OthersSearch DEF MadeInv
<1>5. \A k \in Keys : made'[k] = Absent \/ (made'[k] = made[k] /\ (made[k] # Absent => row'[k] # Absent /\ row'[k]["x"] = row[k]["x"]))
  <2>1. CASE Updated(m)
    <3> DEFINE i == GetAttributes(m)["id"]
               f == Only(sent[m], Columns)
    <3>1. row' = (IF row[i] = Absent THEN row ELSE [row EXCEPT ![i] = Over(@, f)]) BY <2>1 DEF Updated
    <3>2. made' = (IF "x" \in DOMAIN sent[m] THEN [made EXCEPT ![i] = Absent] ELSE made) BY <2>1 DEF Updated
    <3>3. InValues(f) /\ DOMAIN f \subseteq Columns /\ ("x" \in DOMAIN f => "x" \in DOMAIN sent[m])
      BY <1>2, OnlyColumns DEF Whole, Kept
    <3> HIDE DEF i, f
    <3>4. \A j \in Keys : \A c : c \notin DOMAIN f /\ row[j] # Absent /\ c \in Columns => row'[j][c] = row[j][c]
      BY <1>2, <3>1, <3>3, RowUpdated
    <3>5. \A j \in Keys : row[j] # Absent => row'[j] # Absent BY <1>2, <3>1, <3>3, RowStays
    <3>6. \A j \in Keys : made'[j] = Absent \/ (made'[j] = made[j] /\ "x" \notin DOMAIN f)
                          \/ (made'[j] = made[j] /\ j # i)
      BY <3>2, <3>3 DEF MadeInv, ModelsInv, Table
    <3>7. \A j \in Keys : j # i => row'[j] = row[j] BY <3>1, <1>2 DEF Table
    <3>8. \A j \in Keys : made[j] # Absent => row[j] # Absent BY DEF MadeInv, MadeOnce, Stored
    <3> QED BY <3>4, <3>5, <3>6, <3>7, <3>8 DEF Columns
  <2>2. CASE Touched(m)
    <3>1. \A k \in Keys : row[k] # Absent => row'[k]["x"] = row[k]["x"] BY <2>2, TouchedStep DEF MadeInv
    <3>2. made' = made BY <2>2 DEF Touched, found
    <3>3. \A k \in Keys : row[k] # Absent => row'[k] # Absent
      <4> DEFINE i == GetAttributes(m)["id"]
      <4>1. row' = (IF row[i] = Absent THEN row ELSE [row EXCEPT ![i] = Over(@, sent[m])]) BY <2>2 DEF Touched
      <4>2. InValues(sent[m]) /\ DOMAIN sent[m] \subseteq Columns
        <5>1. doing[m] = "touching" BY <2>2 DEF Touched, At
        <5> QED BY <1>2, <5>1 DEF Whole, Kept, Columns
      <4> HIDE DEF i
      <4> QED BY <1>2, <4>1, <4>2, RowStays
    <3>4. \A k \in Keys : made[k] # Absent => row[k] # Absent BY DEF MadeInv, MadeOnce, Stored
    <3> QED BY <3>1, <3>2, <3>3, <3>4
  <2>3. CASE Delete(m)
    <3> QED BY <2>3, <1>2 DEF Delete, Table, MadeInv, MadeOnce, Stored
  <2> QED BY <2>1, <2>2, <2>3
<1>6. \A n \in Instances : seeking[n] # Absent /\ doing'[n] # "saved" => doing[n] # "saved" BY <1>3 DEF Others
<1>7. MadeOnce'
  <2>1. \A k \in Keys : made'[k] # Absent => k \in Stored' /\ row'[k]["x"] = made'[k]
    BY <1>5 DEF MadeInv, MadeOnce, Stored
  <2>2. \A i, n \in Instances : i # n /\ seeking'[i] # Absent /\ seeking'[i] = seeking'[n] => seeking'[i] \in overlapped'
    BY <1>1 DEF MadeInv, MadeOnce
  <2>3. \A n \in Instances, k \in Keys :
          seeking'[n] # Absent /\ doing'[n] # "saved" /\ made'[k] = seeking'[n] => seeking'[n] \in overlapped'
    BY <1>1, <1>5, <1>6 DEF MadeInv, MadeOnce
  <2>4. \A k, l \in Keys : k # l /\ made'[k] # Absent /\ made'[k] = made'[l] => made'[k] \in overlapped'
    BY <1>1, <1>5 DEF MadeInv, MadeOnce
  <2> QED BY <2>1, <2>2, <2>3, <2>4 DEF MadeOnce
<1> QED BY <1>4, <1>7

LEMMA InsertedMakes ==
    ASSUME ValuesCompare, MadeInv, NEW m \in Instances, Others(m), Inserted(m)
    PROVE  (\A n \in Instances : Searching(n)') /\ MadeOnce'
<1>1. UNCHANGED <<seeking, overlapped, sent>> /\ doing[m] = "sent" /\ doing'[m] = "saved" /\ ~exists[m]
  BY DEF Inserted, At, Put, MadeInv, ModelsInv, Table
<1>2. Searching(m) /\ Whole(m) /\ Table BY DEF MadeInv, ModelsInv
<1>3. PICK k \in Keys \ Stored :
         /\ row' = [row EXCEPT ![k] = [c \in Columns |-> IF c \in DOMAIN sent[m] THEN sent[m][c] ELSE Absent]]
         /\ made' = IF "x" \notin DOMAIN dirty[m] THEN [made EXCEPT ![k] = seeking[m]] ELSE made
  BY DEF Inserted
<1>4. \A n \in Instances : Searching(n)'
  <2>1. Searching(m)' BY <1>1, <1>2 DEF Searching
  <2> QED BY <1>1, <2>1, OthersSearch DEF MadeInv
<1>5. made[k] = Absent BY <1>3 DEF MadeInv, MadeOnce
<1>6. /\ \A j \in Keys \ {k} : made'[j] = made[j] /\ row'[j] = row[j]
      /\ made'[k] = Absent \/ (made'[k] = seeking[m] /\ "x" \notin DOMAIN dirty[m])
  BY <1>3, <1>5 DEF MadeInv, ModelsInv, Table
<1>7. row'[k] # Absent /\ row'[k]["x"] = IF "x" \in DOMAIN sent[m] THEN sent[m]["x"] ELSE Absent
  <2>1. row'[k] = [c \in Columns |-> IF c \in DOMAIN sent[m] THEN sent[m][c] ELSE Absent] BY <1>2, <1>3 DEF Table
  <2>2. InValues(sent[m]) /\ Absent \in Values BY <1>2 DEF Whole, Kept, Values
  <2>3. row'[k] \in [Columns -> Values] BY <2>1, <2>2 DEF InValues
  <2> QED BY <2>1, <2>3 DEF ValuesCompare, Columns
<1>8. made'[k] # Absent => row'[k]["x"] = made'[k] BY <1>1, <1>2, <1>6, <1>7 DEF Searching
<1>9. MadeOnce'
  <2>1. \A j \in Keys : made'[j] # Absent => j \in Stored' /\ row'[j]["x"] = made'[j]
    BY <1>6, <1>7, <1>8 DEF MadeInv, MadeOnce, Stored
  <2>2. \A i, n \in Instances : i # n /\ seeking'[i] # Absent /\ seeking'[i] = seeking'[n] => seeking'[i] \in overlapped'
    BY <1>1 DEF MadeInv, MadeOnce
  <2>3. \A n \in Instances, j \in Keys :
          seeking'[n] # Absent /\ doing'[n] # "saved" /\ made'[j] = seeking'[n] => seeking'[n] \in overlapped'
    BY <1>1, <1>6 DEF MadeInv, MadeOnce, Others
  <2>4. \A j, l \in Keys : j # l /\ made'[j] # Absent /\ made'[j] = made'[l] => made'[j] \in overlapped'
    BY <1>1, <1>6 DEF MadeInv, MadeOnce
  <2> QED BY <2>1, <2>2, <2>3, <2>4 DEF MadeOnce
<1> QED BY <1>4, <1>9

LEMMA FindingSeeks ==
    ASSUME ValuesCompare, MadeInv, NEW m \in Instances,
           NEW v \in Vals, NEW given \in Given, NEW update \in BOOLEAN, Find(m, v, given, update)
    PROVE  (\A n \in Instances : Searching(n)') /\ MadeOnce'
<1>1. /\ Others(m) /\ doing[m] = "none" /\ UNCHANGED <<row, made>> /\ doing'[m] \in {"none", "saving"}
      /\ \/ UNCHANGED found
         \/ /\ Matching(v) = {} /\ seeking' = Put(seeking, m, v) /\ doing'[m] = "saving" /\ ~exists'[m]
            /\ overlapped' = IF \E o \in Instances : seeking[o] = v THEN overlapped \cup {v} ELSE overlapped
            /\ dirty'[m] = Nothing /\ "x" \in DOMAIN attributes'[m] /\ attributes'[m]["x"] = v
  BY FindStep DEF MadeInv
<1>2. Searching(m) /\ Table BY DEF MadeInv, ModelsInv
<1>3. seeking[m] = Absent BY <1>1, <1>2 DEF Searching
<1>4. CASE UNCHANGED found
  <2>1. seeking' = seeking /\ overlapped' = overlapped BY <1>4 DEF found
  <2>2. Searching(m)' BY <1>2, <1>3, <2>1 DEF Searching
  <2>3. \A n \in Instances : Searching(n)' BY <1>1, <2>1, <2>2, OthersSearch DEF MadeInv
  <2>4. MadeOnce' BY <1>1, <1>3, <2>1 DEF MadeInv, MadeOnce, Stored, Others
  <2> QED BY <2>3, <2>4
<1>5. CASE ~UNCHANGED found
  <2>1. /\ Matching(v) = {} /\ doing'[m] = "saving" /\ ~exists'[m]
        /\ overlapped' = (IF \E o \in Instances : seeking[o] = v THEN overlapped \cup {v} ELSE overlapped)
        /\ dirty'[m] = Nothing /\ "x" \in DOMAIN attributes'[m] /\ attributes'[m]["x"] = v
    BY <1>1, <1>5
  <2>2. seeking'[m] = v /\ \A n \in Instances \ {m} : seeking'[n] = seeking[n] BY <1>1, <1>2, <1>5 DEF Put, Table
  <2>3. Searching(m)' BY <2>1, <2>2 DEF Searching
  <2>4. \A n \in Instances : Searching(n)' BY <1>1, <2>2, <2>3, OthersSearch DEF MadeInv
  <2>5. \A k \in Keys : made[k] # v
    <3> SUFFICES ASSUME NEW k \in Keys, made[k] = v PROVE FALSE OBVIOUS
    <3>1. v # Absent BY DEF ValuesCompare
    <3>2. k \in Stored /\ row[k]["x"] = v BY <3>1 DEF MadeInv, MadeOnce
    <3> QED BY <2>1, <3>2 DEF Matching
  <2>6. overlapped \subseteq overlapped' /\ \A n \in Instances : seeking[n] = v => v \in overlapped' BY <2>1
  <2>7. MadeOnce'
    <3>1. \A j \in Keys : made'[j] # Absent => j \in Stored' /\ row'[j]["x"] = made'[j]
      BY <1>1 DEF MadeInv, MadeOnce, Stored
    <3>2. \A i, n \in Instances : i # n /\ seeking'[i] # Absent /\ seeking'[i] = seeking'[n] => seeking'[i] \in overlapped'
      BY <2>2, <2>6 DEF MadeInv, MadeOnce
    <3>3. \A n \in Instances, j \in Keys :
            seeking'[n] # Absent /\ doing'[n] # "saved" /\ made'[j] = seeking'[n] => seeking'[n] \in overlapped'
      BY <1>1, <2>2, <2>5, <2>6 DEF MadeInv, MadeOnce, Others
    <3>4. \A j, l \in Keys : j # l /\ made'[j] # Absent /\ made'[j] = made'[l] => made'[j] \in overlapped'
      BY <1>1, <2>6 DEF MadeInv, MadeOnce
    <3> QED BY <3>1, <3>2, <3>3, <3>4 DEF MadeOnce
  <2> QED BY <2>4, <2>7
<1> QED BY <1>4, <1>5

LEMMA MadeStep == ASSUME ValuesCompare, MadeInv, [Next]_vars PROVE MadeInv'
<1>1. ModelsInv' BY ModelsStep DEF MadeInv
<1>2. CASE UNCHANGED vars
  <2>1. /\ row' = row /\ exists' = exists /\ attributes' = attributes /\ dirty' = dirty /\ doing' = doing
        /\ sent' = sent /\ seeking' = seeking /\ made' = made /\ overlapped' = overlapped
    BY <1>2 DEF vars, inst, history, found
  <2>2. \A n \in Instances : Searching(n)' BY <2>1 DEF MadeInv, Searching
  <2>3. MadeOnce' BY <2>1 DEF MadeInv, MadeOnce, Stored
  <2> QED BY <1>1, <2>2, <2>3 DEF MadeInv
<1>3. CASE Next
  <2>1. PICK m \in Instances : Saves(m) \/ Edits(m) \/ Seeks(m) BY <1>3 DEF Next
  <2> USE DEF MadeInv
  <2>2. CASE Save(m) \/ Deleting(m) BY <1>1, <2>2, Begins, QuietSteps
  <2>3. CASE Updating(m) BY <1>1, <2>3, UpdatingStep, QuietSteps
  <2>4. CASE Update(m) BY <1>1, <2>4, UpdateStep, QuietSteps
  <2>5. CASE Creating(m) BY <1>1, <2>5, CreatingStep, QuietSteps
  <2>6. CASE Insert(m) BY <1>1, <2>6, InsertStep, QuietSteps
  <2>7. CASE Touch(m) BY <1>1, <2>7, TouchStep, QuietSteps
  <2>8. CASE \E k \in Keys : Load(m, k) BY <1>1, <2>8, LoadStep, QuietSteps
  <2>9. CASE \E f \in {"x", "y"}, v \in Vals : SetAttribute(m, f, v) BY <1>1, <2>9, SetStep, QuietSteps
  <2>10. CASE FinishSaving(m) BY <1>1, <2>10, FinishStep, EndingSteps
  <2>11. CASE Fail(m) BY <1>1, <2>11, FailStep, EndingSteps
  <2>12. CASE Updated(m) BY <1>1, <2>12, UpdatedStep, ChangingSteps
  <2>13. CASE Touched(m) BY <1>1, <2>13, TouchedStep, ChangingSteps
  <2>14. CASE Delete(m) BY <1>1, <2>14, DeleteStep, ChangingSteps
  <2>15. CASE Inserted(m) BY <1>1, <2>15, InsertedStep, InsertedMakes
  <2>16. CASE Seeks(m) BY <1>1, <2>16, FindingSeeks DEF Seeks
  <2> QED BY <2>1, <2>2, <2>3, <2>4, <2>5, <2>6, <2>7, <2>8, <2>9, <2>10, <2>11, <2>12, <2>13, <2>14, <2>15, <2>16
          DEF Saves, Edits
<1> QED BY <1>2, <1>3

(* Calls of first_or_create() and update_or_create() that do not overlap make  *)
(* one row for the value they look for, whatever else is saved, touched,        *)
(* updated and deleted meanwhile.                                              *)
THEOREM OneRowForAValue == ASSUME ValuesCompare PROVE Spec => []OneRowAlone
<1>1. Init => MadeInv BY MadeInit
<1>2. MadeInv /\ [Next]_vars => MadeInv' BY MadeStep
<1>3. MadeInv => OneRowAlone
  <2> SUFFICES ASSUME MadeInv, NEW v \in Vals \ overlapped PROVE Cardinality({k \in Stored : made[k] = v}) <= 1
    BY DEF OneRowAlone
  <2> DEFINE S == {k \in Stored : made[k] = v}
  <2>1. \A k, l \in S : k = l BY DEF MadeInv, MadeOnce, Stored, ValuesCompare
  <2>2. S = {} \/ \E k : S = {k} BY <2>1
  <2>3. Cardinality(S) = 0 \/ Cardinality(S) = 1 BY <2>2, FS_EmptySet, FS_Singleton
  <2> QED BY <2>3
<1> QED BY <1>1, <1>2, <1>3, PTL DEF Spec
-----------------------------------------------------------------------------
(* Migrator *)
\* A process that has begun a migration and not recorded it.
Busy(p, m) == Migration(p) = m /\ (run[p].at = "record" \/ (run[p].at = "up" /\ run[p].step > 0))
Shape ==
    /\ files \subseteq Files /\ DOMAIN run = Migrators /\ DOMAIN tables = Connections /\ DOMAIN rows = Connections
    /\ DOMAIN tables[Used] = Files
    /\ \A p \in Migrators :
         /\ run[p] = [at |-> run[p].at, cmd |-> run[p].cmd, todo |-> run[p].todo, batch |-> run[p].batch, step |-> run[p].step]
         /\ run[p].at \in {"idle", "list", "batch", "up", "record", "ok"} /\ run[p].cmd \in {"migrate", "none"}
         /\ run[p].at = "list" => run[p].cmd = "migrate"
         /\ run[p].step \in 0 .. Statements - 1 /\ (run[p].at # "up" => run[p].step = 0)
    /\ \E S : rows[Used] \in Seq(S)
(* What is begun is not recorded, by one process alone, and applied as far as  *)
(* the process has come; what is recorded is applied completely.               *)
Owned ==
    /\ \A p \in Migrators : \A m : Busy(p, m) =>
         /\ m \in Files /\ m \notin Recorded(Used)
         /\ tables[Used][m] = IF run[p].at = "record" THEN Statements ELSE run[p].step
    /\ \A p, q \in Migrators : \A m : Busy(p, m) /\ Busy(q, m) => p = q
    /\ \A m \in Recorded(Used) : m \in Files /\ tables[Used][m] = Statements
    /\ IsFiniteSet(Recorded(Used)) /\ Cardinality(Recorded(Used)) = Len(rows[Used])
MigratedInv == Shape /\ Owned

LEMMA RecordedAre == \A m : m \in Recorded(Used) <=> \E entry \in ToSet(rows[Used]) : m = entry.migration
  BY Zenon DEF Recorded
LEMMA RecordedAfter == \A m : m \in Recorded(Used)' <=> \E entry \in ToSet(rows'[Used]) : m = entry.migration
  BY Zenon DEF Recorded, Used
LEMMA MigratedInit == ASSUME Statements \in Nat \ {0} PROVE MigratorInit => MigratedInv
<1> SUFFICES ASSUME MigratorInit PROVE MigratedInv OBVIOUS
<1>1. rows[Used] = <<>> BY DEF MigratorInit, Used, Connections
<1>2. Recorded(Used) = {}
  <2>1. ToSet(rows[Used]) = {} BY <1>1 DEF ToSet
  <2> QED BY <2>1, RecordedAre, Zenon
<1>3. Shape BY <1>1 DEF MigratorInit, Shape, Idle, Used, Connections
<1>4. \A p \in Migrators : \A m : ~Busy(p, m) BY DEF Busy, MigratorInit, Idle
<1>5. Cardinality({}) = 0 /\ IsFiniteSet({}) BY FS_EmptySet
<1> QED BY <1>1, <1>2, <1>3, <1>4, <1>5 DEF MigratedInv, Owned

(* Steps that touch neither the tables nor the migrations table, and begin     *)
(* nothing.                                                                    *)
LEMMA OwnedStays ==
    ASSUME Owned, UNCHANGED <<tables, rows>>, \A p \in Migrators : \A m : Busy(p, m)' => Busy(p, m) /\ run'[p] = run[p]
    PROVE  Owned'
  BY DEF Owned, Recorded

LEMMA NothingTouched ==
    ASSUME Statements \in Nat \ {0}, Commands = {"migrate"}, MigratedInv, NEW p \in Migrators,
           Command(p) \/ List(p) \/ ReadBatch(p) \/ Ends(p) \/ Crash(p)
    PROVE  MigratedInv'
<1>0. Shape BY DEF MigratedInv
<1>1. /\ UNCHANGED <<files, tables, rows>> /\ DOMAIN run' = Migrators /\ \A q \in Migrators \ {p} : run'[q] = run[q]
  BY <1>0 DEF Command, List, ReadBatch, Ends, Crash, Set, Goes, Shape
<1>2. /\ run'[p] = [at |-> run'[p].at, cmd |-> run'[p].cmd, todo |-> run'[p].todo, batch |-> run'[p].batch, step |-> run'[p].step]
      /\ run'[p].cmd \in {"migrate", "none"} /\ run'[p].at \in {"idle", "list", "batch", "up", "ok"}
      /\ (run'[p].at = "list" => run'[p].cmd = "migrate") /\ run'[p].step = 0
  <2> DEFINE r == run[p]
  <2>1. /\ r = [at |-> r.at, cmd |-> r.cmd, todo |-> r.todo, batch |-> r.batch, step |-> r.step]
        /\ r.cmd \in {"migrate", "none"} /\ (r.at = "list" => r.cmd = "migrate") /\ (r.at # "up" => r.step = 0)
    BY <1>0 DEF Shape
  <2>2. CASE Command(p)
    <3>1. run'[p] = [Idle EXCEPT !.at = "list", !.cmd = "migrate"] BY <1>0, <2>2 DEF Command, Set, Shape
    <3> QED BY <3>1 DEF Idle
  <2>3. CASE Crash(p)
    <3>1. run'[p] = Idle BY <1>0, <2>3 DEF Crash, Set, Shape
    <3> QED BY <3>1 DEF Idle
  <2>4. CASE ReadBatch(p)
    <3>1. PICK b : run'[p] = [run[p] EXCEPT !.at = "up", !.batch = b]
      BY <1>0, <2>4 DEF ReadBatch, Set, Shape
    <3>2. run'[p] = [at |-> "up", cmd |-> r.cmd, todo |-> r.todo, batch |-> b, step |-> r.step] BY <2>1, <3>1
    <3>3. r.step = 0 BY <2>1, <2>4 DEF ReadBatch, IsAt
    <3> QED BY <2>1, <3>2, <3>3
  <2>5. CASE Ends(p)
    <3>1. run'[p] = [run[p] EXCEPT !.at = "ok", !.step = 0]
      BY <1>0, <2>1, <2>5 DEF Ends, Goes, Set, Shape
    <3>2. run'[p] = [at |-> "ok", cmd |-> r.cmd, todo |-> r.todo, batch |-> r.batch, step |-> 0] BY <2>1, <3>1
    <3> QED BY <2>1, <3>2
  <2>6. CASE List(p)
    <3>1. r.cmd = "migrate" /\ r.step = 0 BY <2>1, <2>6 DEF List, IsAt
    <3> DEFINE w == IF Unran = <<>> THEN "ok" ELSE "batch"
               t == Unran
    <3>2. run'[p] = [run[p] EXCEPT !.at = w, !.todo = t] /\ w \in {"ok", "batch"}
      <4>1. run' = [run EXCEPT ![p] = [run[p] EXCEPT !.at = w, !.todo = t]] BY <2>6, <3>1 DEF List, Set
      <4> HIDE DEF t
      <4> QED BY <1>0, <4>1 DEF Shape
    <3> HIDE DEF w, t
    <3>3. run'[p] = [at |-> w, cmd |-> r.cmd, todo |-> t, batch |-> r.batch, step |-> r.step] BY <2>1, <3>2
    <3> QED BY <2>1, <3>1, <3>2, <3>3
  <2> QED BY <2>2, <2>3, <2>4, <2>5, <2>6
<1>3. Shape' BY <1>0, <1>1, <1>2 DEF Shape, Used
<1>4. \A q \in Migrators : \A m : Busy(q, m)' => Busy(q, m) /\ run'[q] = run[q]
  BY <1>1, <1>2 DEF Busy, Migration
<1>5. Owned' BY <1>1, <1>4, OwnedStays DEF MigratedInv
<1> QED BY <1>3, <1>5 DEF MigratedInv

(* A statement of up() is applied: nobody else is at this migration.           *)
LEMMA UpStep ==
    ASSUME Statements \in Nat \ {0}, MigratedInv, NEW p \in Migrators, Up(p)
    PROVE  MigratedInv'
<1> DEFINE r == run[p]
           m == Migration(p)
<1>0. Shape /\ Owned BY DEF MigratedInv
<1>1. /\ r = [at |-> r.at, cmd |-> r.cmd, todo |-> r.todo, batch |-> r.batch, step |-> r.step]
      /\ r.cmd \in {"migrate", "none"} /\ r.step \in 0 .. Statements - 1 /\ r.at = "up" /\ m \in Files
  BY <1>0 DEF Shape, Up, IsAt
<1>2. CASE ~Applied(p, r.step)
  <2>1. /\ UNCHANGED <<files, tables, rows>> /\ run'[p] = Idle /\ DOMAIN run' = Migrators
        /\ \A q \in Migrators \ {p} : run'[q] = run[q]
    BY <1>0, <1>2 DEF Up, Fails, Set, Shape
  <2>2. Shape' BY <1>0, <2>1 DEF Shape, Used, Idle
  <2>3. \A q \in Migrators : \A n : Busy(q, n)' => Busy(q, n) /\ run'[q] = run[q]
    BY <2>1 DEF Busy, Migration, Idle
  <2> QED BY <1>0, <2>1, <2>2, <2>3, OwnedStays DEF MigratedInv
<1>3. CASE Applied(p, r.step)
  <2> DEFINE k == r.step
  <2>1. /\ tables' = [tables EXCEPT ![Used][m] = k + 1] /\ UNCHANGED <<files, rows>>
        /\ run' = [run EXCEPT ![p] = IF k + 1 = Statements THEN [run[p] EXCEPT !.at = "record", !.step = 0]
                                                            ELSE [run[p] EXCEPT !.step = k + 1]]
    BY <1>3 DEF Up, Apply, Goes, Set
  <2>2. /\ DOMAIN tables' = DOMAIN tables /\ DOMAIN tables'[Used] = Files
        /\ tables'[Used][m] = k + 1 /\ \A n \in Files \ {m} : tables'[Used][n] = tables[Used][n]
    BY <1>0, <1>1, <2>1 DEF Shape, Used, Connections
  <2>3. /\ DOMAIN run' = Migrators /\ \A q \in Migrators \ {p} : run'[q] = run[q]
        /\ run'[p] = [at |-> IF k + 1 = Statements THEN "record" ELSE "up", cmd |-> r.cmd, todo |-> r.todo, batch |-> r.batch,
                       step |-> IF k + 1 = Statements THEN 0 ELSE k + 1]
    <3>1. CASE k + 1 = Statements
      <4>1. run' = [run EXCEPT ![p] = [run[p] EXCEPT !.at = "record", !.step = 0]] BY <2>1, <3>1
      <4>2. run'[p] = [run[p] EXCEPT !.at = "record", !.step = 0] BY <1>0, <4>1 DEF Shape
      <4> QED BY <1>0, <1>1, <3>1, <4>1, <4>2 DEF Shape
    <3>2. CASE k + 1 # Statements
      <4>1. run' = [run EXCEPT ![p] = [run[p] EXCEPT !.step = k + 1]] BY <2>1, <3>2
      <4>2. run'[p] = [run[p] EXCEPT !.step = k + 1] BY <1>0, <4>1 DEF Shape
      <4> QED BY <1>0, <1>1, <3>2, <4>1, <4>2 DEF Shape
    <3> QED BY <3>1, <3>2
  <2>4. Shape' BY <1>0, <1>1, <2>1, <2>2, <2>3 DEF Shape, Used
  <2>5. tables[Used][m] = k BY <1>3 DEF Applied
  <2>6. \A q \in Migrators : Busy(q, m) => q = p
    <3>1. CASE k > 0
      <4>1. Busy(p, m) BY <1>1, <3>1 DEF Busy
      <4> QED BY <1>0, <4>1 DEF Owned
    <3>2. CASE k = 0
      <4>1. \A q \in Migrators : ~Busy(q, m) BY <1>0, <2>5, <3>2 DEF Owned, Busy
      <4> QED BY <4>1
    <3> QED BY <1>1, <3>1, <3>2
  <2>7. m \notin Recorded(Used) BY <1>0, <1>1, <2>5 DEF Owned
  <2>8. Recorded(Used)' = Recorded(Used) BY <2>1 DEF Recorded, Used
  <2>9. \A q \in Migrators \ {p} : \A n : Busy(q, n)' => Busy(q, n) /\ n # m
    BY <2>3, <2>6 DEF Busy, Migration
  <2>10. Busy(p, m)' /\ \A n : Busy(p, n)' => n = m BY <1>1, <2>3 DEF Busy, Migration
  <2>11. \A q \in Migrators : \A n : Busy(q, n)' =>
           /\ n \in Files /\ n \notin Recorded(Used)
           /\ tables'[Used][n] = IF run'[q].at = "record" THEN Statements ELSE run'[q].step
    <3> SUFFICES ASSUME NEW q \in Migrators, NEW n, Busy(q, n)' PROVE
           /\ n \in Files /\ n \notin Recorded(Used)
           /\ tables'[Used][n] = IF run'[q].at = "record" THEN Statements ELSE run'[q].step
      OBVIOUS
    <3>1. CASE q = p BY <1>1, <2>2, <2>3, <2>7, <2>10, <3>1
    <3>2. CASE q # p
      <4>1. Busy(q, n) /\ n # m /\ run'[q] = run[q] BY <2>3, <2>9, <3>2
      <4>2. n \in Files /\ n \notin Recorded(Used)
            /\ tables[Used][n] = IF run[q].at = "record" THEN Statements ELSE run[q].step
        BY <1>0, <4>1 DEF Owned
      <4> QED BY <2>2, <4>1, <4>2
    <3> QED BY <3>1, <3>2
  <2>12. \A q1, q2 \in Migrators : \A n : Busy(q1, n)' /\ Busy(q2, n)' => q1 = q2
    BY <1>0, <2>9, <2>10 DEF Owned
  <2>13. \A n \in Recorded(Used) : n \in Files /\ tables'[Used][n] = Statements
    BY <1>0, <2>2, <2>7 DEF Owned
  <2>14. IsFiniteSet(Recorded(Used)) /\ Cardinality(Recorded(Used)) = Len(rows'[Used]) BY <1>0, <2>1 DEF Owned
  <2>15. Owned' BY <2>8, <2>11, <2>12, <2>13, <2>14 DEF Owned, Used, Files
  <2> QED BY <2>4, <2>15 DEF MigratedInv
<1> QED BY <1>2, <1>3

(* The migration that is recorded was not, and nobody else is at it.           *)
LEMMA RecordStep ==
    ASSUME Statements \in Nat \ {0}, MigratedInv, NEW p \in Migrators, Record(p)
    PROVE  MigratedInv'
<1> DEFINE r == run[p]
           m == Migration(p)
           new == [migration |-> m, batch |-> r.batch]
<1>0. Shape /\ Owned BY DEF MigratedInv
<1>1. /\ r = [at |-> r.at, cmd |-> r.cmd, todo |-> r.todo, batch |-> r.batch, step |-> r.step]
      /\ r.cmd \in {"migrate", "none"} /\ r.at = "record"
  BY <1>0 DEF Shape, Record, IsAt
<1>2. Busy(p, m) BY <1>1 DEF Busy
<1>3. m \in Files /\ m \notin Recorded(Used) /\ tables[Used][m] = Statements BY <1>0, <1>1, <1>2 DEF Owned
<1>4. PICK S : rows[Used] \in Seq(S) BY <1>0 DEF Shape
<1>5. /\ rows' = [rows EXCEPT ![Used] = Append(rows[Used], new)] /\ UNCHANGED <<files, tables>>
      /\ run' = [run EXCEPT ![p] = [run[p] EXCEPT !.at = "up", !.step = 0, !.todo = Tail(run[p].todo)]]
  BY DEF Record, NextMigration, Set
<1>6. rows'[Used] = Append(rows[Used], new) /\ DOMAIN rows' = Connections
  BY <1>0, <1>5 DEF Shape, Used, Connections
<1>7. rows[Used] \in Seq(S \cup {new}) BY <1>4
<1>8. rows'[Used] \in Seq(S \cup {new}) /\ Len(rows'[Used]) = Len(rows[Used]) + 1 BY <1>6, <1>7
<1>9. Recorded(Used)' = Recorded(Used) \cup {m}
  <2> DEFINE s == rows[Used]
             t == rows'[Used]
  <2>1. \A n : n \in Recorded(Used)' <=> \E entry \in ToSet(t) : n = entry.migration BY RecordedAfter
  <2>2. ToSet(t) = ToSet(s) \cup {new}
    <3>1. DOMAIN s = 1 .. Len(s) /\ Len(s) \in Nat /\ DOMAIN t = 1 .. Len(s) + 1 /\ t[Len(s) + 1] = new
          /\ \A i \in 1 .. Len(s) : t[i] = s[i]
      BY <1>6, <1>7, <1>8
    <3> QED BY <3>1 DEF ToSet
  <2>3. \A n : n \in Recorded(Used) <=> \E entry \in ToSet(s) : n = entry.migration BY RecordedAre
  <2>4. new.migration = m OBVIOUS
  <2> HIDE DEF s, t, new, m
  <2>5. \A n : n \in Recorded(Used)' <=> n \in Recorded(Used) \cup {m} BY <2>1, <2>2, <2>3, <2>4
  <2> QED BY <2>5
<1>10. /\ DOMAIN run' = Migrators /\ \A q \in Migrators \ {p} : run'[q] = run[q]
       /\ run'[p] = [at |-> "up", cmd |-> r.cmd, todo |-> Tail(r.todo), batch |-> r.batch, step |-> 0]
  <2>1. run'[p] = [run[p] EXCEPT !.at = "up", !.step = 0, !.todo = Tail(run[p].todo)] BY <1>0, <1>5 DEF Shape
  <2> QED BY <1>0, <1>1, <1>5, <2>1 DEF Shape
<1>11. Shape' BY <1>0, <1>1, <1>5, <1>6, <1>8, <1>10 DEF Shape, Used
<1>12. \A q \in Migrators : \A n : Busy(q, n)' => q # p /\ Busy(q, n) /\ n # m /\ run'[q] = run[q]
  <2>1. \A n : ~Busy(p, n)' BY <1>10 DEF Busy, Migration
  <2>2. \A q \in Migrators \ {p} : \A n : Busy(q, n)' => Busy(q, n) BY <1>10 DEF Busy, Migration
  <2>3. \A q \in Migrators \ {p} : ~Busy(q, m) BY <1>0, <1>2 DEF Owned
  <2> QED BY <1>10, <2>1, <2>2, <2>3
<1>13. \A q \in Migrators : \A n : Busy(q, n)' =>
         /\ n \in Files /\ n \notin Recorded(Used) \cup {m}
         /\ tables[Used][n] = IF run'[q].at = "record" THEN Statements ELSE run'[q].step
  BY <1>0, <1>12 DEF Owned
<1>14. \A q1, q2 \in Migrators : \A n : Busy(q1, n)' /\ Busy(q2, n)' => q1 = q2 BY <1>0, <1>12 DEF Owned
<1>15. \A n \in Recorded(Used) \cup {m} : n \in Files /\ tables[Used][n] = Statements BY <1>0, <1>3 DEF Owned
<1>16. /\ IsFiniteSet(Recorded(Used) \cup {m})
       /\ Cardinality(Recorded(Used) \cup {m}) = Cardinality(Recorded(Used)) + 1
  BY <1>0, <1>3, FS_AddElement DEF Owned
<1>17. Cardinality(Recorded(Used) \cup {m}) = Len(rows'[Used]) BY <1>0, <1>8, <1>16 DEF Owned
<1>18. tables' = tables BY <1>5
<1>19. Owned' BY <1>9, <1>13, <1>14, <1>15, <1>16, <1>17, <1>18 DEF Owned, Used, Files
<1> QED BY <1>11, <1>19 DEF MigratedInv

LEMMA DeployStep ==
    ASSUME Statements \in Nat \ {0}, MigratedInv, Deploy
    PROVE  MigratedInv'
<1>0. Shape /\ Owned BY DEF MigratedInv
<1>1. /\ UNCHANGED <<tables, rows>> /\ files' \subseteq Files /\ run' = [p \in Migrators |-> Idle] BY DEF Deploy
<1>2. Shape' BY <1>0, <1>1 DEF Shape, Used, Idle
<1>3. \A q \in Migrators : \A n : ~Busy(q, n)' BY <1>1 DEF Busy, Idle
<1>4. Owned' BY <1>0, <1>1, <1>3, OwnedStays
<1> QED BY <1>2, <1>4 DEF MigratedInv

\* Processes that only migrate, any number of them and whoever is killed.
THEOREM MigratingRecordsTruly ==
    ASSUME Commands = {"migrate"} PROVE MigratorSpec => []RecordedTruly
<1>0. Statements \in Nat \ {0} BY MigratorAssumption
<1>1. MigratorInit => MigratedInv BY <1>0, MigratedInit
<1>2. MigratedInv /\ [MigratorNext]_migratorVars => MigratedInv'
  <2> SUFFICES ASSUME MigratedInv, [MigratorNext]_migratorVars PROVE MigratedInv' OBVIOUS
  <2>1. CASE Deploy BY <1>0, <2>1, DeployStep
  <2>2. ASSUME NEW p \in Migrators, Step(p) PROVE MigratedInv'
    <3>1. run[p].at \in {"idle", "list", "batch", "up", "record", "ok"} BY DEF MigratedInv, Shape
    <3>2. ~ReadLast(p) /\ ~Down(p) /\ ~Missing(p) /\ ~DeleteRow(p) /\ ~Drop(p)
      BY <3>1 DEF ReadLast, Down, Missing, DeleteRow, Drop, IsAt
    <3>3. CASE Command(p) \/ List(p) \/ ReadBatch(p) \/ Ends(p) \/ Crash(p) BY <1>0, <3>3, NothingTouched
    <3>4. CASE Up(p) BY <1>0, <3>4, UpStep
    <3>5. CASE Record(p) BY <1>0, <3>5, RecordStep
    <3> QED BY <2>2, <3>2, <3>3, <3>4, <3>5, Zenon DEF Step
  <2>3. CASE UNCHANGED migratorVars BY <2>3 DEF migratorVars, MigratedInv, Shape, Owned, Busy, Migration, Recorded, Used
  <2> QED BY <2>1, <2>2, <2>3 DEF MigratorNext
<1>3. MigratedInv => RecordedTruly
  <2>1. ASSUME MigratedInv PROVE RecordedIsApplied
    <3>1. \A m \in Recorded(Used) : tables[Used][m] = Statements BY <2>1 DEF MigratedInv, Owned
    <3> QED BY <3>1, Zenon DEF RecordedIsApplied
  <2>2. ASSUME MigratedInv PROVE RecordedOnce BY <2>2 DEF MigratedInv, Owned, RecordedOnce
  <2> QED BY <2>1, <2>2, Zenon DEF RecordedTruly
<1> QED BY <1>1, <1>2, <1>3, PTL DEF MigratorSpec
=============================================================================
