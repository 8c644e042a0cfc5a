------------------------------- MODULE MCCache -------------------------------
(* A lock, asked for by three tasks on the array store and by two on the      *)
(* others; or two tasks on a cache with tags: two tags and one value on a       *)
(* shared store, or one tag and two values with a memo over it.  A behaviour is *)
(* one of the part chosen at its start.                                         *)
EXTENDS MCCacheLock, TaggedStore, TLC
CONSTANTS Parts, t1, t2, t3, u1, u2
ThreeTasks == {t1, t2, t3}
TwoCallers == {u1, u2}
ASSUME TagsAreNumbers
VARIABLE part
locks == <<vars, driver>>
Alike == Permutations(TwoCallers)

\* Two tags and one value, or one tag and two values.
Small == IF memoised THEN \A p \in TwoCallers : tagop[p].tags \subseteq {1} ELSE values <= 1

InitEach == /\ part \in Parts
            /\ InitAny /\ (part # "locks" => driver = "array")
            /\ TagsInit /\ (part # "tags" => memoised)
NextEach ==
    /\ UNCHANGED part
    /\ \/ part = "locks" /\ NextAny /\ UNCHANGED tagVars /\ (driver = "array" \/ pc'[t3] = "idle")
       \/ part = "tags" /\ TagsNext /\ UNCHANGED locks /\ Small'
SpecEach == InitEach /\ [][NextEach]_<<part, locks, tagVars>>
===============================================================================
