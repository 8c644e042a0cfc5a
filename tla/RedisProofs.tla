------------------------------ MODULE RedisProofs ------------------------------
(* Proofs about Redis, for any tasks, connections, commands and caches.       *)
EXTENDS Redis, FiniteSetTheorems, SequenceTheorems, TLAPS

(* A command that waits in a pipeline.                                         *)
Entry == {e \in [given : Commands, args : Seq(Text)] : e.given.writes \subseteq DOMAIN e.args}

(* What a task that does something keeps.                                      *)
Queueing == {d \in [at : {"queueing", "sending"}, client : Clients, atomic : BOOLEAN, queue : Seq(Entry)] :
                d.at = "sending" => d.queue # <<>>}
Closing  == [at : {"closing"}, client : Clients, names : Seq(Names), those : SUBSET Clients]
Gone     == [at : {"disconnected"}, those : SUBSET Clients]
Flushing == [at : {"flushing"}, client : Clients, keys : Seq(Text), returned : SUBSET Text, unlinked : SUBSET Text]
Flushed  == [at : {"flushed"}, unlinked : SUBSET Text]
Shapes   == {Idle} \cup Queueing \cup Closing \cup Gone \cup Flushing \cup Flushed

RedisType ==
    /\ made \in Seq(Names) /\ connections \in [Names -> 0 .. Len(made)]
    /\ 0 \notin open /\ stored \in SUBSET Text /\ stays \in [Tasks -> SUBSET stored]
    /\ doing \in [Tasks -> Shapes]

(* A client in the manager was made for its name.                              *)
Owned == \A n \in Names : connections[n] # 0 => made[connections[n]] = n

(* An open client is held, about to close, or late.                            *)
Tracked == \A c \in open \ late :
    \/ \E n \in Names : connections[n] = c
    \/ \E p \in Tasks : doing[p].at = "closing" /\ doing[p].client = c

(* The clients a disconnect() has found and that are still held are those of   *)
(* the names it has left.                                                      *)
Listed(p) ==
    /\ doing[p].at = "closing" => \A n \in Names : connections[n] \in doing[p].those => n \in Range(doing[p].names)
    /\ doing[p].at = "disconnected" => \A n \in Names : connections[n] \notin doing[p].those

(* A key that a flush has got and that was there all along awaits its batch.   *)
Pending(p) ==
    /\ doing[p].at = "flushing" =>
         /\ \A i \in DOMAIN doing[p].keys : IsPrefix(Namespace, Prefix[Cache] \o doing[p].keys[i])
         /\ \A k \in stays[p] : k \in doing[p].returned => \E i \in DOMAIN doing[p].keys : k = Prefix[Cache] \o doing[p].keys[i]
    /\ doing[p].at = "flushed" => stays[p] = {}
    /\ doing[p].at \in {"flushing", "flushed"} => \A k \in doing[p].unlinked : IsPrefix(Namespace, k)

RedisInv == RedisType /\ Owned /\ Tracked /\ \A p \in Tasks : Listed(p) /\ Pending(p)
-----------------------------------------------------------------------------
(* Commands and keys.                                                          *)
LEMMA PrefixedArgs ==
    ASSUME NEW T, NEW prefix, NEW args \in Seq(T), \A i \in DOMAIN args \cap KeyPlaces(args) : prefix \o args[i] \in T
    PROVE  PrefixCommand(prefix, args) \in Seq(T) /\ DOMAIN PrefixCommand(prefix, args) = DOMAIN args
<1> DEFINE word(i) == IF i \in KeyPlaces(args) THEN prefix \o args[i] ELSE args[i]
<1>1. Len(args) \in Nat /\ DOMAIN args = 1 .. Len(args) BY LenProperties
<1>2. ASSUME NEW i \in 1 .. Len(args) PROVE word(i) \in T
  <2>1. args[i] \in T BY <1>2, ElementOfSeq
  <2> QED BY <1>1, <1>2, <2>1
<1> HIDE DEF word
<1>3. [i \in 1 .. Len(args) |-> word(i)] \in Seq(T) BY <1>1, <1>2, IsASeq
<1> QED BY <1>1, <1>3 DEF PrefixCommand, word

LEMMA PrefixedEntry ==
    ASSUME RedisAssumption, NEW name \in Names, NEW c \in Commands PROVE Prefixed(name, c) \in Entry
<1>1. Prefix[name] \in Text /\ c.args \in Seq(Text) /\ c.writes \subseteq DOMAIN c.args BY DEF RedisAssumption
<1>2. \A i \in DOMAIN c.args : Prefix[name] \o c.args[i] \in Text
  BY <1>1, LenProperties, ElementOfSeq, ConcatProperties DEF Text
<1>3. PrefixCommand(Prefix[name], c.args) \in Seq(Text) /\ DOMAIN PrefixCommand(Prefix[name], c.args) = DOMAIN c.args
  BY <1>1, <1>2, PrefixedArgs
<1> QED BY <1>1, <1>3 DEF Prefixed, Entry

LEMMA EffectIsText ==
    ASSUME NEW keys \in SUBSET Text, NEW q \in Seq(Entry) PROVE Effect(keys, q) \in SUBSET Text
<1>1. ASSUME NEW i \in DOMAIN q PROVE Written(q[i]) \subseteq Text
  <2>1. q[i] \in Entry BY <1>1, LenProperties, ElementOfSeq
  <2>2. q[i].args \in Seq(Text) /\ q[i].given.writes \subseteq DOMAIN q[i].args BY <2>1 DEF Entry
  <2> QED BY <2>2, LenProperties, ElementOfSeq DEF Written
<1> QED BY <1>1 DEF Effect

(* What UNLINK takes away: its names, with the prefix of the cache's           *)
(* connection before each.                                                     *)
LEMMA UnlinkTakes ==
    ASSUME RedisAssumption, NEW keys \in Seq(Text)
    PROVE  Unlinked(keys) = stored \cap {Prefix[Cache] \o keys[i] : i \in DOMAIN keys}
<1> DEFINE T == Text \cup {<<"unlink">>}
           args == <<<<"unlink">>>> \o keys
           whole == PrefixCommand(Prefix[Cache], args)
<1>1. Prefix[Cache] \in Text BY DEF RedisAssumption
<1>2. keys \in Seq(T) /\ <<<<"unlink">>>> \in Seq(T) /\ Len(<<<<"unlink">>>>) = 1
  <2>1. keys \in Seq(T) BY SeqMonotonic
  <2>2. ASSUME NEW S, NEW x \in S PROVE <<x>> \in Seq(S) /\ Len(<<x>>) = 1 BY <2>2
  <2> QED BY <2>1, <2>2, Zenon
<1>3. Len(keys) \in Nat /\ DOMAIN keys = 1 .. Len(keys) BY LenProperties
<1>4. /\ args \in Seq(T) /\ Len(args) = 1 + Len(keys)
      /\ \A i \in 1 .. 1 + Len(keys) : args[i] = IF i <= 1 THEN <<<<"unlink">>>>[i] ELSE keys[i - 1]
  BY <1>2, ConcatProperties
<1>5. args # <<>> /\ Head(args) = <<"unlink">>
  <2>1. args # <<>> BY <1>3, <1>4, EmptySeq
  <2>2. Head(args) = args[1] BY <1>4, <2>1
  <2> QED BY <1>3, <1>4, <2>1, <2>2
<1>6. Len(Tail(args)) = Len(keys) /\ Tail(args) \in Seq(T) BY <1>3, <1>4, <1>5, HeadTailProperties
<1>7. KeyPlaces(args) = {i + 1 : i \in 1 .. Len(keys)}
  <2>1. Last(<<"unlink">>) = "unlink" BY DEF Last
  <2>2. Strategy("unlink") = "every" BY DEF Strategy
  <2>3. Positions("every", Tail(args)) = 1 .. Len(keys) BY <1>6 DEF Positions
  <2> QED BY <1>5, <2>1, <2>2, <2>3 DEF KeyPlaces
<1>8. whole \in Seq(T) /\ DOMAIN whole = 1 .. 1 + Len(keys)
  <2>1. ASSUME NEW i \in DOMAIN args \cap KeyPlaces(args) PROVE Prefix[Cache] \o args[i] \in T
    <3>1. i \in 2 .. 1 + Len(keys) BY <1>3, <1>7, <2>1
    <3>2. args[i] = keys[i - 1] /\ i - 1 \in 1 .. Len(keys) BY <1>3, <1>4, <3>1
    <3>3. keys[i - 1] \in Text BY <3>2, ElementOfSeq
    <3> QED BY <1>1, <3>2, <3>3, ConcatProperties DEF Text
  <2>2. DOMAIN args = 1 .. 1 + Len(keys) BY <1>4, LenProperties
  <2>3. args \in Seq(T) BY <1>4
  <2> HIDE DEF T, args
  <2>4. PrefixCommand(Prefix[Cache], args) \in Seq(T) /\ DOMAIN PrefixCommand(Prefix[Cache], args) = DOMAIN args
    BY <2>1, <2>3, PrefixedArgs
  <2> QED BY <2>2, <2>4
<1>9. Len(whole) = 1 + Len(keys) BY <1>3, <1>8, LenProperties
<1>10. ASSUME NEW i \in 1 .. Len(keys) PROVE whole[i + 1] = Prefix[Cache] \o keys[i]
  <2>1. i + 1 \in KeyPlaces(args) /\ i + 1 \in DOMAIN args BY <1>3, <1>4, <1>7, LenProperties
  <2>2. args[i + 1] = keys[i] BY <1>3, <1>4
  <2> QED BY <2>1, <2>2 DEF PrefixCommand
<1>11. whole # <<>> BY <1>3, <1>8, <1>9, EmptySeq
<1>12. /\ Tail(whole) \in Seq(T) /\ Len(Tail(whole)) = Len(keys)
       /\ \A i \in 1 .. Len(keys) : Tail(whole)[i] = Prefix[Cache] \o keys[i]
  BY <1>3, <1>8, <1>9, <1>10, <1>11, HeadTailProperties
<1>13. ToSet(Tail(whole)) = {Prefix[Cache] \o keys[i] : i \in DOMAIN keys}
  <2>1. DOMAIN Tail(whole) = 1 .. Len(keys) BY <1>12, LenProperties
  <2> QED BY <1>3, <1>12, <2>1 DEF ToSet
<1> QED BY <1>13 DEF Unlinked

(* A key without the prefix of the connection, and with it again.              *)
LEMMA StripKey ==
    ASSUME RedisAssumption, NEW key \in Text, Match(key)
    PROVE  Strip(key) \in Text /\ Prefix[Cache] \o Strip(key) = key
<1> DEFINE a == Prefix[Cache]  n == Len(Prefix[Cache])
<1>1. a \in Text /\ CachePrefix \in Text BY DEF RedisAssumption
<1>2. n \in Nat /\ Len(CachePrefix) \in Nat /\ Len(key) \in Nat BY <1>1, LenProperties DEF Text
<1>3. /\ Namespace \in Text /\ Len(Namespace) = n + Len(CachePrefix)
      /\ \A i \in 1 .. n : Namespace[i] = a[i]
  BY <1>1, <1>2, ConcatProperties DEF Namespace, Text
<1> DEFINE m == Len(key)
<1>a. m = Len(key) /\ n = Len(Prefix[Cache]) /\ n \in Nat /\ m \in Nat BY <1>2
<1> HIDE DEF n, m
<1>c. n \in Nat /\ m \in Nat BY <1>a
<1>4. Len(Namespace) <= m /\ SubSeq(Namespace, 1, Len(Namespace)) = SubSeq(key, 1, Len(Namespace))
  BY <1>a DEF Match, IsPrefix
<1>5. ASSUME NEW i \in 1 .. n PROVE key[i] = a[i]
  <2>1. i \in 1 .. Len(Namespace) BY <1>a, <1>2, <1>3
  <2>2. SubSeq(Namespace, 1, Len(Namespace))[i] = Namespace[i]
    BY <1>a, <1>2, <1>3, <2>1, SubSeqFull DEF Text
  <2>3. \A j \in 1 .. Len(Namespace) : key[j] \in STRING BY <1>a, <1>2, <1>3, <1>4, ElementOfSeq DEF Text
  <2>4. SubSeq(key, 1, Len(Namespace))[i] = key[1 + i - 1]
    BY <1>a, <1>2, <1>3, <2>1, <2>3, SubSeqProperties
  <2>5. 1 + i - 1 = i BY <1>a, <1>2
  <2> QED BY <1>3, <1>4, <2>2, <2>4, <2>5
<1>6. \A j \in n + 1 .. m : key[j] \in STRING BY <1>a, ElementOfSeq DEF Text
<1>b. Strip(key) = SubSeq(key, n + 1, m) BY <1>a DEF Strip
<1>7. /\ Strip(key) \in Text
      /\ Len(Strip(key)) = IF n + 1 <= m THEN m - (n + 1) + 1 ELSE 0
      /\ \A i \in 1 .. m - (n + 1) + 1 : Strip(key)[i] = key[n + 1 + i - 1]
  BY <1>b, <1>c, <1>6, SubSeqProperties DEF Text
<1>8. Len(Strip(key)) = m - n
  <2>1. n <= m BY <1>c, <1>2, <1>3, <1>4
  <2> QED BY <1>c, <1>7, <2>1
<1>9. /\ a \o Strip(key) \in Text /\ Len(a \o Strip(key)) = m
      /\ \A i \in 1 .. m : (a \o Strip(key))[i] = IF i <= n THEN a[i] ELSE Strip(key)[i - n]
  BY <1>1, <1>a, <1>2, <1>7, <1>8, ConcatProperties DEF Text
<1>10. ASSUME NEW i \in 1 .. m PROVE (a \o Strip(key))[i] = key[i]
  <2>1. CASE i <= n BY <1>a, <1>2, <1>5, <1>9, <2>1
  <2>2. CASE i > n
    <3>1. i - n \in 1 .. m - (n + 1) + 1 /\ n + 1 + (i - n) - 1 = i BY <1>c, <2>2
    <3>2. Strip(key)[i - n] = key[i] BY <1>7, <3>1
    <3> QED BY <1>a, <1>2, <1>9, <2>2, <3>2
  <2>3. i <= n \/ i > n BY <1>c
  <2> QED BY <2>1, <2>2, <2>3, Zenon
<1>11. Len(a \o Strip(key)) = Len(key) /\ \A i \in 1 .. Len(a \o Strip(key)) : (a \o Strip(key))[i] = key[i]
  BY <1>a, <1>9, <1>10
<1>12. a \o Strip(key) \in Seq(STRING) /\ key \in Seq(STRING) BY <1>9 DEF Text
<1> HIDE DEF a
<1>13. a \o Strip(key) = key BY <1>11, <1>12, SeqEqual
<1> QED BY <1>7, <1>13 DEF a
-----------------------------------------------------------------------------
(* A step of one task, and what it leaves to the others.                       *)
Grows ==
    /\ made' \in Seq(Names) /\ Len(made) <= Len(made')
    /\ connections' \in [Names -> 0 .. Len(made')]
    /\ \A n \in Names : connections'[n] # connections[n] => connections'[n] = 0 \/ connections'[n] > Len(made)
Shrinks ==
    /\ stored' \in SUBSET Text /\ stays' \in [Tasks -> SUBSET stored']

LEMMA Numbers == ASSUME RedisType PROVE Len(made) \in Nat /\ \A n \in Names : connections[n] \in Nat /\ connections[n] <= Len(made)
<1>1. Len(made) \in Nat BY LenProperties DEF RedisType
<1> QED BY <1>1 DEF RedisType

LEMMA ShapesGrow == ASSUME RedisType, Grows PROVE Shapes \subseteq Shapes'
<1>1. Len(made) \in Nat /\ Len(made') \in Nat BY LenProperties DEF RedisType, Grows
<1>2. Clients \subseteq Clients' BY <1>1 DEF Grows, Clients
<1> QED BY <1>2 DEF Shapes, Queueing, Closing, Gone, Flushing, Flushed

LEMMA OthersKeep ==
    ASSUME RedisInv, Grows, NEW q \in Tasks, doing'[q] = doing[q], stays'[q] \subseteq stays[q]
    PROVE  Listed(q)' /\ Pending(q)'
<1>1. doing[q] \in Shapes BY DEF RedisInv, RedisType
<1>2. Len(made) \in Nat /\ \A n \in Names : connections[n] \in Nat /\ connections[n] <= Len(made)
  BY Numbers DEF RedisInv
<1>3. ASSUME NEW those \in SUBSET Clients, NEW n \in Names, connections'[n] \in those PROVE connections[n] \in those
  BY <1>2, <1>3 DEF Grows, Clients
<1>4. doing[q].at = "closing" => doing[q].those \in SUBSET Clients
  BY <1>1 DEF Shapes, Idle, Queueing, Closing, Gone, Flushing, Flushed
<1>5. doing[q].at = "disconnected" => doing[q].those \in SUBSET Clients
  BY <1>1 DEF Shapes, Idle, Queueing, Closing, Gone, Flushing, Flushed
<1>6. Listed(q)' BY <1>3, <1>4, <1>5 DEF RedisInv, Listed
<1>7. Pending(q)' BY DEF RedisInv, Pending, Namespace
<1> QED BY <1>6, <1>7

LEMMA Step ==
    ASSUME RedisInv, Grows, Shrinks, NEW p \in Tasks, NEW d \in Shapes', doing' = [doing EXCEPT ![p] = d],
           \A q \in Tasks \ {p} : stays'[q] \subseteq stays[q],
           0 \notin open', Owned', Tracked', Listed(p)', Pending(p)'
    PROVE  RedisInv'
<1>1. Shapes \subseteq Shapes' BY ShapesGrow DEF RedisInv
<1>2. RedisType' BY <1>1 DEF RedisInv, RedisType, Grows, Shrinks
<1>3. ASSUME NEW q \in Tasks, q # p PROVE Listed(q)' /\ Pending(q)'
  <2>1. doing'[q] = doing[q] BY <1>3 DEF RedisInv, RedisType
  <2> QED BY <1>3, <2>1, OthersKeep
<1> QED BY <1>2, <1>3 DEF RedisInv

(* The keys of the server: a flush under way is left fewer of them.            *)
LEMMA StoresShrinks ==
    ASSUME RedisInv, NEW keys \in SUBSET Text, Stores(keys)
    PROVE  Shrinks /\ \A q \in Tasks : stays'[q] = stays[q] \cap keys
<1> QED BY DEF RedisInv, RedisType, Shrinks, Stores

LEMMA SameShrinks ==
    ASSUME RedisInv, UNCHANGED <<stored, stays>> PROVE Shrinks
<1> QED BY DEF RedisInv, RedisType, Shrinks

(* The manager makes a client for a name, or has one.                          *)
LEMMA ConnectsGrows ==
    ASSUME RedisInv, NEW name \in Names, Connects(name)
    PROVE  /\ Grows /\ Owned' /\ Held(name) \in Clients'
           /\ connections'[name] = Held(name) /\ made'[Held(name)] = name
           /\ \A n \in Names : connections[n] # 0 => connections'[n] = connections[n]
<1> USE DEF RedisInv
<1>1. Len(made) \in Nat /\ \A n \in Names : connections[n] \in Nat /\ connections[n] <= Len(made) BY Numbers
<1>2. made \in Seq(Names) /\ connections \in [Names -> 0 .. Len(made)] BY DEF RedisType
<1>3. CASE connections[name] = 0
  <2>1. Held(name) = Len(made) + 1 /\ made' = Append(made, name) /\ connections' = [connections EXCEPT ![name] = Len(made) + 1]
    BY <1>3 DEF Connects, Held
  <2>2. /\ made' \in Seq(Names) /\ Len(made') = Len(made) + 1 /\ made'[Len(made) + 1] = name
        /\ \A i \in 1 .. Len(made) : made'[i] = made[i]
    BY <1>1, <1>2, <2>1
  <2>3. \A n \in Names : connections'[n] = IF n = name THEN Len(made) + 1 ELSE connections[n] BY <1>2, <2>1
  <2>4. connections' \in [Names -> 0 .. Len(made')] BY <1>1, <1>2, <2>1, <2>2
  <2>5. Grows BY <1>1, <2>2, <2>3, <2>4 DEF Grows
  <2>6. Owned'
    <3>1. ASSUME NEW n \in Names, connections'[n] # 0 PROVE made'[connections'[n]] = n
      <4>1. CASE n = name BY <2>2, <2>3, <4>1
      <4>2. CASE n # name
        <5>1. connections'[n] = connections[n] /\ connections[n] \in 1 .. Len(made) BY <1>1, <2>3, <3>1, <4>2
        <5> QED BY <2>2, <5>1 DEF Owned
      <4> QED BY <4>1, <4>2
    <3> QED BY <3>1 DEF Owned
  <2> QED BY <1>1, <1>3, <2>1, <2>2, <2>3, <2>5, <2>6 DEF Clients
<1>4. CASE connections[name] # 0
  <2>1. Held(name) = connections[name] /\ made' = made /\ connections' = connections
    BY <1>2, <1>4 DEF Connects, Held
  <2> QED BY <1>1, <1>2, <1>4, <2>1 DEF Grows, Owned, Clients
<1> QED BY <1>3, <1>4

(* Clients that are used are held, or late.                                    *)
LEMMA UsedAreTracked ==
    ASSUME RedisInv, NEW p \in Tasks, NEW d, doing' = [doing EXCEPT ![p] = d], doing[p].at # "closing",
           NEW client, Uses(client) \/ UNCHANGED <<open, late>>,
           \A n \in Names : connections[n] # 0 => connections'[n] = connections[n]
    PROVE  Tracked'
<1> SUFFICES ASSUME NEW c \in (open \ late)'
             PROVE  \/ \E n \in Names : connections'[n] = c
                    \/ \E q \in Tasks : doing'[q].at = "closing" /\ doing'[q].client = c
  BY DEF Tracked
<1>1. CASE c \in open \ late
  <2>1. CASE \E n \in Names : connections[n] = c
    <3>1. PICK n \in Names : connections[n] = c BY <2>1
    <3>3. c # 0 BY <1>1 DEF RedisInv, RedisType
    <3> QED BY <3>1, <3>3
  <2>2. CASE \E q \in Tasks : doing[q].at = "closing" /\ doing[q].client = c
    <3>1. PICK q \in Tasks : doing[q].at = "closing" /\ doing[q].client = c BY <2>2
    <3>2. doing'[q] = doing[q] BY <3>1 DEF RedisInv, RedisType
    <3> QED BY <3>1, <3>2
  <2> QED BY <1>1, <2>1, <2>2 DEF RedisInv, Tracked
<1>2. CASE c \notin open \ late
  <2>1. Uses(client) /\ c = client /\ client \in Managed' BY <1>2 DEF Uses
  <2> QED BY <2>1 DEF Managed
<1> QED BY <1>1, <1>2
-----------------------------------------------------------------------------
(* The actions.                                                                *)
LEMMA Shaped ==
    ASSUME RedisInv, NEW p \in Tasks
    PROVE  /\ doing[p].at \in {"queueing", "sending"} => doing[p] \in Queueing
           /\ doing[p].at = "closing" => doing[p] \in Closing
           /\ doing[p].at = "flushing" => doing[p] \in Flushing
<1>1. doing[p] \in Shapes BY DEF RedisInv, RedisType
<1> QED BY <1>1 DEF Shapes, Idle, Queueing, Closing, Gone, Flushing, Flushed

(* A step that ends idle, or with commands in a pipeline.                      *)
LEMMA Others ==
    ASSUME RedisInv, Grows, Shrinks, NEW p \in Tasks, NEW d \in Shapes', doing' = [doing EXCEPT ![p] = d],
           d.at \in {"none", "queueing", "sending"},
           \A q \in Tasks : stays'[q] \subseteq stays[q],
           0 \notin open', Owned', Tracked'
    PROVE  RedisInv'
<1>1. doing'[p] = d BY DEF RedisInv, RedisType
<1>2. Listed(p)' /\ Pending(p)' BY <1>1 DEF Listed, Pending
<1> QED BY <1>2, Step

LEMMA IdleShaped == Idle \in Shapes' /\ Idle.at = "none"
BY DEF Shapes, Idle

LEMMA SameGrows == ASSUME RedisInv, UNCHANGED <<connections, made>> PROVE Grows /\ Owned'
BY LenProperties DEF RedisInv, RedisType, Grows, Owned

LEMMA CommandStep ==
    ASSUME RedisAssumption, RedisInv, NEW p \in Tasks, NEW name \in Names, NEW c \in Commands, Command(p, name, c)
    PROVE  RedisInv'
<1> DEFINE e == Prefixed(name, c)
<1>1. Begins(p, Idle) /\ Connects(name) /\ Uses(Held(name)) /\ Stores(Effect(stored, <<e>>)) BY DEF Command
<1>2. e \in Entry BY PrefixedEntry
<1> HIDE DEF e
<1>3. <<e>> \in Seq(Entry) BY <1>2
<1>4. Effect(stored, <<e>>) \in SUBSET Text BY <1>3, EffectIsText DEF RedisInv, RedisType
<1>5. Shrinks /\ \A q \in Tasks : stays'[q] \subseteq stays[q] BY <1>1, <1>4, StoresShrinks
<1>6. /\ Grows /\ Owned' /\ Held(name) \in Clients'
      /\ \A n \in Names : connections[n] # 0 => connections'[n] = connections[n] BY <1>1, ConnectsGrows
<1>7. doing' = [doing EXCEPT ![p] = Idle] /\ doing[p].at # "closing" BY <1>1 DEF Begins
<1>8. Tracked' BY <1>1, <1>6, <1>7, UsedAreTracked
<1>9. 0 \notin open' BY <1>1, <1>6 DEF Uses, Clients, RedisInv, RedisType
<1> QED BY <1>5, <1>6, <1>7, <1>8, <1>9, IdleShaped, Others

LEMMA PipelineStep ==
    ASSUME RedisInv, NEW p \in Tasks, NEW name \in Names, NEW atomic \in BOOLEAN, Pipeline(p, name, atomic)
    PROVE  RedisInv'
<1> DEFINE d == [at |-> "queueing", client |-> Held(name), atomic |-> atomic, queue |-> <<>>]
<1>1. Begins(p, d) /\ Connects(name) /\ UNCHANGED <<open, stored, stays, late>> BY DEF Pipeline
<1>2. /\ Grows /\ Owned' /\ Held(name) \in Clients'
      /\ \A n \in Names : connections[n] # 0 => connections'[n] = connections[n] BY <1>1, ConnectsGrows
<1>3. d \in Shapes' /\ d.at = "queueing"
  <2>1. <<>> \in Seq(Entry) OBVIOUS
  <2> QED BY <1>2, <2>1 DEF Shapes, Queueing
<1> HIDE DEF d
<1>4. doing' = [doing EXCEPT ![p] = d] /\ doing[p].at # "closing" BY <1>1 DEF Begins
<1>5. Tracked' BY <1>1, <1>2, <1>4, UsedAreTracked
<1>6. Shrinks BY <1>1, SameShrinks
<1>7. 0 \notin open' BY <1>1 DEF RedisInv, RedisType
<1> QED BY <1>1, <1>2, <1>3, <1>4, <1>5, <1>6, <1>7, Others

LEMMA QueueStep ==
    ASSUME RedisAssumption, RedisInv, NEW p \in Tasks, NEW c \in Queued, Queue(p, c) PROVE RedisInv'
<1> DEFINE e == Prefixed(made[doing[p].client], c)
           d == [doing[p] EXCEPT !.queue = Append(@, e)]
<1>1. /\ doing[p].at = "queueing" /\ doing' = [doing EXCEPT ![p] = d]
      /\ UNCHANGED <<connections, open, made, stored, stays, late>> BY DEF Queue, Goes
<1>2. doing[p] \in Queueing BY <1>1, Shaped
<1>3. made[doing[p].client] \in Names BY <1>2, ElementOfSeq DEF Queueing, Clients, RedisInv, RedisType
<1>4. e \in Entry BY <1>3, PrefixedEntry DEF RedisAssumption
<1> HIDE DEF e
<1>5. Append(doing[p].queue, e) \in Seq(Entry) BY <1>2, <1>4 DEF Queueing
<1>6. d \in Queueing /\ d.at = "queueing" BY <1>1, <1>2, <1>5 DEF Queueing
<1> HIDE DEF d
<1>7. Grows /\ Owned' BY <1>1, SameGrows
<1>8. d \in Shapes' BY <1>6, <1>7, ShapesGrow DEF Shapes, RedisInv
<1>9. Tracked' BY <1>1, UsedAreTracked
<1>10. Shrinks BY <1>1, SameShrinks
<1>11. 0 \notin open' BY <1>1 DEF RedisInv, RedisType
<1> QED BY <1>1, <1>6, <1>7, <1>8, <1>9, <1>10, <1>11, Others

LEMMA RaiseStep == ASSUME RedisInv, NEW p \in Tasks, Raise(p) PROVE RedisInv'
<1>1. /\ doing[p].at = "queueing" /\ doing' = [doing EXCEPT ![p] = Idle]
      /\ UNCHANGED <<connections, open, made, stored, stays, late>> BY DEF Raise, Goes
<1>2. Grows /\ Owned' BY <1>1, SameGrows
<1>3. Tracked' BY <1>1, UsedAreTracked
<1>4. Shrinks BY <1>1, SameShrinks
<1>5. 0 \notin open' BY <1>1 DEF RedisInv, RedisType
<1> QED BY <1>1, <1>2, <1>3, <1>4, <1>5, IdleShaped, Others

(* Commands of a pipeline are sent, those in sent, and it goes on with d.      *)
LEMMA Sends ==
    ASSUME RedisInv, NEW p \in Tasks, doing[p].at \in {"queueing", "sending"}, NEW q \in Seq(Entry),
           Stores(Effect(stored, q)), Uses(doing[p].client), UNCHANGED <<connections, made>>,
           NEW d \in {Idle} \cup Queueing, doing' = [doing EXCEPT ![p] = d]
    PROVE  RedisInv'
<1>1. Effect(stored, q) \in SUBSET Text BY EffectIsText DEF RedisInv, RedisType
<1>2. Shrinks /\ \A r \in Tasks : stays'[r] \subseteq stays[r] BY <1>1, StoresShrinks
<1>3. Grows /\ Owned' BY SameGrows
<1>4. d \in Shapes' BY <1>3, ShapesGrow DEF Shapes, RedisInv
<1>5. d.at \in {"none", "queueing", "sending"} BY DEF Idle, Queueing
<1>6. Tracked' BY UsedAreTracked
<1>7. doing[p].client \in Clients BY Shaped DEF Queueing
<1>8. 0 \notin open' BY <1>7 DEF Uses, Clients, RedisInv, RedisType
<1> QED BY <1>2, <1>3, <1>4, <1>5, <1>6, <1>8, Others

LEMMA ExecuteStep == ASSUME RedisInv, NEW p \in Tasks, Execute(p) PROVE RedisInv'
<1> DEFINE q == doing[p].queue
           n == IF doing[p].atomic THEN Len(q) ELSE 1
           d == IF n = Len(q) THEN Idle ELSE [doing[p] EXCEPT !.queue = Tail(@), !.atomic = FALSE, !.at = "sending"]
<1>1. /\ doing[p].at = "queueing" /\ q # <<>> /\ UNCHANGED <<connections, made>>
      /\ Stores(Effect(stored, SubSeq(q, 1, n))) /\ doing' = [doing EXCEPT ![p] = d] /\ Uses(doing[p].client)
  BY DEF Execute, Goes
<1>2. doing[p] \in Queueing BY <1>1, Shaped
<1>3. q \in Seq(Entry) BY <1>2 DEF Queueing
<1>4. SubSeq(q, 1, n) \in Seq(Entry)
  <2>1. Len(q) \in Nat \ {0} BY <1>1, <1>3, EmptySeq
  <2>2. n \in 1 .. Len(q) BY <2>1
  <2> HIDE DEF n, q
  <2>3. \A i \in 1 .. n : q[i] \in Entry BY <1>3, <2>1, <2>2, ElementOfSeq
  <2> QED BY <2>1, <2>2, <2>3, SubSeqProperties
<1>5. d \in {Idle} \cup Queueing
  <2>1. CASE n = Len(q) BY <2>1
  <2>2. CASE n # Len(q)
    <3>1. Tail(q) \in Seq(Entry) /\ Len(Tail(q)) = Len(q) - 1 BY <1>1, <1>3, HeadTailProperties
    <3>2. Len(q) \in Nat \ {0, 1} BY <1>1, <1>3, <2>2, EmptySeq
    <3>3. Tail(q) # <<>>
      <4>1. Len(<<>>) = 0 OBVIOUS
      <4>2. Len(Tail(q)) # 0 BY <3>1, <3>2
      <4> HIDE DEF q
      <4> QED BY <4>1, <4>2
    <3>4. d = [doing[p] EXCEPT !.queue = Tail(q), !.atomic = FALSE, !.at = "sending"] BY <2>2
    <3> HIDE DEF d, n
    <3> QED BY <1>2, <3>1, <3>3, <3>4 DEF Queueing
  <2> QED BY <2>1, <2>2
<1> HIDE DEF d, n, q
<1> QED BY <1>1, <1>4, <1>5, Sends

LEMMA SendStep == ASSUME RedisInv, NEW p \in Tasks, Send(p) PROVE RedisInv'
<1> DEFINE e == Head(doing[p].queue)
<1>1. /\ doing[p].at = "sending" /\ UNCHANGED <<connections, made>> /\ Uses(doing[p].client)
      /\ Stores(Effect(stored, <<e>>)) /\ doing' = [doing EXCEPT ![p] = Idle]
  BY DEF Send, Goes
<1>2. doing[p] \in Queueing BY <1>1, Shaped
<1>3. doing[p].queue \in Seq(Entry) /\ doing[p].queue # <<>> BY <1>1, <1>2 DEF Queueing
<1>4. e \in Entry BY <1>3, HeadTailProperties
<1> HIDE DEF e
<1>5. <<e>> \in Seq(Entry) BY <1>4
<1> QED BY <1>1, <1>5, Sends

(* The manager forgets a connection; the task closes its client.               *)
LEMMA Forgets ==
    ASSUME RedisInv, NEW name \in Names, Forget(name), UNCHANGED made PROVE Grows /\ Owned'
<1>1. \A n \in Names : connections'[n] = IF n = name THEN 0 ELSE connections[n]
  BY DEF Forget, RedisInv, RedisType
<1>2. Len(made) \in Nat BY Numbers DEF RedisInv
<1> QED BY <1>1, <1>2 DEF Forget, Grows, Owned, RedisInv, RedisType

LEMMA ForgottenCloses ==
    ASSUME RedisInv, NEW p \in Tasks, NEW d, doing' = [doing EXCEPT ![p] = d], NEW name \in Names, Forget(name),
           d.at = "closing", d.client = connections[name],
           \A c \in (open \ late)' : c \in open \ late /\ (doing[p].at = "closing" => doing[p].client # c)
    PROVE  Tracked'
<1> SUFFICES ASSUME NEW c \in (open \ late)'
             PROVE  \/ \E n \in Names : connections'[n] = c
                    \/ \E q \in Tasks : doing'[q].at = "closing" /\ doing'[q].client = c
  BY DEF Tracked
<1>1. c \in open \ late /\ (doing[p].at = "closing" => doing[p].client # c) OBVIOUS
<1>2. CASE \E n \in Names : connections[n] = c
  <2>1. PICK n \in Names : connections[n] = c BY <1>2
  <2>2. CASE n = name
    <3>1. doing'[p] = d BY DEF RedisInv, RedisType
    <3> QED BY <2>1, <2>2, <3>1
  <2>3. CASE n # name
    <3>1. connections'[n] = c BY <2>1, <2>3 DEF Forget, RedisInv, RedisType
    <3> QED BY <3>1
  <2> QED BY <2>2, <2>3
<1>3. CASE \E q \in Tasks : doing[q].at = "closing" /\ doing[q].client = c
  <2>1. PICK q \in Tasks : doing[q].at = "closing" /\ doing[q].client = c BY <1>3
  <2>2. doing'[q] = doing[q] BY <1>1, <2>1 DEF RedisInv, RedisType
  <2> QED BY <2>1, <2>2
<1> QED BY <1>1, <1>2, <1>3 DEF RedisInv, Tracked

LEMMA PurgeStep == ASSUME RedisInv, NEW p \in Tasks, NEW name \in Names, Purge(p, name) PROVE RedisInv'
<1> DEFINE d == [at |-> "closing", client |-> connections[name], names |-> <<>>, those |-> {}]
<1>1. /\ connections[name] # 0 /\ Forget(name)
      /\ doing' = [doing EXCEPT ![p] = d] /\ doing[p].at # "closing" /\ UNCHANGED <<open, made, stored, stays, late>>
  BY DEF Purge, Begins
<1>2. Grows /\ Owned' BY <1>1, Forgets
<1>3. d \in Shapes'
  <2>1. connections[name] \in Clients' BY <1>1, Numbers DEF Clients, RedisInv
  <2>2. <<>> \in Seq(Names) OBVIOUS
  <2> QED BY <2>1, <2>2 DEF Shapes, Closing
<1>4. doing'[p] = d BY <1>1 DEF RedisInv, RedisType
<1>5. Listed(p)' /\ Pending(p)' BY <1>4 DEF Listed, Pending
<1>6. Tracked'
  <2>1. d.at = "closing" /\ d.client = connections[name] OBVIOUS
  <2> HIDE DEF d
  <2>2. \A c \in (open \ late)' : c \in open \ late /\ (doing[p].at = "closing" => doing[p].client # c) BY <1>1
  <2> QED BY <1>1, <2>1, <2>2, ForgottenCloses
<1>7. Shrinks BY <1>1, SameShrinks
<1>8. 0 \notin open' BY <1>1 DEF RedisInv, RedisType
<1> HIDE DEF d
<1> QED BY <1>1, <1>2, <1>3, <1>5, <1>6, <1>7, <1>8, Step
LEMMA DisconnectStep == ASSUME RedisAssumption, RedisInv, NEW p \in Tasks, Disconnect(p) PROVE RedisInv'
<1>1. PICK names \in [1 .. Cardinality(Connected) -> Connected] :
        /\ Range(names) = Connected
        /\ names # <<>> /\ Forget(Head(names))
        /\ Begins(p, [at |-> "closing", client |-> connections[Head(names)], names |-> Tail(names),
                      those |-> {connections[n] : n \in Connected}])
        /\ UNCHANGED <<open, made, stored, stays, late>>
  BY DEF Disconnect
<1> DEFINE d == [at |-> "closing", client |-> connections[Head(names)], names |-> Tail(names),
                 those |-> {connections[n] : n \in Connected}]
<1>2. names \in Seq(Names) /\ names \in Seq(Connected)
  <2>1. Connected \subseteq Names BY DEF Connected
  <2>2. IsFiniteSet(Connected) BY <2>1, FS_Subset DEF RedisAssumption
  <2>3. Cardinality(Connected) \in Nat BY <2>2, FS_CardinalityType
  <2> QED BY <2>1, <2>3
<1>3. Head(names) \in Connected /\ Tail(names) \in Seq(Names) BY <1>1, <1>2, HeadTailProperties
<1>4. Head(names) \in Names /\ connections[Head(names)] # 0 BY <1>3 DEF Connected
<1>5. doing' = [doing EXCEPT ![p] = d] /\ doing[p].at # "closing" BY <1>1 DEF Begins
<1>6. Grows /\ Owned' BY <1>1, <1>4, Forgets
<1>7. d \in Shapes'
  <2>1. \A n \in Connected : connections[n] \in Clients' BY <1>1, Numbers DEF Connected, Clients, RedisInv
  <2> QED BY <1>3, <2>1 DEF Shapes, Closing
<1>8. doing'[p] = d BY <1>5 DEF RedisInv, RedisType
<1>9. Tracked'
  <2>1. d.at = "closing" /\ d.client = connections[Head(names)] OBVIOUS
  <2>2. open' = open /\ late' = late /\ Forget(Head(names)) BY <1>1
  <2> HIDE DEF d
  <2>3. \A c \in (open \ late)' : c \in open \ late /\ (doing[p].at = "closing" => doing[p].client # c) BY <1>5, <2>2
  <2> QED BY <1>4, <1>5, <2>1, <2>2, <2>3, ForgottenCloses
<1>10. Listed(p)'
  <2>1. ASSUME NEW n \in Names, connections'[n] \in d.those PROVE n \in Range(Tail(names))
    <3>1. connections'[n] # 0 BY <2>1 DEF Connected
    <3>2. n # Head(names) /\ connections'[n] = connections[n]
      BY <1>1, <1>4, <3>1 DEF Forget, RedisInv, RedisType
    <3>3. n \in Connected BY <3>1, <3>2 DEF Connected
    <3>4. PICK i \in DOMAIN names : names[i] = n BY <1>1, <3>3 DEF Range
    <3>5. Len(names) \in Nat /\ DOMAIN names = 1 .. Len(names) /\ names[1] = Head(names)
      BY <1>1, <1>2, LenProperties
    <3>6. i - 1 \in 1 .. Len(names) - 1 BY <3>2, <3>4, <3>5
    <3>7. Len(Tail(names)) = Len(names) - 1 /\ \A j \in 1 .. Len(Tail(names)) : Tail(names)[j] = names[j + 1]
      BY <1>1, <1>2, HeadTailProperties
    <3>8. Tail(names)[i - 1] = names[i] BY <3>5, <3>6, <3>7
    <3>9. DOMAIN Tail(names) = 1 .. Len(names) - 1 BY <1>3, <3>7, LenProperties
    <3> QED BY <3>4, <3>6, <3>8, <3>9 DEF Range
  <2> QED BY <1>8, <2>1 DEF Listed
<1>11. Pending(p)' BY <1>8 DEF Pending
<1>12. Shrinks BY <1>1, SameShrinks
<1>13. 0 \notin open' BY <1>1 DEF RedisInv, RedisType
<1>14. \A q \in Tasks \ {p} : stays'[q] \subseteq stays[q] BY <1>1
<1> HIDE DEF d
<1> QED BY <1>5, <1>6, <1>7, <1>9, <1>10, <1>11, <1>12, <1>13, <1>14, Step

LEMMA ClosedStep == ASSUME RedisInv, NEW p \in Tasks, Closed(p) PROVE RedisInv'
<1> DEFINE names == doing[p].names
           left == {i \in DOMAIN names : connections[names[i]] # 0}
<1>1. /\ doing[p].at = "closing" /\ open' = open \ {doing[p].client} /\ late' = late \ {doing[p].client}
      /\ UNCHANGED <<made, stored, stays>>
  BY DEF Closed
<1>2. doing[p] \in Closing BY <1>1, Shaped
<1>3. names \in Seq(Names) /\ Len(names) \in Nat /\ DOMAIN names = 1 .. Len(names) BY <1>2, LenProperties DEF Closing
<1>4. \A c \in (open \ late)' : c \in open \ late /\ doing[p].client # c BY <1>1
<1>5. Shrinks /\ 0 \notin open' /\ \A q \in Tasks : stays'[q] \subseteq stays[q]
  BY <1>1, SameShrinks DEF RedisInv, RedisType
<1>6. ASSUME NEW n \in Names, connections[n] \in doing[p].those
      PROVE  connections[n] # 0 /\ \E i \in left : names[i] = n
  <2>1. connections[n] # 0 BY <1>2, <1>6 DEF Closing, Clients
  <2>2. n \in Range(names) BY <1>1, <1>6 DEF RedisInv, Listed
  <2> QED BY <2>1, <2>2 DEF Range
<1>7. CASE left = {}
  <2> DEFINE d == IF doing[p].those = {} THEN Idle ELSE [at |-> "disconnected", those |-> doing[p].those]
  <2>1. UNCHANGED connections /\ doing' = [doing EXCEPT ![p] = d] BY <1>7 DEF Closed, Goes
  <2>2. Grows /\ Owned' BY <1>1, <2>1, SameGrows
  <2>3. d \in Shapes' BY <1>1, <1>2 DEF Shapes, Closing, Gone, Clients
  <2>4. doing'[p] = d BY <2>1 DEF RedisInv, RedisType
  <2>5. Listed(p)'
    <3>1. \A n \in Names : connections[n] \notin doing[p].those BY <1>6, <1>7
    <3> QED BY <2>1, <2>4, <3>1 DEF Listed, Idle
  <2>6. Pending(p)' BY <2>4 DEF Pending, Idle
  <2>7. Tracked'
    <3>1. ASSUME NEW q \in Tasks, doing[q].at = "closing", doing[q].client # doing[p].client PROVE doing'[q] = doing[q]
      BY <2>1, <3>1 DEF RedisInv, RedisType
    <3> QED BY <1>4, <2>1, <3>1 DEF RedisInv, Tracked
  <2> HIDE DEF d
  <2> QED BY <1>5, <2>1, <2>2, <2>3, <2>5, <2>6, <2>7, Step
<1>8. CASE left # {}
  <2>1. PICK i \in left :
          /\ \A j \in left : i <= j
          /\ doing' = [doing EXCEPT ![p] = [doing[p] EXCEPT !.client = connections[names[i]], !.names = SubSeq(names, i + 1, Len(names))]]
          /\ Forget(names[i])
    BY <1>8 DEF Closed, Goes
  <2> DEFINE d == [doing[p] EXCEPT !.client = connections[names[i]], !.names = SubSeq(names, i + 1, Len(names))]
  <2>2. i \in 1 .. Len(names) /\ names[i] \in Names /\ connections[names[i]] # 0 BY <1>3, ElementOfSeq
  <2>3. Grows /\ Owned' BY <1>1, <2>1, <2>2, Forgets
  <2>4. /\ SubSeq(names, i + 1, Len(names)) \in Seq(Names)
        /\ Len(SubSeq(names, i + 1, Len(names))) = IF i + 1 <= Len(names) THEN Len(names) - (i + 1) + 1 ELSE 0
        /\ \A j \in 1 .. Len(names) - (i + 1) + 1 : SubSeq(names, i + 1, Len(names))[j] = names[i + 1 + j - 1]
    <3>1. \A j \in i + 1 .. Len(names) : names[j] \in Names BY <1>3, <2>2, ElementOfSeq
    <3> HIDE DEF names, left
    <3> QED BY <1>3, <2>2, <3>1, SubSeqProperties
  <2>5. d \in Closing /\ d.at = "closing" /\ d.client = connections[names[i]] /\ d.those = doing[p].those
        /\ d.names = SubSeq(names, i + 1, Len(names))
    <3>1. connections[names[i]] \in Clients BY <2>2, Numbers DEF Clients, RedisInv
    <3> QED BY <1>1, <1>2, <2>4, <3>1 DEF Closing
  <2> HIDE DEF d
  <2>6. d \in Shapes' BY <2>3, <2>5, ShapesGrow DEF Shapes, RedisInv
  <2>7. doing' = [doing EXCEPT ![p] = d] BY <2>1 DEF d
  <2>8. doing'[p] = d BY <2>7 DEF RedisInv, RedisType
  <2>9. Tracked' BY <1>4, <2>1, <2>2, <2>5, <2>7, ForgottenCloses
  <2>10. Listed(p)'
    <3>1. ASSUME NEW n \in Names, connections'[n] \in d.those PROVE n \in Range(d.names)
      <4>1. connections'[n] # 0 BY <1>2, <2>5, <3>1 DEF Closing, Clients
      <4>2. n # names[i] /\ connections'[n] = connections[n]
        BY <2>1, <2>2, <4>1 DEF Forget, RedisInv, RedisType
      <4>3. PICK j \in left : names[j] = n BY <1>6, <2>5, <3>1, <4>2
      <4>4. j \in i + 1 .. Len(names) BY <1>3, <2>1, <2>2, <4>2, <4>3
      <4> DEFINE k == j - i  rest == SubSeq(names, i + 1, Len(names))
      <4>5. k \in 1 .. Len(names) - (i + 1) + 1 /\ i + 1 + k - 1 = j /\ i + 1 <= Len(names)
        <5>1. Len(names) \in Nat /\ i \in Nat /\ j \in i + 1 .. Len(names) BY <1>3, <2>2, <4>4
        <5> HIDE DEF names, left
        <5> QED BY <5>1
      <4> HIDE DEF k
      <4>6. rest[k] = names[j] BY <2>4, <4>5
      <4>7. DOMAIN rest = 1 .. Len(rest) /\ Len(rest) = Len(names) - (i + 1) + 1 BY <2>4, <4>5, LenProperties
      <4> QED BY <2>5, <4>3, <4>5, <4>6, <4>7 DEF Range
    <3> QED BY <2>5, <2>8, <3>1 DEF Listed
  <2>11. Pending(p)' BY <2>5, <2>8 DEF Pending
  <2> QED BY <1>5, <2>3, <2>6, <2>7, <2>9, <2>10, <2>11, Step
<1> QED BY <1>7, <1>8
LEMMA FlushStep == ASSUME RedisAssumption, RedisInv, NEW p \in Tasks, Flush(p) PROVE RedisInv'
<1> DEFINE d == [at |-> "flushing", client |-> Held(Cache), keys |-> <<>>, returned |-> {}, unlinked |-> {}]
<1>1. /\ doing' = [doing EXCEPT ![p] = d] /\ doing[p].at # "closing" /\ Connects(Cache) /\ Uses(Held(Cache))
      /\ stored' = stored /\ stays' = [stays EXCEPT ![p] = {k \in stored : Match(k)}]
  BY DEF Flush, Begins
<1>2. Cache \in Names BY DEF RedisAssumption
<1>3. /\ Grows /\ Owned' /\ Held(Cache) \in Clients'
      /\ \A n \in Names : connections[n] # 0 => connections'[n] = connections[n] BY <1>1, <1>2, ConnectsGrows
<1>4. d \in Shapes'
  <2>1. <<>> \in Seq(Text) OBVIOUS
  <2> QED BY <1>3, <2>1 DEF Shapes, Flushing
<1>5. doing'[p] = d BY <1>1 DEF RedisInv, RedisType
<1>6. Listed(p)' /\ Pending(p)'
  <2>1. DOMAIN <<>> = {} OBVIOUS
  <2> QED BY <1>5, <2>1 DEF Listed, Pending
<1> HIDE DEF d
<1>7. Tracked' BY <1>1, <1>3, UsedAreTracked
<1>8. Shrinks /\ \A q \in Tasks \ {p} : stays'[q] \subseteq stays[q] /\ 0 \notin open'
  BY <1>1, <1>3 DEF RedisInv, RedisType, Shrinks, Uses, Clients
<1>9. 0 \notin open' BY <1>1, <1>3 DEF RedisInv, RedisType, Uses, Clients
<1> QED BY <1>1, <1>3, <1>4, <1>6, <1>7, <1>8, <1>9, Step

LEMMA ScanStep ==
    ASSUME RedisAssumption, RedisInv, NEW p \in Tasks, NEW key \in stored, Scan(p, key) PROVE RedisInv'
<1> DEFINE keys == doing[p].keys
           d == [doing[p] EXCEPT !.keys = Append(@, Strip(key)), !.returned = @ \cup {key}]
<1>1. /\ doing[p].at = "flushing" /\ Match(key) /\ doing' = [doing EXCEPT ![p] = d]
      /\ UNCHANGED <<connections, open, made, stored, stays, late>>
  BY DEF Scan, Goes
<1>2. doing[p] \in Flushing BY <1>1, Shaped
<1>3. key \in Text BY DEF RedisInv, RedisType
<1>4. Strip(key) \in Text /\ Prefix[Cache] \o Strip(key) = key BY <1>1, <1>3, StripKey
<1>5. keys \in Seq(Text) /\ Len(keys) \in Nat BY <1>2, LenProperties DEF Flushing
<1>6. /\ Append(keys, Strip(key)) \in Seq(Text) /\ DOMAIN Append(keys, Strip(key)) = 1 .. Len(keys) + 1
      /\ Append(keys, Strip(key))[Len(keys) + 1] = Strip(key) /\ DOMAIN keys = 1 .. Len(keys)
      /\ \A i \in 1 .. Len(keys) : Append(keys, Strip(key))[i] = keys[i]
  BY <1>4, <1>5
<1>7. /\ d \in Flushing /\ d.at = "flushing" /\ d.keys = Append(keys, Strip(key))
      /\ d.returned = doing[p].returned \cup {key} /\ d.unlinked = doing[p].unlinked
  BY <1>1, <1>2, <1>3, <1>6 DEF Flushing
<1> HIDE DEF d
<1>8. Grows /\ Owned' BY <1>1, SameGrows
<1>9. d \in Shapes' BY <1>7, <1>8, ShapesGrow DEF Shapes, RedisInv
<1>10. doing'[p] = d BY <1>1 DEF RedisInv, RedisType
<1>11. Listed(p)' BY <1>7, <1>10 DEF Listed
<1>12. Pending(p)'
  <2> HIDE DEF keys
  <2>1. /\ \A i \in DOMAIN keys : IsPrefix(Namespace, Prefix[Cache] \o keys[i])
        /\ \A k \in stays[p] : k \in doing[p].returned => \E i \in DOMAIN keys : k = Prefix[Cache] \o keys[i]
        /\ \A k \in doing[p].unlinked : IsPrefix(Namespace, k)
    BY <1>1 DEF RedisInv, Pending, keys
  <2>2. IsPrefix(Namespace, key) BY <1>1 DEF Match
  <2>3. ASSUME NEW i \in DOMAIN d.keys PROVE IsPrefix(Namespace, Prefix[Cache] \o d.keys[i])
    <3>1. CASE i = Len(keys) + 1 BY <1>4, <1>6, <1>7, <2>2, <3>1
    <3>2. CASE i # Len(keys) + 1
      <4>1. i \in 1 .. Len(keys) BY <1>5, <1>6, <1>7, <2>3, <3>2
      <4> QED BY <1>6, <1>7, <2>1, <4>1
    <3> QED BY <3>1, <3>2
  <2>4. ASSUME NEW k \in stays[p], k \in d.returned PROVE \E i \in DOMAIN d.keys : k = Prefix[Cache] \o d.keys[i]
    <3>1. CASE k = key
      <4>1. Len(keys) + 1 \in DOMAIN d.keys BY <1>5, <1>6, <1>7
      <4> QED BY <1>4, <1>6, <1>7, <3>1, <4>1
    <3>2. CASE k # key
      <4>1. PICK i \in DOMAIN keys : k = Prefix[Cache] \o keys[i] BY <1>7, <2>1, <2>4, <3>2
      <4>2. i \in DOMAIN d.keys BY <1>5, <1>6, <1>7
      <4> QED BY <1>6, <1>7, <4>1, <4>2
    <3> QED BY <3>1, <3>2
  <2> QED BY <1>1, <1>7, <1>10, <2>1, <2>3, <2>4 DEF Pending, Namespace
<1>13. Tracked' BY <1>1, UsedAreTracked
<1>14. Shrinks BY <1>1, SameShrinks
<1>15. 0 \notin open' BY <1>1 DEF RedisInv, RedisType
<1>16. \A q \in Tasks \ {p} : stays'[q] \subseteq stays[q] BY <1>1
<1> QED BY <1>1, <1>8, <1>9, <1>11, <1>12, <1>13, <1>14, <1>15, <1>16, Step

LEMMA UnlinkStep == ASSUME RedisAssumption, RedisInv, NEW p \in Tasks, Unlink(p) PROVE RedisInv'
<1> DEFINE keys == doing[p].keys
           ended == stays[p] \subseteq doing[p].returned
           gone == Unlinked(keys)
           all == doing[p].unlinked \cup gone
           d == IF ended THEN [at |-> "flushed", unlinked |-> all] ELSE [doing[p] EXCEPT !.keys = <<>>, !.unlinked = all]
<1>1. /\ doing[p].at = "flushing" /\ Stores(stored \ gone) /\ doing' = [doing EXCEPT ![p] = d]
      /\ UNCHANGED <<connections, made>> /\ Uses(doing[p].client)
  BY DEF Unlink, Goes
<1>2. doing[p] \in Flushing BY <1>1, Shaped
<1>3. keys \in Seq(Text) /\ doing[p].client \in Clients /\ doing[p].unlinked \in SUBSET Text BY <1>2 DEF Flushing
<1>4. gone = stored \cap {Prefix[Cache] \o keys[i] : i \in DOMAIN keys} BY <1>3, UnlinkTakes
<1>5. stored \in SUBSET Text /\ stays[p] \subseteq stored BY DEF RedisInv, RedisType
<1>6. Shrinks /\ \A q \in Tasks : stays'[q] = stays[q] \cap (stored \ gone) BY <1>1, <1>5, StoresShrinks
<1>7. /\ \A i \in DOMAIN keys : IsPrefix(Namespace, Prefix[Cache] \o keys[i])
      /\ \A k \in stays[p] : k \in doing[p].returned => \E i \in DOMAIN keys : k = Prefix[Cache] \o keys[i]
      /\ \A k \in doing[p].unlinked : IsPrefix(Namespace, k)
  BY <1>1 DEF RedisInv, Pending
<1> HIDE DEF keys, gone
<1>8. \A k \in stays[p] : k \in doing[p].returned => k \notin stays'[p]
  <2> SUFFICES ASSUME NEW k \in stays[p], k \in doing[p].returned PROVE k \in gone BY <1>6
  <2>1. PICK i \in DOMAIN keys : k = Prefix[Cache] \o keys[i] BY <1>7
  <2> QED BY <1>4, <1>5, <2>1
<1>9. all \in SUBSET Text /\ \A k \in all : IsPrefix(Namespace, k) BY <1>3, <1>4, <1>5, <1>7
<1>10. Grows /\ Owned' BY <1>1, SameGrows
<1>11. 0 \notin open' BY <1>1, <1>3 DEF RedisInv, RedisType, Uses, Clients
<1>12. Tracked' BY <1>1, UsedAreTracked
<1>13. doing'[p] = d BY <1>1 DEF RedisInv, RedisType
<1> HIDE DEF all
<1>14. CASE ended
  <2>1. d = [at |-> "flushed", unlinked |-> all] BY <1>14
  <2>2. d \in Shapes' BY <1>9, <2>1 DEF Shapes, Flushed
  <2>3. stays'[p] = {} BY <1>6, <1>8, <1>14
  <2> HIDE DEF d
  <2>4. Listed(p)' /\ Pending(p)' BY <1>9, <1>13, <2>1, <2>3 DEF Listed, Pending, Namespace
  <2> QED BY <1>1, <1>6, <1>10, <1>11, <1>12, <2>2, <2>4, Step
<1>15. CASE ~ended
  <2>1. <<>> \in Seq(Text) /\ DOMAIN <<>> = {} OBVIOUS
  <2>2. /\ d \in Flushing /\ d.at = "flushing" /\ d.keys = <<>> /\ d.unlinked = all /\ d.returned = doing[p].returned
    BY <1>1, <1>2, <1>9, <1>15, <2>1 DEF Flushing
  <2> HIDE DEF d
  <2>3. d \in Shapes' BY <1>10, <2>2, ShapesGrow DEF Shapes, RedisInv
  <2>4. \A k \in stays'[p] : k \notin d.returned BY <1>6, <1>8, <2>2
  <2>5. Listed(p)' /\ Pending(p)' BY <1>9, <1>13, <2>1, <2>2, <2>4 DEF Listed, Pending, Namespace
  <2> QED BY <1>1, <1>6, <1>10, <1>11, <1>12, <2>3, <2>5, Step
<1> QED BY <1>14, <1>15

LEMMA RedisStarts == ASSUME RedisAssumption, Init PROVE RedisInv
<1>1. /\ made = <<>> /\ connections = [n \in Names |-> 0] /\ stored \in SUBSET Text
      /\ open = {} /\ stays = [p \in Tasks |-> {}] /\ doing = [p \in Tasks |-> Idle]
  BY DEF Init, RedisAssumption
<1>2. made \in Seq(Names) /\ Len(made) = 0 BY <1>1
<1>3. RedisType BY <1>1, <1>2 DEF RedisType, Shapes
<1>4. Owned /\ Tracked BY <1>1 DEF Owned, Tracked
<1>5. ASSUME NEW p \in Tasks PROVE Listed(p) /\ Pending(p) BY <1>1 DEF Listed, Pending, Idle
<1> QED BY <1>3, <1>4, <1>5 DEF RedisInv

LEMMA RedisStep == ASSUME RedisAssumption, RedisInv, [Next]_vars PROVE RedisInv'
<1>1. CASE UNCHANGED vars
  <2>1. UNCHANGED <<connections, open, made, stored, stays, doing, late>> BY <1>1 DEF vars
  <2>2. Grows /\ Owned' BY <2>1, SameGrows
  <2>3. Shapes \subseteq Shapes' BY <2>2, ShapesGrow DEF RedisInv
  <2>4. RedisType' BY <2>1, <2>3 DEF RedisInv, RedisType
  <2>5. Tracked' BY <2>1 DEF RedisInv, Tracked
  <2>6. \A q \in Tasks : Listed(q)' /\ Pending(q)' BY <2>1, <2>2, OthersKeep
  <2> QED BY <2>2, <2>4, <2>5, <2>6 DEF RedisInv
<1>2. CASE Next
  BY <1>2, CommandStep, PipelineStep, QueueStep, RaiseStep, ExecuteStep, SendStep, PurgeStep, DisconnectStep,
     ClosedStep, FlushStep, UnlinkStep, ScanStep DEF Next
<1> QED BY <1>1, <1>2

(* However many tasks use, purge and disconnect the connections, a client that *)
(* is open is in the manager, about to be closed, or was used by a task that   *)
(* held it still, and a disconnect() that has ended has left none of those     *)
(* that it found (redis/manager.py purge(), disconnect()).                     *)
THEOREM ClientsAreKept == ASSUME RedisAssumption PROVE Spec => []NoClientLost
<1>1. RedisInv => NoClientLost
  <2> SUFFICES ASSUME RedisInv PROVE NoClientLost OBVIOUS
  <2>1. \A c \in open \ late : c \in Managed \/ \E p \in Tasks : doing[p].at = "closing" /\ doing[p].client = c
    BY DEF RedisInv, Tracked, Managed
  <2>2. \A p \in Tasks : doing[p].at = "disconnected" => doing[p].those \cap Managed = {}
    BY DEF RedisInv, Listed, Managed
  <2> QED BY <2>1, <2>2 DEF NoClientLost
<1> QED BY <1>1, RedisStarts, RedisStep, PTL DEF Spec

(* A flush of the cache that has ended has deleted every key of it that was    *)
(* there all along, and no key of another, whatever others write and delete    *)
(* between its batches and however large these are (cache/redis_store.py       *)
(* flush(), strip(); redis/prefix.py).                                         *)
THEOREM FlushIsWhole == ASSUME RedisAssumption PROVE Spec => []FlushesItsOwn
<1>1. RedisInv => FlushesItsOwn BY DEF RedisInv, Pending, FlushesItsOwn
<1> QED BY <1>1, RedisStarts, RedisStep, PTL DEF Spec
=============================================================================
