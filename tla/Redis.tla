-------------------------------- MODULE Redis --------------------------------
(* redis/: the connections of an application by name, the prefix each of them *)
(* puts before the keys of a command, and the flush of a cache that lives in  *)
(* one of them (cache/redis_store.py).  A text is a sequence of words; a      *)
(* command is [args, keys]: its words, and the places that Redis takes for    *)
(* keys.  redis.asyncio and the server are outside src/: a client opens when  *)
(* it is used, aclose() closes it, and SCAN returns at least what is there    *)
(* all along.                                                                 *)
EXTENDS Integers, Sequences, SequencesExt, FiniteSets

CONSTANTS Tasks,
          Prefix,       \* of each connection that is configured
          Commands,     \* the commands that are given: [args, keys, writes, deletes], places all
          Queued,       \* those of them that a pipeline is given
          Cache,        \* the connection of the cache, and its prefix
          CachePrefix,
          Number,       \* of the words that are numbers
          Batch,        \* keys of an UNLINK
          Kept,         \* what may be on the server at first
          MaxClients, MaxCalls

VARIABLES connections,  \* RedisManager._connections: the client of a name, 0 for none
          open,         \* the clients that are open
          made,         \* the name of each client made
          stored,       \* the keys on the server
          stays,        \* history: the cache's keys that are there since a task began to flush
          doing,        \* what a task is at: [at, client, ...]
          sent,         \* history: the command the last step sent, as given and as sent
          late,         \* history: clients used after the manager had given them up
          calls
vars == <<connections, open, made, stored, stays, doing, sent, late, calls>>

Names == DOMAIN Prefix
Clients == 1 .. Len(made)
Managed == {connections[n] : n \in Names}
Idle == [at |-> "none"]
Text == Seq(STRING)
\* What the configuration, the commands and the keys are.
RedisAssumption ==
    /\ IsFiniteSet(Names) /\ Prefix \in [Names -> Text] /\ Cache \in Names /\ CachePrefix \in Text
    /\ \A keys \in Kept : keys \subseteq Text
    /\ Queued \subseteq Commands
    /\ \A c \in Commands : c.args \in Seq(Text) /\ c.args # <<>> /\ c.writes \subseteq DOMAIN c.args
-----------------------------------------------------------------------------
\* KEY_POSITIONS: the strategy of each command, here of one or two of each list,
\* and the places it gives among the parameters.
Strategy(command) ==
    CASE command \in {"get", "set", "lpush", "xadd", "object refcount"} -> "first"
      [] command \in {"object", "xgroup"} -> "second"
      [] command \in {"rename", "copy"} -> "first_two"
      [] command \in {"del", "unlink", "mget"} -> "every"
      [] command \in {"blpop"} -> "all_but_last"
      [] command \in {"bitop"} -> "all_but_first"
      [] command \in {"mset"} -> "interleaved"
      [] command \in {"zunion"} -> "numkeys_first"
      [] command \in {"eval"} -> "numkeys_second"
      [] command \in {"zunionstore"} -> "destination_then_numkeys"
      [] command \in {"xread", "xreadgroup"} -> "streams"
      [] OTHER -> "none"     \* publish, scan, ping
Arity(option) == CASE option = "group" -> 2 [] option \in {"count", "block", "claim"} -> 1 [] option = "noack" -> 0
Streams(params) ==
    LET from[i \in 1 .. Len(params) + 4] ==
            IF i > Len(params) THEN {}
            ELSE LET option == Last(params[i]) IN
                 CASE option = "streams" -> i + 1 .. i + (Len(params) - i) \div 2
                   [] option \in {"group", "count", "block", "claim", "noack"} -> from[i + 1 + Arity(option)]
                   [] OTHER -> {}
    IN  from[1]
Positions(strategy, params) ==
    LET n == Len(params) IN
    CASE strategy = "first" -> {i \in {1} : n >= 1}
      [] strategy = "second" -> {i \in {2} : n >= 2}
      [] strategy = "first_two" -> {i \in {1, 2} : n >= i}
      [] strategy = "every" -> 1 .. n
      [] strategy = "all_but_last" -> 1 .. n - 1
      [] strategy = "all_but_first" -> 2 .. n
      [] strategy = "interleaved" -> {i \in 1 .. n : i % 2 = 1}
      [] strategy = "numkeys_first" -> 2 .. 1 + Number[Last(params[1])]
      [] strategy = "numkeys_second" -> 3 .. 2 + Number[Last(params[2])]
      [] strategy = "destination_then_numkeys" -> {1} \cup 3 .. 2 + Number[Last(params[2])]
      [] strategy = "streams" -> Streams(params)
      [] OTHER -> {}
KeyPlaces(args) == {i + 1 : i \in Positions(Strategy(Last(Head(args))), Tail(args))}
PrefixCommand(prefix, args) ==
    [i \in DOMAIN args |-> IF i \in KeyPlaces(args) THEN prefix \o args[i] ELSE args[i]]

-----------------------------------------------------------------------------
\* connection(): the client of the name, made if there is none.
Held(name) == IF connections[name] = 0 THEN Len(made) + 1 ELSE connections[name]
Connects(name) ==
    /\ connections' = [connections EXCEPT ![name] = Held(name)]
    /\ made' = IF connections[name] = 0 THEN Append(made, name) ELSE made
    /\ Len(made') <= MaxClients
Uses(client) == open' = open \cup {client} /\ late' = IF client \in Managed' THEN late ELSE late \cup {client}
Begins(p, d) == doing[p].at \in {"none", "flushed", "disconnected"} /\ calls < MaxCalls /\ calls' = calls + 1 /\ doing' = [doing EXCEPT ![p] = d]
Goes(p, d) == doing' = [doing EXCEPT ![p] = d] /\ UNCHANGED calls
Stores(keys) == stored' = keys /\ stays' = [q \in Tasks |-> stays[q] \cap keys]
\* What commands that are sent one after the other do to the keys of the server.
Written(e) == {e.args[i] : i \in e.given.writes}
Deleted(e) == {e.args[i] : i \in e.given.deletes}
Effect(keys, q) ==
    {k \in keys \cup UNION {Written(q[i]) : i \in DOMAIN q} :
        \A i \in DOMAIN q : k \in Deleted(q[i]) => \E j \in i .. Len(q) : k \in Written(q[j])}

\* A command as given and as sent, and the record of it.
Prefixed(name, c) == [given |-> c, args |-> PrefixCommand(Prefix[name], c.args)]
Sent(name, e) == sent' = [prefix |-> Prefix[name], given |-> e.given, args |-> e.args]
\* A command through the manager, to the client of the name as it is now.
Command(p, name, c) ==
    /\ Begins(p, Idle) /\ Connects(name) /\ Uses(Held(name))
    /\ LET e == Prefixed(name, c)
       IN  Stores(Effect(stored, <<e>>)) /\ Sent(name, e)

\* pipeline() and transaction(): the callback queues commands and may await;
\* they are sent when it has ended, those of a transaction at once.
Pipeline(p, name, atomic) ==
    /\ Begins(p, [at |-> "queueing", client |-> Held(name), atomic |-> atomic, queue |-> <<>>])
    /\ Connects(name) /\ UNCHANGED <<open, stored, stays, late>> /\ sent' = Idle
Queue(p, c) ==
    /\ doing[p].at = "queueing" /\ Len(doing[p].queue) < 2
    /\ Goes(p, [doing[p] EXCEPT !.queue = Append(@, Prefixed(made[doing[p].client], c))])
    /\ UNCHANGED <<connections, open, made, stored, stays, late>> /\ sent' = Idle
Raise(p) == doing[p].at = "queueing" /\ Goes(p, Idle) /\ UNCHANGED <<connections, open, made, stored, stays, late>> /\ sent' = Idle
Execute(p) ==
    /\ doing[p].at = "queueing" /\ doing[p].queue # <<>> /\ UNCHANGED <<connections, made>>
    /\ LET q == doing[p].queue
           n == IF doing[p].atomic THEN Len(q) ELSE 1
       IN  /\ Stores(Effect(stored, SubSeq(q, 1, n)))
           /\ Sent(made[doing[p].client], q[n])
           /\ Goes(p, IF n = Len(q) THEN Idle ELSE [doing[p] EXCEPT !.queue = Tail(@), !.atomic = FALSE, !.at = "sending"])
    /\ Uses(doing[p].client)
Send(p) ==
    /\ doing[p].at = "sending" /\ UNCHANGED <<connections, made>> /\ Uses(doing[p].client)
    /\ LET e == Head(doing[p].queue)
       IN  Stores(Effect(stored, <<e>>)) /\ Sent(made[doing[p].client], e)
    /\ Goes(p, Idle)

-----------------------------------------------------------------------------
\* purge() and disconnect(): the manager forgets the connection, then it closes.
Forget(name) == connections' = [connections EXCEPT ![name] = 0]
Purge(p, name) ==
    /\ connections[name] # 0 /\ Forget(name)
    /\ Begins(p, [at |-> "closing", client |-> connections[name], names |-> <<>>, those |-> {}])
    /\ UNCHANGED <<open, made, stored, stays, late>> /\ sent' = Idle
Connected == {n \in Names : connections[n] # 0}
Disconnect(p) ==
    \E names \in [1 .. Cardinality(Connected) -> Connected] :     \* list(self._connections)
        /\ Range(names) = Connected
        /\ names # <<>> /\ Forget(Head(names))
        /\ Begins(p, [at |-> "closing", client |-> connections[Head(names)], names |-> Tail(names), those |-> {connections[n] : n \in Connected}])
        /\ UNCHANGED <<open, made, stored, stays, late>> /\ sent' = Idle
\* aclose() has ended; of the names listed at first, those that are gone are passed.
Closed(p) ==
    /\ doing[p].at = "closing" /\ open' = open \ {doing[p].client} /\ late' = late \ {doing[p].client}
    /\ LET names == doing[p].names
           left  == {i \in DOMAIN names : connections[names[i]] # 0}
       IN  \/ /\ left = {} /\ UNCHANGED connections
              /\ Goes(p, IF doing[p].those = {} THEN Idle ELSE [at |-> "disconnected", those |-> doing[p].those])
           \/ \E i \in left :
                 /\ \A j \in left : i <= j
                 /\ Goes(p, [doing[p] EXCEPT !.client = connections[names[i]], !.names = SubSeq(names, i + 1, Len(names))])
                 /\ Forget(names[i])
    /\ UNCHANGED <<made, stored, stays>> /\ sent' = Idle

-----------------------------------------------------------------------------
\* flush(): SCAN for the keys of the cache, UNLINK of a batch at a time.  A "*"
\* in the name of the cache is escaped.
Namespace == Prefix[Cache] \o CachePrefix
Match(key) == IsPrefix(Namespace, key)
Strip(key) == SubSeq(key, Len(Prefix[Cache]) + 1, Len(key))
Flush(p) ==
    /\ Begins(p, [at |-> "flushing", client |-> Held(Cache), keys |-> <<>>, returned |-> {}, unlinked |-> {}])
    /\ Connects(Cache) /\ Uses(Held(Cache)) /\ UNCHANGED <<stored>> /\ sent' = Idle
    /\ stays' = [stays EXCEPT ![p] = {k \in stored : Match(k)}]
Scan(p, key) ==
    /\ doing[p].at = "flushing" /\ Len(doing[p].keys) < Batch
    /\ key \in stored /\ Match(key) /\ key \notin doing[p].returned
    /\ Goes(p, [doing[p] EXCEPT !.keys = Append(@, Strip(key)), !.returned = @ \cup {key}])
    /\ UNCHANGED <<connections, open, made, stored, stays, late>> /\ sent' = Idle
\* A batch is full, or all that was there all along has been returned.
Unlinked(keys) == stored \cap ToSet(Tail(PrefixCommand(Prefix[Cache], <<<<"unlink">>>> \o keys)))
Unlink(p) ==
    /\ doing[p].at = "flushing" /\ UNCHANGED <<connections, made>> /\ sent' = Idle
    /\ LET ended == stays[p] \subseteq doing[p].returned
           gone  == Unlinked(doing[p].keys)
           all   == doing[p].unlinked \cup gone
       IN  /\ Len(doing[p].keys) = Batch \/ ended
           /\ Stores(stored \ gone)
           /\ Goes(p, IF ended THEN [at |-> "flushed", unlinked |-> all] ELSE [doing[p] EXCEPT !.keys = <<>>, !.unlinked = all])
    /\ Uses(doing[p].client)

Init == /\ connections = [n \in Names |-> 0] /\ open = {} /\ made = <<>> /\ stored \in Kept
        /\ stays = [p \in Tasks |-> {}] /\ doing = [p \in Tasks |-> Idle] /\ sent = Idle /\ late = {} /\ calls = 0
Next == \E p \in Tasks :
    \/ \E name \in Names, c \in Commands : Command(p, name, c)
    \/ \E name \in Names, atomic \in BOOLEAN : Pipeline(p, name, atomic)
    \/ \E c \in Queued : Queue(p, c)
    \/ Raise(p) \/ Execute(p) \/ Send(p)
    \/ \E name \in Names : Purge(p, name)
    \/ Disconnect(p) \/ Closed(p) \/ Flush(p) \/ Unlink(p)
    \/ \E key \in stored : Scan(p, key)
Spec == Init /\ [][Next]_vars
-----------------------------------------------------------------------------
\* A command that was sent, alone or queued, has the prefix of its connection
\* before the keys that Redis takes from it, once, and nowhere else (prefix.py,
\* connection.py _pipeline()).
PrefixedOnce == sent # Idle =>
    \A i \in DOMAIN sent.args : sent.args[i] = IF i \in sent.given.keys THEN sent.prefix \o sent.given.args[i] ELSE sent.given.args[i]
\* A client that is open is in the manager, about to close, or was used by a
\* task that held it still; and a disconnect() that has ended left none of those
\* that were there when it began (manager.py 51-58).
NoClientLost ==
    /\ \A c \in open \ late : c \in Managed \/ \E p \in Tasks : doing[p].at = "closing" /\ doing[p].client = c
    /\ \A p \in Tasks : doing[p].at = "disconnected" => doing[p].those \cap Managed = {}
\* A flush deletes every key of the cache that was there from its beginning to
\* its end, in however many batches, and no other's (redis_store.py flush()).
FlushesItsOwn == \A p \in Tasks :
    /\ doing[p].at = "flushed" => stays[p] = {}
    /\ doing[p].at \in {"flushing", "flushed"} => \A k \in doing[p].unlinked : IsPrefix(Namespace, k)
=============================================================================
