------------------------------ MODULE MCServices ------------------------------
(* Small instances of the services around the database, side by side: a       *)
(* behaviour is one of the part chosen at its start, and the others stay as    *)
(* they are.                                                                   *)
EXTENDS CacheStore, Reverb, Inertia, Installer, AgentRecording, SequencesExt, TLC

CONSTANTS t1, t2, t3, Parts,                     \* the parts that are checked
          Absent, NotAMapping
VARIABLE part
(* CacheStore *)
Three == {t1, t2, t3}
Interchangeable == Permutations(Tasks)

(* Reverb: Ann may listen to the private channel. *)
AnnMay == {<<"ann", "private">>}
ASSUME SocketsAreIds

(* JsonApi: posts with an author and an editor, who have posts and a company. *)
VARIABLES related, items, include, fields, chained, document, calls
Links(name, rs) == IF rs = <<>> THEN <<>> ELSE <<<<name, rs>>>>
One   == {<<>>, <<"p">>, <<"q">>}
Known == {[a |-> Links("author", x) \o Links("editor", y), b |-> Links("author", z),
           p |-> <<<<"posts", ps>>>> \o Links("company", c), q |-> Links("company", <<"c">>), c |-> <<>>]
          : x, y, z \in One, ps \in {<<>>, <<"a", "b">>}, c \in {<<>>, <<"c">>}}
IncludePaths == {<<"author">>, <<"editor">>, <<"author", "company">>, <<"editor", "company">>, <<"author", "posts">>,
          <<"author", "posts", "author">>}
J == INSTANCE JsonApi WITH
       Type <- [a |-> "posts", b |-> "posts", p |-> "users", q |-> "users", c |-> "companies"],
       Attributes <- {"name", "about", "secret"}, Hidden <- {"secret"}, Answers <- {<<"a">>, <<"a", "b">>},
       Graphs <- Known, Includes <- {s \in SUBSET IncludePaths : Cardinality(s) < 4}, MaxCalls <- 2,
       FieldSpecs <- {{}, {<<"users", "name">>}, {<<"posts", "secret">>, <<"posts", "name">>}}
documents == <<related, items, include, fields, chained, document, calls>>
Compound       == part = "jsonapi" => J!Compound
(* Inertia: a home page and one that shares a once prop with it, one that      *)
(* fails with an answer of its own, and one that is down.                      *)
Plain == [path |-> "", up |-> "", loading |-> "eager", group |-> "default", always |-> FALSE,
          once |-> "", fresh |-> FALSE, computed |-> FALSE, rescued |-> FALSE, fails |-> "no"]
Prop(options) == options @@ Plain
Home  == {Prop([path |-> "plans", once |-> "plans"]),
          Prop([path |-> "feed", loading |-> "deferred"]),
          Prop([path |-> "stats", loading |-> "deferred", group |-> "slow", once |-> "stats"]),
          Prop([path |-> "panel", computed |-> TRUE]),
          Prop([path |-> "panel.rows", up |-> "panel", once |-> "rows"]),
          Prop([path |-> "panel.side", up |-> "panel", loading |-> "deferred"])}
Other == {Prop([path |-> "options", once |-> "plans"]),
          Prop([path |-> "weather", fails |-> "raised", rescued |-> TRUE]),
          Prop([path |-> "user", always |-> TRUE])}
InertiaPages == [home |-> Home, other |-> Other, broken |-> {Prop([path |-> "missing", fails |-> "handled"])},
                 down |-> {Prop([path |-> "late", fails |-> "raised"])}]

(* AgentRecording: sessions with and without a history. *)
Said(role, text) == [role |-> role, text |-> text, tools |-> <<>>]
Histories == {<<>>, <<Said("user", "hi"), Said("assistant", 0)>>}

(* Events: three providers, the first without listeners. *)
VARIABLES booting, dispatchers, bound, recorded, dispatches, listening, changes
E == INSTANCE Events WITH
       Declared <- << <<>>, << <<"sent", "mail">>, <<"any", "log">> >>, << <<"sent", "count">> >> >>,
       Names <- {"sent", "paid", "any"}, Patterns <- {"any"}, Matches <- LAMBDA name, pattern : pattern = "any",
       Listeners <- {"mail", "log", "count"}, MaxDispatches <- 2, MaxChanges <- 1, heard <- listening
events == <<booting, dispatchers, bound, recorded, dispatches, listening, changes>>
HearsInOrder == part = "events" => E!HearsInOrder

(* Container: a cart needs a store, and there is a redis store. *)
VARIABLES objects, swaps, hooks, settings, made, last, uses
C == INSTANCE Container WITH Classes <- {"Store", "Redis", "Cart"}, Keys <- {"store"}, MaxCalls <- 3,
       Parent <- [Store |-> "", Redis |-> "Store", Cart |-> ""], Needs <- [Store |-> <<>>, Redis |-> <<>>, Cart |-> <<"Store">>],
       calls <- uses
container == <<objects, swaps, hooks, settings, made, last, uses>>
MadeAsNeeded == part = "container" => C!MadeAsNeeded
(* Validation: an article with a title, a slug that is unique and a note, and   *)
(* its author with an age and a guardian that is needed below it.               *)
VARIABLES route, request, at, solved, errors, outcome
Text(k)  == [type |-> "str", n |-> k, number |-> FALSE]
Digit(k) == [type |-> "str", n |-> k, number |-> TRUE]
None     == [type |-> "none", n |-> 0, number |-> FALSE]
Rule(name) == [rule |-> name]
Field(name, type, default, rules) == [name |-> name, type |-> type, default |-> default, rules |-> rules]
Fields ==
    "article" :> <<Field("title", "str", Absent, <<Rule("required"), [rule |-> "between", low |-> 2, high |-> 3]>>),
                   Field("slug", "str", None, <<Rule("unique"), [rule |-> "same_as", other |-> "title"]>>),
                   Field("note", "str", Absent, <<[rule |-> "in", values |-> {Text(2)}]>>)>>
    @@ "author" :> <<Field("age", "int", Absent, <<Rule("nullable"), Rule("integer"), [rule |-> "between", low |-> 1, high |-> 2]>>),
                     Field("guardian", "str", Absent,
                           <<[rule |-> "required_if", other |-> "age", expected |-> [type |-> "int", n |-> 1, number |-> TRUE]],
                             Rule("string"), [rule |-> "not_in", values |-> {Text(1)}]>>)>>
Some(x, y) == UNION {[D -> {None, Text(0), Text(1), Text(2)}] : D \in SUBSET {x, y}}
V == INSTANCE Validation WITH FieldsOf <- Fields, Stopping <- {"article"},
       Prepares <- "article" :> ("note" :> Text(2)) @@ "author" :> <<>>,
       Routes <- {<<"article">>, <<"author">>, <<"article", "author">>, <<"author", "article", "author">>},
       Bodies <- "article" :> Some("title", "slug") \cup {NotAMapping}
                 @@ "author" :> {"age" :> v : v \in {None, Text(0), Digit(1), Digit(3), [type |-> "bool", n |-> 1, number |-> FALSE]}}
                                \cup {<<>>, "guardian" :> Text(1)},
       Queries <- {<<>>, "age" :> Digit(1), "title" :> Text(2)}, Stored <- {Text(1)}
forms == <<route, request, at, solved, errors, outcome>>
(* Exceptions: of the framework, of Starlette and of the application.          *)
VARIABLES booted, handlers, renders, reports, silenced, incoming, raises, stage, raised, answer, told, reported,
          session, configured, received
Thrown(class, status) == [class |-> class, status |-> status]
Http == {"RouteNotFoundException", "MethodNotAllowedException", "AuthorizationException", "ThrottleRequestsException",
         "ValidationException"}
Asking(accepts, inertia, kept) == [accepts |-> accepts, inertia |-> inertia, session |-> kept, pending |-> kept]
X == INSTANCE Exceptions WITH
       Mro <- [c \in {"HTTPException", "HttpException", "RequestValidationError", "ValueError", "RuntimeError",
                      "AttributeError"} |-> <<c, "Exception">>]
              @@ "Exception" :> <<"Exception">> @@ "NotImplementedError" :> <<"NotImplementedError", "RuntimeError", "Exception">>
              @@ [c \in Http |-> <<c, "HttpException", "Exception">>],
       Raisable <- {Thrown("HTTPException", 404), Thrown("HTTPException", 503), Thrown("HttpException", Absent),
                    Thrown("RequestValidationError", 0), Thrown("ValueError", 0)},
       OtherStatuses <- {503},
       Failure <- Thrown("RuntimeError", 0), Configured <- {"Exception", "HttpException", "ValueError"},
       Requests <- {Asking("json", FALSE, TRUE), Asking("html", TRUE, TRUE), Asking("html", FALSE, TRUE), Asking("html", TRUE, FALSE)},
       Debug <- FALSE, Unset <- Absent, Nothing <- Absent, MaxCalls <- 2, MaxRequests <- 1,
       request <- incoming, at <- stage, calls <- configured
exceptions == <<booted, handlers, renders, reports, silenced, incoming, raises, stage, raised, answer, told, reported,
                session, configured, received>>
\* A request reaches its handler only when its forms are valid, and what the
\* handler raises is answered and reported as its class says (validation/,
\* exceptions/handler.py, fastapi/exceptions.py).
RequestsAnswered == (part = "validation" => V!HandlesOnlyValid) /\ (part = "exceptions" => X!AnsweredAsRaised)
(* Vite: chunks that import each other, and a build that lost one. *)
VARIABLES disk, manifests, states, current, scopes, rendering, page, nonces, pages, deploys
Chunk(file, css, imports) == [file |-> file, css |-> css, imports |-> imports]
Older == "app" :> Chunk("app1", <<"a.css">>, <<"shared", "page">>) @@ "shared" :> Chunk("s1", <<"s.css">>, <<"app">>)
         @@ "page" :> Chunk("p1", <<"s.css">>, <<"lib", "shared">>) @@ "lib" :> Chunk("l1", <<>>, <<"page">>)
         @@ "theme" :> Chunk("t.css", <<>>, <<>>)
Newer == "app" :> Chunk("app2", <<>>, <<"gone">>) @@ "page" :> Chunk("p2", <<"s.css">>, <<>>)
T == INSTANCE Vite WITH Tasks <- {1, 2}, Builds <- {Older, Newer}, Styles <- {"a.css", "s.css", "t.css"},
       Entries <- {<<"page">>, <<"app", "theme">>}, call <- rendering,
       MaxNonces <- 1, MaxScopes <- 2, MaxDepth <- 2, MaxPages <- 1, MaxDeploys <- 1
rendered == <<disk, manifests, states, current, scopes, rendering, page, nonces, pages, deploys>>
\* A page that is rendered has what it needs and no more: the props that this
\* visit owes the client, and the tags of its chunks with the nonce of its request
\* (inertia/props/resolver.py, vite/vite.py).
PageIsWhole == (part = "inertia" => PageComplete) /\ (part = "vite" => T!PageIsWhole)
(* Processes: a fake that answers "ls" and, with its pattern, any other.       *)
VARIABLES fake, scripts, commanded, pending, running, children, log
P == INSTANCE PendingProcess WITH Tasks <- {1, 2}, Commands <- {"ls", "rm"}, Wildcard <- "*", MaxFakes <- 2, MaxRuns <- 2,
       Scripts <- {"*" :> [out |-> TRUE, code |-> 1] @@ "ls" :> [out |-> FALSE, code |-> 1]},
       Settings <- {[quiet |-> FALSE, tty |-> FALSE, timeout |-> TRUE], [quiet |-> TRUE, tty |-> TRUE, timeout |-> FALSE]},
       Outcomes <- {[out |-> TRUE, code |-> 0]}, recorded <- commanded, call <- running
ASSUME P!PendingProcessAssumption
processes == <<fake, scripts, commanded, pending, running, children, log>>
(* Redis: a connection without a prefix, and the cache's with one.              *)
VARIABLES connections, open, kept, stored, stays, doing, sent, late, taken
Asked(args, keys, writes, deletes) == [args |-> args, keys |-> keys, writes |-> writes, deletes |-> deletes]
CacheKey(k) == <<"c*", k>>
Asks == {Asked(<<<<"set">>, CacheKey("a"), <<"v">>>>, {2}, {2}, {}),
         Asked(<<<<"rename">>, CacheKey("a"), CacheKey("b")>>, {2, 3}, {3}, {2}),
         Asked(<<<<"mset">>, CacheKey("a"), <<"v">>, CacheKey("b"), <<"v">>>>, {2, 4}, {2, 4}, {}),
         Asked(<<<<"zunionstore">>, CacheKey("a"), <<"2">>, <<"x">>, <<"2">>>>, {2, 4, 5}, {2}, {}),
         Asked(<<<<"eval">>, <<"script">>, <<"1">>, CacheKey("a"), <<"owner">>>>, {4}, {}, {4}),
         Asked(<<<<"xreadgroup">>, <<"group">>, <<"streams">>, <<"me">>, <<"noack">>, <<"count">>, <<"1">>, <<"streams">>, <<"streams">>, <<"x">>,
                 <<"0">>, <<"0">>>>, {9, 10}, {}, {}),
         Asked(<<<<"blpop">>, <<"x">>, <<"y">>, <<"0">>>>, {2, 3}, {}, {}),
         Asked(<<<<"object">>, <<"encoding">>, <<"x">>>>, {3}, {}, {}),
         Asked(<<<<"publish">>, <<"x">>, <<"y">>>>, {}, {}, {})}
R == INSTANCE Redis WITH Tasks <- {1, 2}, Prefix <- [default |-> <<>>, cache |-> <<"app">>], Commands <- Asks,
       Queued <- {c \in Asks : Cardinality(c.writes) = 2}, Cache <- "cache", CachePrefix <- <<"c*">>,
       Number <- [x \in {"1", "2"} |-> IF x = "1" THEN 1 ELSE 2], Batch <- 1, MaxClients <- 3, MaxCalls <- 3,
       calls <- taken, made <- kept,
       Kept <- {{<<"app", "c*", "b">>, <<"app", "cc", "b">>, <<"c*", "b">>}}
ASSUME R!RedisAssumption
clients == <<connections, open, kept, stored, stays, doing, sent, late, taken>>
\* A command runs as it was configured, in this application or on the server: a
\* process with the settings given for it, a Redis command with the prefix of its
\* connection, on a client that is not lost (process.py, redis/manager.py, prefix.py).
RunAsConfigured ==
    /\ part = "process" => P!RunAsConfigured
    /\ part = "redis" => R!PrefixedOnce /\ R!NoClientLost /\ R!FlushesItsOwn
(* Installer: two commands, and somebody who writes a configuration.              *)
Chosen(app, database, frontend) == [app |-> app, database |-> database, frontend |-> frontend]
GivenOptions == {Chosen(Absent, "mysql", "react"), Chosen("both", "none", Absent), Chosen("worker", "none", Absent),
                 Chosen("worker", "none", "vue")}
-------------------------------------------------------------------------------
InitEach ==
    /\ part \in Parts
    /\ Init /\ (part # "store" => driver = "array")
    /\ ReverbInit
    /\ J!Init /\ (part # "jsonapi" => Len(items) = 1 /\ related = CHOOSE g \in Known : TRUE)
    /\ InertiaInit
    /\ RecordingInit /\ (part # "recording" => \A s \in {"s1", "s2"} : sessions[s].seed = <<>>)
    /\ E!Init
    /\ C!Init /\ (part # "container" => settings.strict /\ settings.override)
    /\ T!Init /\ (part # "vite" => disk.manifest = <<>>)
    /\ P!RunsInit
    /\ X!Init
    /\ R!Init
    /\ InstallerInit /\ (part # "installer" => place = "absent")
    /\ IF part = "validation" THEN V!Init
       ELSE /\ route = <<>> /\ request = <<>> /\ at = 1 /\ solved = <<>> /\ errors = {} /\ outcome = "solving"

\* A step of p, the part that was chosen.
Of(p) ==
    /\ part = p /\ UNCHANGED part
    /\ IF p = "store" THEN TRUE ELSE UNCHANGED vars
    /\ IF p = "reverb" THEN TRUE ELSE UNCHANGED sockets
    /\ IF p = "jsonapi" THEN TRUE ELSE UNCHANGED documents
    /\ IF p = "inertia" THEN TRUE ELSE UNCHANGED browser
    /\ IF p = "recording" THEN TRUE ELSE UNCHANGED recording
    /\ IF p = "events" THEN TRUE ELSE UNCHANGED events
    /\ IF p = "container" THEN TRUE ELSE UNCHANGED container
    /\ IF p = "validation" THEN TRUE ELSE UNCHANGED forms
    /\ IF p = "vite" THEN TRUE ELSE UNCHANGED rendered
    /\ IF p = "process" THEN TRUE ELSE UNCHANGED processes
    /\ IF p = "exceptions" THEN TRUE ELSE UNCHANGED exceptions
    /\ IF p = "redis" THEN TRUE ELSE UNCHANGED clients
    /\ IF p = "installer" THEN TRUE ELSE UNCHANGED installing
NextEach ==
    \/ Of("store") /\ Next
    \/ Of("reverb") /\ ReverbNext
    \/ Of("jsonapi") /\ J!Next
    \/ Of("inertia") /\ InertiaNext
    \/ Of("recording") /\ RecordingNext
    \/ Of("events") /\ E!Next
    \/ Of("container") /\ C!Next
    \/ Of("validation") /\ V!Next
    \/ Of("vite") /\ T!Next
    \/ Of("process") /\ P!RunsNext
    \/ Of("exceptions") /\ X!Next
    \/ Of("redis") /\ R!Next
    \/ Of("installer") /\ InstallerNext
SpecEach == InitEach /\ [][NextEach]_<<part, vars, sockets, documents, browser, recording, events, container, forms,
                                     rendered, processes, exceptions, clients, installing>>
===============================================================================
