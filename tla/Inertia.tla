------------------------------ MODULE Inertia ------------------------------
(* inertia/: one browser tab talking to the Inertia middleware.  The props   *)
(* of a page are resolved for a full visit or a partial reload; what a       *)
(* handler queues in the session (flash data, validation errors) is pulled   *)
(* by the page rendered next.  The session is a cookie that a request        *)
(* carries and its response replaces, and a poll may overlap a visit.  The   *)
(* browser's client and the cookie are outside src/ and modelled as used.    *)
EXTENDS Naturals, FiniteSets

CONSTANTS Pages,        \* the props of each component's page
          MaxSubmits,   \* bound: forms submitted
          MaxVisits     \* bound: visits and reloads the user starts

VARIABLES client,       \* the page shown and the props the client holds
          requests,     \* the request under way of each kind
          cookie,       \* the session as the browser keeps it
          version,      \* the asset version the server runs
          handled,      \* how often the handler ran for each submission
          shown,        \* how many pages carried what each submission queued
          excused,      \* what a race of two requests or an error page took
          visits

browser == <<client, requests, cookie, version, handled, shown, excused, visits>>

Submissions == 1 .. MaxSubmits
Queues      == {"flash", "errors"}
Queued      == Queues \X Submissions
NoRequest   == [kind |-> "idle"]
Kinds       == {"visit", "poll"}
PropsOf(c)  == Pages[c]
Up(c, path) == (CHOOSE p \in Pages[c] : p.path = path).up

----------------------------------------------------------------------------
(* PropsResolver.  A prop sits at the top ("up" is "") or under a top one.   *)

Excepted(p, r)  == r.except \cap {p.path, p.up} # {}
OnRequestedPath(p, r) ==
    \E o \in r.only : o \in {p.path, p.up} \/ p.path = Up(r.page, o)
Requested(p, r) == r.only \cap {p.path, p.up} # {}
Matches(p, r)   == (r.only # {} => OnRequestedPath(p, r)) /\ ~Excepted(p, r)
AlreadyLoaded(p, r) == p.once # "" /\ ~p.fresh /\ p.once \in r.held
Included(p, r, parentWasResolved) ==
    ~r.partial \/ p.always \/ parentWasResolved \/ Matches(p, r)
Excluded(p, r) ==
    IF r.partial THEN AlreadyLoaded(p, r) /\ ~OnRequestedPath(p, r)
    ELSE p.loading # "eager" \/ (r.inertia /\ AlreadyLoaded(p, r))

\* The props the resolver comes to: those of the top level, and those under
\* one that it resolved.
Met(r) ==
    LET tops == {p \in PropsOf(r.page) : p.up = "" /\ Included(p, r, FALSE)}
        kids(q) == {p \in PropsOf(r.page) : /\ p.up = q.path
                                            /\ Included(p, r, q.always \/ q.computed)}
    IN  tops \cup UNION {kids(q) : q \in {p \in tops : ~Excluded(p, r) /\ p.fails = "no"}}
Delivered(r) == {p \in Met(r) : ~Excluded(p, r) /\ p.fails = "no"}
Raising(r)   == {p \in Met(r) : ~Excluded(p, r) /\ p.fails # "no" /\ ~p.rescued}
Deferred(r)  == {p \in Met(r) : /\ Excluded(p, r) /\ p.loading = "deferred"
                                /\ ~AlreadyLoaded(p, r)}
OnceListed(r) ==
    {p \in Met(r) : /\ p.once # "" /\ (Excluded(p, r) \/ p.fails = "no")
                    /\ r.partial => /\ r.only # {} => Requested(p, r)
                                    /\ ~Excepted(p, r)}
Paths(props) == {p.path : p \in props}

----------------------------------------------------------------------------
(* The session and the middleware.                                           *)

\* A careless form of the next definition: all is pulled before the props resolve.
EarlyLeftBy(r, queues) == {}
\* What the session still holds once a page is answered: the errors are pulled
\* while the props resolve (they are shared as an "always" prop), the flash
\* data once every prop is there, so a prop that raises leaves it.
LeftBy(r, queues) == {q \in r.session : q[1] \notin queues}

HasVersionConflict(r) == r.method = "GET" /\ r.inertia /\ r.version # version
\* An empty answer becomes a redirect back; a redirect that answers PUT, PATCH
\* or DELETE becomes a 303, which the browser follows with a GET.
HandleResponse(method, answer) ==
    LET filled == IF answer = "empty" THEN "302" ELSE answer
    IN  IF filled = "302" /\ method = "PUT" THEN "303" ELSE filled
FollowedBy(method, status) == IF status = "302" /\ method = "PUT" THEN "PUT" ELSE "GET"

----------------------------------------------------------------------------
Request(page, partial, only, except) ==
    [page |-> page, method |-> "GET", inertia |-> TRUE, partial |-> partial,
     only |-> only, except |-> except, version |-> client.version,
     held |-> client.once, session |-> cookie, submit |-> 0]
Browse(page) == [Request(page, FALSE, {}, {}) EXCEPT !.inertia = FALSE]

InertiaInit ==
    /\ client = [at |-> "", props |-> {}, once |-> {}, deferred |-> {},
                 asked |-> {}, version |-> 0]
    /\ requests = [k \in Kinds |-> NoRequest]
    /\ cookie = {} /\ version = 0
    /\ handled = [n \in Submissions |-> 0]
    /\ shown = [q \in Queued |-> 0]
    /\ excused = {} /\ visits = 0

Begin(kind, r) ==
    /\ requests[kind] = NoRequest /\ visits < MaxVisits
    /\ visits' = visits + 1
    /\ requests' = [requests EXCEPT ![kind] = r]
    /\ UNCHANGED <<client, cookie, version, handled, shown, excused>>

OpenPage(c)  == client.at = "" /\ Begin("visit", Browse(c))
Visit(c) == client.at # "" /\ Begin("visit", Request(c, FALSE, {}, {}))
Submit(n, method, c) ==
    /\ client.at # "" /\ handled[n] = 0 /\ \A m \in 1 .. n - 1 : handled[m] > 0
    /\ Begin("visit", [Request(c, FALSE, {}, {}) EXCEPT !.method = method, !.submit = n])
Reload ==
    /\ client.at # ""
    /\ \E only, except \in SUBSET Paths({p \in PropsOf(client.at) : p.loading # "deferred"}) :
          /\ Cardinality(only) <= 1 /\ Cardinality(except) <= 1
          /\ Begin("poll", Request(client.at, TRUE, only, except))
\* Once a page is shown, the client asks for its deferred props group by group.
LoadDeferred(group) ==
    LET paths == client.deferred \cap {p.path : p \in {q \in PropsOf(client.at) :
                                                         q.group = group}}
    IN  client.at # "" /\ paths # {} /\ Begin("poll", Request(client.at, TRUE, paths, {}))
Deploy == /\ version = 0 /\ version' = 1
          /\ UNCHANGED <<client, requests, cookie, handled, shown, excused, visits>>

\* A response carries its request's session back and overwrites what another
\* response changed in between.
StoreSession(r, session, dropped) ==
    /\ cookie' = session
    /\ excused' = excused \cup dropped
                  \cup (IF cookie = r.session THEN {} ELSE cookie \cup r.session)
Proceed(kind, r) == requests' = [requests EXCEPT ![kind] = r]
Under(kind) == requests[kind] # NoRequest

\* 409: the client loads the page afresh.
Conflict(kind) ==
    LET r == requests[kind] IN
    /\ Under(kind) /\ HasVersionConflict(r)
    /\ StoreSession(r, r.session, {})
    /\ Proceed(kind, IF kind = "poll" THEN NoRequest
                     ELSE [Browse(r.page) EXCEPT !.session = r.session])
    /\ UNCHANGED <<client, version, handled, shown, visits>>

\* A handler queues a message and errors and answers without a page.
Handle(kind) ==
    LET r == requests[kind]
        queued == r.session \cup (Queues \X {r.submit})
    IN  /\ Under(kind) /\ r.submit # 0 /\ handled[r.submit] < 2
        /\ StoreSession(r, queued, {})
        /\ \E answer \in {"302", "empty", "fragment"} :
              Proceed(kind,
                  IF FollowedBy(r.method, HandleResponse(r.method, answer)) = "GET"
                  THEN [Request(r.page, FALSE, {}, {}) EXCEPT !.session = queued]
                  ELSE [r EXCEPT !.session = queued])
        /\ handled' = [handled EXCEPT ![r.submit] = @ + 1]
        /\ UNCHANGED <<client, version, shown, visits>>

\* What the client makes of a page: a partial reload adds to the props it has,
\* a visit keeps of the old ones the once props that the page names.
Applied(r) ==
    LET got  == Paths(Delivered(r))
        once == {p \in OnceListed(r) : p.path \in got \/ p.once \in client.once}
    IN  IF ~r.partial
        THEN [at |-> r.page, version |-> version, deferred |-> Paths(Deferred(r)),
              props |-> got \cup Paths({p \in PropsOf(r.page) :
                                 {p.path, p.up} \cap Paths(once) # {}}),
              once |-> {p.once : p \in once}, asked |-> {}]
        ELSE IF client.at # r.page THEN client
        ELSE [client EXCEPT !.props = @ \cup got, !.once = @ \cup {p.once : p \in once},
                            !.asked = @ \cup (r.only \cap client.deferred),
                            !.deferred = @ \ r.only]

Render(kind) ==
    LET r == requests[kind] IN
    /\ Under(kind) /\ r.submit = 0 /\ ~HasVersionConflict(r) /\ Raising(r) = {}
    /\ StoreSession(r, LeftBy(r, Queues), {})
    /\ shown' = [q \in Queued |-> IF q \in r.session THEN shown[q] + 1 ELSE shown[q]]
    /\ client' = Applied(r)
    /\ Proceed(kind, NoRequest)
    /\ UNCHANGED <<version, handled, visits>>

\* A prop raises: an exception some handler answers still stores the session,
\* without the errors; any other is a 500 from outside the session's middleware.
Raise(kind) ==
    LET r == requests[kind] IN
    /\ Under(kind) /\ r.submit = 0 /\ ~HasVersionConflict(r) /\ Raising(r) # {}
    /\ IF \E p \in Raising(r) : p.fails = "handled"
       THEN StoreSession(r, LeftBy(r, {"errors"}), {q \in r.session : q[1] = "errors"})
       ELSE UNCHANGED <<cookie, excused>>
    /\ Proceed(kind, NoRequest)
    /\ UNCHANGED <<client, version, handled, shown, visits>>

InertiaNext ==
    \/ \E c \in DOMAIN Pages : OpenPage(c) \/ Visit(c)
    \/ \E c \in DOMAIN Pages, n \in Submissions, m \in {"POST", "PUT"} : Submit(n, m, c)
    \/ Reload \/ \E g \in {"default", "slow"} : LoadDeferred(g)
    \/ Deploy
    \/ \E k \in Kinds : Conflict(k) \/ Handle(k) \/ Render(k) \/ Raise(k)
InertiaSpec == InertiaInit /\ [][InertiaNext]_browser

----------------------------------------------------------------------------
\* A submission is handled once, and what its handler queued is either still
\* in the session or on exactly one page, unless two requests overlapped or a
\* page's error answer took the errors: a redirect, a version conflict, a
\* prop that raises or a partial reload in between neither lose it nor show it
\* twice (inertia/session.py, middleware.py).
QueuedShownOnce ==
    /\ \A n \in Submissions : handled[n] <= 1
    /\ \A q \in Queued \ excused :
          shown[q] + (IF q \in cookie THEN 1 ELSE 0) = handled[q[2]]

\* The page in the browser has every eager prop of its component, the once
\* props it did not ask for again included, and every deferred prop it was
\* told of and has asked for, except those whose failure was rescued
\* (props/resolver.py).
PageComplete ==
    client.at # "" =>
        \A p \in PropsOf(client.at) :
            /\ p.fails = "no"
            /\ \/ p.loading = "eager" /\ \A q \in PropsOf(client.at) :
                                             q.path = p.up => q.loading = "eager"
               \/ p.path \in client.asked
            => p.path \in client.props
=============================================================================
