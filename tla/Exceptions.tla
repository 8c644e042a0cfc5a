----------------------------- MODULE Exceptions -----------------------------
(* exceptions/handler.py and fastapi/: what becomes of an exception that a   *)
(* route raises.  Starlette's ExceptionMiddleware hands some classes to the  *)
(* application's exception manager; the others pass the middleware that      *)
(* tells of every request and reach the manager from ServerErrorMiddleware,  *)
(* outside of it, as does whatever is raised while another is handled.       *)
EXTENDS Naturals, Sequences, FiniteSets, SequencesExt

CONSTANTS Mro,          \* the classes of exceptions, each with its __mro__ up to Exception
          Raisable,     \* the other exceptions [class, status] of the routes; status 0: not an HTTP error
          OtherStatuses,   \* the statuses that routes give to those that take one
          Failure,      \* what an application's own reporter or listener raises
          Configured,   \* the classes the application configures
          Requests,     \* [accepts, inertia, session, pending]
          Debug, Unset, Nothing,
          MaxCalls, MaxRequests

VARIABLES booted,       \* FastAPIProvider has booted
          handlers,     \* the handler of each class: "http", "validation", or an application's
                        \* "reporter", which cannot render, or "renderer", which cannot report
          renders, reports, silenced,   \* the classes of register_render, register_report, dont_report
          request, raises,  \* the request under way, and what its route raises
          at,               \* where it has got to
          raised,           \* the exception on its way up, or Nothing
          answer, told,     \* the response, and the statuses of the RequestHandled events
          reported,         \* <<exception, whom it was reported to>>
          session, calls, received

vars == <<booted, handlers, renders, reports, silenced, request, raises, at, raised, answer, told,
          reported, session, calls, received>>

\* The framework's own HTTP errors: of the router, with a status of their own,
\* of validation, and those that whoever raises them may give another.
Thrown(class, status) == [class |-> class, status |-> status]
RouteErrors      == {Thrown("RouteNotFoundException", 404), Thrown("MethodNotAllowedException", 405)}
ValidationErrors == {Thrown("ValidationException", 422)}
AccessErrors ==
    {Thrown("AuthorizationException", 403), Thrown("ThrottleRequestsException", 429)}
    \cup [class : {"AuthorizationException", "ThrottleRequestsException"}, status : OtherStatuses]

IsA(e, class) == class \in Range(Mro[e.class])

\* What the application calls on its exception manager.
Configure(class) ==
    /\ at = "idle" /\ calls < MaxCalls /\ calls' = calls + 1
    /\ \/ \E kind \in {"reporter", "renderer"} :       \* register_handler()
             /\ handlers' = [c \in DOMAIN handlers \cup {class} |-> IF c = class THEN kind ELSE handlers[c]]
             /\ UNCHANGED <<renders, reports, silenced>>
       \/ renders' = renders \cup {class} /\ UNCHANGED <<handlers, reports, silenced>>
       \/ reports' = reports \cup {class} /\ UNCHANGED <<handlers, renders, silenced>>
       \/ silenced' = silenced \cup {class} /\ UNCHANGED <<handlers, renders, reports>>
    /\ UNCHANGED <<booted, request, raises, at, raised, answer, told, reported, session, received>>

\* The provider's handlers replace what was registered for their classes before.
Provided == [class \in {"Exception", "HTTPException", "RequestValidationError", "ValidationException"} |->
                IF class \in {"Exception", "HTTPException"} THEN "http" ELSE "validation"]
Boot ==
    /\ ~booted /\ booted' = TRUE
    /\ handlers' = [c \in DOMAIN handlers \cup DOMAIN Provided |->
                      IF c \in DOMAIN Provided THEN Provided[c] ELSE handlers[c]]
    /\ UNCHANGED <<renders, reports, silenced, request, raises, at, raised, answer, told, reported,
                   session, calls, received>>

\* The handler of the nearest class that has one.
ResolveHandler(e) ==
    LET registered == SelectSeq(Mro[e.class], LAMBDA c : c \in DOMAIN handlers)
    IN  IF registered = <<>> THEN "none" ELSE handlers[registered[1]]
ShouldReport(e) == ~ \E class \in silenced : IsA(e, class)

\* An HttpException that does not override get_status() has none.
IsHttp(e)     == IsA(e, "HTTPException") \/ IsA(e, "HttpException")
NotImplemented == Thrown("NotImplementedError", 0)

\* report(): whom the exception is reported to, and what that raises.
To(whom, raising) == {[to |-> whom, raises |-> x] : x \in raising}
Report(e) ==
    IF ~ShouldReport(e) THEN To("nobody", {Nothing})
    ELSE IF e.class \in reports \/ ResolveHandler(e) = "reporter" THEN To("application", {Nothing, Failure})
    ELSE IF ResolveHandler(e) = "validation" THEN To("nobody", {Nothing})
    ELSE IF ResolveHandler(e) = "http" /\ e.status = Unset THEN To("nobody", {NotImplemented})
    ELSE IF ResolveHandler(e) = "http" /\ IsHttp(e) /\ e.status < 500 THEN To("nobody", {Nothing})
    ELSE To("log", {Nothing})

Response(status, body) == [status |-> status, body |-> body, id |-> FALSE]
\* What is wrong with the request: the bag of the exception, or FastAPI's errors
\* and those the request's forms have left.
Errors(e) == IF IsA(e, "ValidationException") THEN {"bag"}
             ELSE {"field"} \cup (IF request.pending THEN {"pending"} ELSE {})
\* ValidationExceptionHandler.render: the response and the session after it.  An
\* Inertia request has its errors merged into the bag it asks for.
Invalid(e) ==
    IF request.inertia
    THEN [answer |-> Response(303, "redirect"),
          session |-> IF request.session THEN [session EXCEPT !.bags = @ \cup Errors(e)] ELSE session]
    ELSE IF request.accepts = "json"
    THEN [answer |-> Response(422, "errors"), session |-> session]
    ELSE [answer |-> Response(303, "redirect"),
          session |-> IF request.session THEN [session EXCEPT !.errors = Errors(e)] ELSE session]

\* render(): the responses it may give, Nothing where neither a callable nor a
\* handler renders the exception, and what it raises.
Gives(response) == {[answer |-> response, session |-> session, raises |-> Nothing]}
Raising(e)      == {[answer |-> Nothing, session |-> session, raises |-> e]}
Render(e) ==
    IF e.class \in renders \/ ResolveHandler(e) = "renderer" THEN Gives(Response(418, "own"))
    ELSE IF ResolveHandler(e) = "validation"
    THEN {[answer |-> Invalid(e).answer, session |-> Invalid(e).session, raises |-> Nothing]}
    ELSE IF ResolveHandler(e) # "http" THEN Gives(Nothing)
    ELSE IF e.status = Unset THEN Raising(NotImplemented)
    ELSE IF IsHttp(e) THEN Gives(Response(e.status, "detail"))
    ELSE Gives(Response(500, IF Debug THEN "trace" ELSE "Server Error"))

\* The handler the provider gives to FastAPI: handle(), then the request's id on
\* the response, which fails where there is none.
NoResponse == Thrown("AttributeError", 0)
Handle(e) ==
    \E said \in Report(e) :
        /\ reported' = Append(reported, <<e, said.to>>)
        /\ IF said.raises # Nothing
           THEN raised' = said.raises /\ UNCHANGED <<answer, session>>
           ELSE \E done \in Render(e) :
                   /\ session' = done.session
                   /\ raised' = IF done.answer = Nothing /\ done.raises = Nothing THEN NoResponse ELSE done.raises
                   /\ answer' = IF done.answer = Nothing THEN Nothing ELSE [done.answer EXCEPT !.id = TRUE]

Receive(r, e) ==
    /\ booted /\ at = "idle" /\ received < MaxRequests
    /\ received' = received + 1
    /\ request' = r /\ raises' = e /\ raised' = e /\ at' = "route"
    /\ answer' = IF e = Nothing THEN Response(200, "page") ELSE Nothing
    /\ told' = <<>> /\ reported' = <<>>
    /\ UNCHANGED <<booted, handlers, renders, reports, silenced, session, calls>>

\* ExceptionMiddleware: the classes the provider added handlers for, but Exception.
Inside == {"HTTPException", "HttpException", "RequestValidationError"}
Catch ==
    /\ at = "route" /\ at' = "lifecycle"
    /\ IF raised # Nothing /\ (\E class \in Inside : IsA(raised, class))
       THEN Handle(raised) ELSE UNCHANGED <<raised, answer, reported, session>>
    /\ UNCHANGED <<booted, handlers, renders, reports, silenced, request, raises, told, calls, received>>

\* RequestLifecycleMiddleware, its finally: the event goes out whatever has come,
\* and a listener that raises does so instead of the response.
Dispatch ==
    /\ at = "lifecycle" /\ at' = "outside"
    /\ told' = Append(told, IF answer = Nothing THEN 500 ELSE answer.status)
    /\ \/ /\ answer' = IF answer = Nothing THEN Nothing ELSE [answer EXCEPT !.id = TRUE]
          /\ UNCHANGED raised
       \/ answer' = Nothing /\ raised' = Failure
    /\ UNCHANGED <<booted, handlers, renders, reports, silenced, request, raises, reported, session,
                   calls, received>>

\* ServerErrorMiddleware: what is raised here the server answers in its own way.
Fail ==
    /\ at = "outside" /\ at' = "answered"
    /\ IF raised # Nothing THEN Handle(raised) ELSE UNCHANGED <<raised, answer, reported, session>>
    /\ UNCHANGED <<booted, handlers, renders, reports, silenced, request, raises, told, calls, received>>

\* The client shows a page, which takes what the session has queued, or none.
Answer ==
    /\ at = "answered" /\ at' = "idle"
    /\ session' \in {session, [bags |-> {}, errors |-> {}]}
    /\ UNCHANGED <<booted, handlers, renders, reports, silenced, request, raises, raised, answer, told,
                   reported, calls, received>>

Init == /\ booted = FALSE /\ handlers = <<>> /\ renders = {} /\ reports = {} /\ silenced = {}
        /\ request = Nothing /\ raises = Nothing /\ at = "idle" /\ raised = Nothing /\ answer = Nothing
        /\ told = <<>> /\ reported = <<>> /\ session = [bags |-> {}, errors |-> {}]
        /\ calls = 0 /\ received = 0
Next == \/ \E class \in Configured : Configure(class)
        \/ Boot
        \/ \E r \in Requests, e \in Raisable \cup RouteErrors \cup ValidationErrors \cup AccessErrors \cup {Nothing} : Receive(r, e)
        \/ Catch \/ Dispatch \/ Fail \/ Answer
Spec == Init /\ [][Next]_vars
-------------------------------------------------------------------------------
Said(e, whom) == Cardinality({i \in 1 .. Len(reported) : reported[i] = <<e, whom>>})
\* The provider's handlers decide alone, and no listener raises.
Ordinary(e) == /\ e.status # Unset /\ e.class \notin renders \cup reports
               /\ ResolveHandler(e) \in {"http", "validation"}
               /\ \A i \in 1 .. Len(reported) : reported[i][1] # Failure

\* Every request is told of once.  Where the application does not decide itself,
\* an HTTP error is answered with its status and is no matter for the log below
\* 500; any other exception is logged once, unless dont_report() names it, and
\* answered without its details outside debug; errors of the request reach the
\* client, in the answer or its session; and the event tells the status that is
\* answered (exceptions/handler.py 41-98, fastapi/exceptions.py, middleware.py).
AnsweredAsRaised ==
    at = "answered" =>
        /\ Len(told) = 1
        /\ answer # Nothing => answer.id
        /\ raises # Nothing /\ Ordinary(raises) =>
              /\ answer # Nothing /\ told[1] = answer.status
              /\ IF IsA(raises, "RequestValidationError") \/ IsA(raises, "ValidationException")
                 THEN /\ Said(raises, "log") = 0
                      /\ \/ answer.body = "errors"
                         \/ Errors(raises) \subseteq session.bags \cup session.errors
                         \/ ~request.session
                 ELSE /\ answer.status = (IF IsHttp(raises) THEN raises.status ELSE 500)
                      /\ Debug \/ answer.body # "trace"
                      /\ Said(raises, "log") = (IF answer.status >= 500 /\ (\A class \in silenced : ~IsA(raises, class))
                                                THEN 1 ELSE 0)
===============================================================================
