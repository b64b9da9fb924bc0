-------------------------------- MODULE Bridge --------------------------------
(***************************************************************************)
(* The HTTP side of the Telegram bridge (bridge.py) and the part of        *)
(* aiohttp's request dispatch (web_app.py) that decides what its one       *)
(* middleware, cors_handler, is called with.  cors_handler is written for  *)
(* aiohttp's new style, (request, handler), but lacks the @web.middleware  *)
(* mark, so aiohttp calls it as an old-style factory, (app, handler), and  *)
(* takes what it returns for the request's handler.                        *)
(***************************************************************************)
EXTENDS Naturals, Sequences

CONSTANT Requests     \* HTTP requests that may be under way together

VARIABLES
    kind,      \* what each request asks for
    at,        \* how far its dispatch is
    applied,   \* how many middlewares have been applied to its handler
    handler,   \* what the application will call for it
    status     \* the status of its answer

vars == <<kind, at, applied, handler, status>>

\* A query of at least two characters, a shorter one, and a health check.
Kinds == {"search", "shortQuery", "health"}

\* The order of _prepare_middleware: the application's own, then aiohttp's.
middlewares == << "cors_handler", "_fix_request_current_app" >>

\* Those that carry __middleware_version__ = 1.
NewStyle == {"_fix_request_current_app"}

Endpoint(k) == IF k = "health" THEN "handle_health" ELSE "handle_search"

Init ==
    /\ kind \in [Requests -> Kinds]
    /\ at = [r \in Requests |-> "new"]
    /\ applied = [r \in Requests |-> 0]
    /\ handler = [r \in Requests |-> "none"]
    /\ status = [r \in Requests |-> 0]

\* Application._handle finds the endpoint.
Resolve(r) ==
    /\ at[r] = "new"
    /\ at' = [at EXCEPT ![r] = "wrapping"]
    /\ handler' = [handler EXCEPT ![r] = Endpoint(kind[r])]
    /\ UNCHANGED <<kind, applied, status>>

\* A new-style middleware is bound around the handler.  An old-style one is
\* awaited with the application: cors_handler calls the endpoint with it and
\* returns its Response (handle_search's own catch makes one, for the
\* application has no json), and that becomes the handler.
ApplyMiddleware(r) ==
    /\ at[r] = "wrapping" /\ applied[r] < Len(middlewares)
    /\ applied' = [applied EXCEPT ![r] = @ + 1]
    /\ handler' = IF middlewares[applied[r] + 1] \in NewStyle THEN handler
                  ELSE [handler EXCEPT ![r] = "Response"]
    /\ UNCHANGED <<kind, at, status>>

\* The status of an endpoint called with the request: handle_search refuses a
\* short query, and answers 200 whether or not the search finds a song.
StatusOf(k) == IF k = "shortQuery" THEN 400 ELSE 200

\* The handler is called; a Response cannot be, and aiohttp answers 500.
CallHandler(r) ==
    /\ at[r] = "wrapping" /\ applied[r] = Len(middlewares)
    /\ at' = [at EXCEPT ![r] = "answered"]
    /\ status' = [status EXCEPT ![r] =
                     IF handler[r] = "Response" THEN 500 ELSE StatusOf(kind[r])]
    /\ UNCHANGED <<kind, applied, handler>>

Next == \E r \in Requests : Resolve(r) \/ ApplyMiddleware(r) \/ CallHandler(r)

Spec == Init /\ [][Next]_vars

\* "For music requests, Node.js forwards query to Python bridge via HTTP API"
\* (replit.md): a valid search request is answered by its endpoint.
SearchesAreServed ==
    \A r \in Requests : at[r] = "answered" /\ kind[r] = "search" => status[r] = 200

=============================================================================
