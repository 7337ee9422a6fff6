---------------------------- MODULE HttpRequests ----------------------------
(***************************************************************************)
(* What the HTTP server does with one request, apart from threads: which   *)
(* requests it refuses while reading, how it finds a route or a file, and  *)
(* the status each handler of the REST API answers with.                   *)
(*                                                                         *)
(* A path is the sequence of its non-empty segments after decoding.  In a  *)
(* route's pattern the segment Capture stands for ":name".                 *)
(***************************************************************************)
EXTENDS Naturals, Sequences

Capture == ":"

\* What a request is for, once it is known not to be refused.
NoRoute == [method |-> "none", segments |-> <<>>]

-----------------------------------------------------------------------------
(* Routes                                                                  *)

\* Mutant: every registration is appended.
BugAddAlways(routes, route) == Append(routes, route)

\* HttpServer::route(): a second registration replaces the handler of the first.
AddRoute(routes, route) ==
  IF \E i \in DOMAIN routes : routes[i] = route THEN routes ELSE Append(routes, route)

Get(segments) == [method |-> "GET", segments |-> segments]
Post(segments) == [method |-> "POST", segments |-> segments]

\* The calls registerRoutes() makes, in their order.
ApiRoutes ==
  << Get(<<"api", "health">>), Get(<<"api", "tests">>), Get(<<"api", "suites">>),
     Post(<<"api", "runs">>), Get(<<"api", "runs">>), Get(<<"api", "runs", Capture>>),
     Get(<<"api", "runs", Capture, "results">>), Get(<<"api", "stats">>),
     Get(<<"api", "history">>), Get(<<"api", "flaky">>), Get(<<"api", "diagnostics">>),
     Get(<<"api", "diagnostics", "gpu">>), Get(<<"api", "ai", "status">>),
     Post(<<"api", "ai", "generate-tests">>), Post(<<"api", "ai", "analyze-failure">>),
     Get(<<"api">>) >>

\* RestApiServer::start() registers the routes each time it is called.
RegisterRoutes(routes) ==
  LET after[n \in 0..Len(ApiRoutes)] ==
        IF n = 0 THEN routes
        ELSE LET before == after[n - 1] IN AddRoute(before, ApiRoutes[n])
  IN after[Len(ApiRoutes)]

ApiTable == RegisterRoutes(<<>>)

\* Mutant: a pattern matches every longer path too.
BugFitsPrefix(route, path) ==
  /\ Len(route.segments) <= Len(path)
  /\ \A i \in DOMAIN route.segments : route.segments[i] \in {Capture, path[i]}

Fits(route, path) ==
  /\ Len(route.segments) = Len(path)
  /\ \A i \in DOMAIN path : route.segments[i] \in {Capture, path[i]}

\* match(): the first route that fits path and method.
Match(routes, method, path) ==
  LET fitting == {i \in DOMAIN routes : Fits(routes[i], path) /\ routes[i].method = method}
  IN IF fitting = {} THEN NoRoute
     ELSE routes[CHOOSE i \in fitting : \A j \in fitting : i <= j]

MethodMismatch(routes, method, path) ==
  \E i \in DOMAIN routes : Fits(routes[i], path) /\ routes[i].method # method

-----------------------------------------------------------------------------
(* Static files                                                            *)

\* Segments that hold a NUL byte or a backslash.
Unprintable == {"bad\\segment"}

\* Mutant: only the first segment is looked at.
BugSafeFirst(path) == path[1] \notin {"..", "."} \cup Unprintable

IsSafeRelativePath(path) == \A i \in DOMAIN path : path[i] \notin {"..", "."} \cup Unprintable

\* serveStatic(): 0 stands for "not mine".  files are the regular files below
\* the directory, by the segments that lead there.
ServeStatic(files, method, path) ==
  LET relative == IF path = <<>> THEN <<"index.html">> ELSE path
  IN IF files = {} \/ method \notin {"GET", "HEAD"} THEN 0
     ELSE IF ~IsSafeRelativePath(relative) THEN 400
     ELSE IF relative \in files THEN 200
     ELSE 0

-----------------------------------------------------------------------------
(* One request                                                             *)

\* What arrives on a connection.  head: whether a complete head arrives at all;
\* encoding: Transfer-Encoding; length: Content-Length against the limit.
Heads == {"vanished", "oversize", "noTarget", "complete"}
Lengths == {"none", "fits", "over"}

\* What handleConnection() does before it looks for a route: 0 to go on, 1 to
\* close without an answer, else the status it answers with.
Refusal(request) ==
  CASE request.head = "vanished" -> 1
    [] request.head = "oversize" -> 413
    [] request.head = "noTarget" -> 1
    [] OTHER -> IF request.chunked THEN 400
                ELSE IF request.length = "over" THEN 413
                ELSE 0

\* The answer when no route matches.
Unrouted(routes, files, method, path) ==
  LET static == ServeStatic(files, method, path)
  IN IF static # 0 THEN static
     ELSE IF MethodMismatch(routes, method, path) THEN 405
     ELSE 404

\* The statuses the handlers other than POST /api/runs may answer with; an
\* exception becomes 500.
HandlerStatuses(route) ==
  {500} \cup
  CASE route = Get(<<"api", "runs", Capture>>) -> {200, 404}
    [] route = Post(<<"api", "ai", "generate-tests">>) -> {200, 400, 422}
    [] route = Post(<<"api", "ai", "analyze-failure">>) -> {200, 400, 404}
    [] OTHER -> {200}
=============================================================================
