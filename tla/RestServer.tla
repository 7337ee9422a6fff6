----------------------------- MODULE RestServer -----------------------------
(***************************************************************************)
(* `testforge serve`: the HTTP server with the routes of the REST API on   *)
(* top of the service.  The main thread starts the server, polls for a     *)
(* signal and stops it.  The connections in Clients carry POST /api/runs   *)
(* (RunsEndpoint); the others carry any other request.                     *)
(***************************************************************************)
EXTENDS RunsEndpoint, HttpServer

ASSUME StopperAssumption == "main" \in Stoppers
ASSUME RunsAssumption == Clients \subseteq Conns

VARIABLES mainpc,      \* where the main thread is in Commands::serve()
          signalled    \* interrupt::requested()

all == <<service, handlers, server, mainpc, signalled>>

\* Everything but the connections of the server.
aside == <<service, handlers, mainpc, signalled>>

RestTypeOK ==
  /\ EndpointTypeOK
  /\ serving \in BOOLEAN /\ listenFd \in {"none", "open", "closed"}
  /\ pool \in {"none", "up"} /\ queue \in Seq(Conns) /\ inFlight \in 0..Cap
  /\ apc \in {"none", "check", "poll", "accept", "admit", "submit", "exited"}
  /\ accepted \in Conns \cup {"none"}
  /\ conn \in [Conns -> {"outside", "backlog", "accepted", "queued", "reading", "handling",
                         "closed", "reset"}]
  /\ spc \in [Stoppers -> {"out", "join", "close", "drain", "notify", "stopped", "returned"}]
  /\ wpc \in [Waiters -> {"out", "test", "drowsy", "asleep", "returned"}]
  /\ mainpc \in {"start", "poll", "stopping", "exited"} /\ signalled \in BOOLEAN

RestInit ==
  /\ EndpointInit /\ ServerInit
  /\ mainpc = "start" /\ signalled = FALSE

-----------------------------------------------------------------------------
(* The main thread                                                         *)

ServeStarts ==
  /\ mainpc = "start" /\ mainpc' = "poll"
  /\ Start
  /\ UNCHANGED <<service, handlers, signalled>>

\* The address is taken: exit with kFrameworkError.
ServeFails ==
  /\ mainpc = "start" /\ mainpc' = "exited"
  /\ UNCHANGED <<service, handlers, server, signalled>>

Signal ==
  /\ ~signalled /\ mainpc # "exited"
  /\ signalled' = TRUE
  /\ UNCHANGED <<service, handlers, server, mainpc>>

\* The loop sees the signal, between two calls of waitFor(), and calls stop().
ServeStops ==
  /\ mainpc = "poll" /\ signalled /\ mainpc' = "stopping"
  /\ StopFirst("main")
  /\ UNCHANGED <<service, handlers, signalled>>

InStop == mainpc = "stopping" /\ Stop("main") /\ UNCHANGED aside

\* The destructor of the server calls stop() again.
ServeReturns ==
  /\ mainpc = "stopping" /\ spc["main"] = "stopped" /\ mainpc' = "exited"
  /\ StopAgain("main")
  /\ UNCHANGED <<service, handlers, signalled>>

Main == ServeStarts \/ ServeFails \/ ServeStops \/ InStop \/ ServeReturns

-----------------------------------------------------------------------------
(* The workers                                                             *)

Reject(c) == ReadRefused(c) /\ UNCHANGED aside

Dispatch(c) == ReadRequest(c) /\ UNCHANGED aside

\* No route, or a handler that answers by itself or throws (HttpRequests).
AnswerOther(c) == c \notin Clients /\ WriteResponse(c) /\ UNCHANGED aside

\* The handler of POST /api/runs, then the response.
HandleRun(c) ==
  /\ c \in Clients /\ conn[c] = "handling"
  /\ Handler(c)
  /\ UNCHANGED <<server, mainpc, signalled>>

AnswerRun(c) ==
  /\ c \in Clients /\ hpc[c] = "answered"
  /\ WriteResponse(c)
  /\ UNCHANGED aside

Worker(c) == \/ Reject(c) \/ Dispatch(c) \/ AnswerOther(c) \/ HandleRun(c) \/ AnswerRun(c)

-----------------------------------------------------------------------------
Stopped == mainpc = "exited" /\ UNCHANGED all

RestNext ==
  \/ Main \/ Signal \/ Stopped
  \/ Acceptor /\ UNCHANGED aside
  \/ TakeConn /\ UNCHANGED aside
  \/ \E c \in Conns : Connect(c) /\ UNCHANGED aside
  \/ \E c \in Conns : Worker(c)

\* The threads are scheduled, a client's silence ends with the receive timeout
\* of ten seconds, and a run ends (TestRunner!RunEnds).  Nobody owes a signal
\* or a connection.
RestSpec ==
  /\ RestInit /\ [][RestNext]_all
  /\ WF_all(Main)
  /\ WF_all(Acceptor /\ UNCHANGED aside) /\ WF_all(TakeConn /\ UNCHANGED aside)
  /\ \A c \in Conns : WF_all(Worker(c))

\* The same with threads that call wait(), as a program that embeds the server
\* may; `testforge serve` itself only polls.
WaitSpec ==
  /\ RestInit /\ [][RestNext \/ \E w \in Waiters : Wait(w) /\ UNCHANGED aside]_all
  /\ WF_all(Main) /\ WF_all(Acceptor /\ UNCHANGED aside) /\ WF_all(TakeConn /\ UNCHANGED aside)
  /\ \A c \in Conns : WF_all(Worker(c))
  /\ \A w \in Waiters : WF_all(Wait(w) /\ UNCHANGED aside)

-----------------------------------------------------------------------------
\* A connection that was accepted is answered or closed, also one that queues
\* behind the run of another, whose run throws, or that was still in the queue
\* when stop() was called.
EveryConnectionEnds ==
  \A c \in Conns : (conn[c] = "accepted") ~> (conn[c] = "closed")

\* Ctrl-C ends `testforge serve`, even when it arrives before the server is up
\* or while a run is being served.
SignalEndsServe == signalled ~> (mainpc = "exited")

\* The server never hangs, on a client or on its way out.
ServerSettles == EveryConnectionEnds /\ SignalEndsServe
=============================================================================
