----------------------------- MODULE HttpServer -----------------------------
(***************************************************************************)
(* HttpServer: an acceptor thread that polls the listening socket, a pool  *)
(* of workers that serve one connection each, a cap on the connections in  *)
(* flight, and stop() and wait() called from other threads.                *)
(*                                                                         *)
(* The pool is used through its promises (TaskLedger): a submitted task    *)
(* runs once a worker is free, in the order of submission, and shutdown()  *)
(* returns when none is left.  Which answer a request gets is the subject  *)
(* of HttpRequests; here a connection is open or closed.  The composition  *)
(* with the REST API is RestServer.                                        *)
(***************************************************************************)
EXTENDS Naturals, Sequences, FiniteSets

CONSTANTS Conns,       \* connections clients may open
          PoolSize,    \* max(1, config.workers)
          Cap,         \* max(1, config.maxPendingConnections)
          Stoppers,    \* threads that may call stop()
          Waiters      \* threads that may call wait()

ASSUME ConnsAssumption == IsFiniteSet(Conns) /\ "none" \notin Conns
ASSUME LimitsAssumption == PoolSize \in Nat \ {0} /\ Cap \in Nat \ {0}

VARIABLES
  serving,    \* the `running` flag
  listenFd,   \* "none", "open" or "closed"
  pool,       \* "none" or "up"
  queue,      \* connections submitted to the pool and not yet taken
  inFlight,
  apc,        \* where the acceptor is in acceptLoop()
  accepted,   \* the connection it has just accepted, or "none"
  conn,       \* where each connection is
  spc,        \* where each stopper is in stop()
  wpc         \* where each waiter is in wait()

server == <<serving, listenFd, pool, queue, inFlight, apc, accepted, conn, spc, wpc>>

\* Connections a worker is busy with.
Busy == {c \in Conns : conn[c] \in {"reading", "handling"}}

ServerInit ==
  /\ serving = FALSE
  /\ listenFd = "none" /\ pool = "none" /\ queue = <<>> /\ inFlight = 0
  /\ apc = "none" /\ accepted = "none"
  /\ conn = [c \in Conns |-> "outside"]
  /\ spc = [s \in Stoppers |-> "out"]
  /\ wpc = [w \in Waiters |-> "out"]

\* start(): socket, bind and listen succeeded; the pool and the acceptor exist.
Start ==
  /\ apc = "none"
  /\ serving' = TRUE /\ listenFd' = "open" /\ pool' = "up" /\ apc' = "check"
  /\ UNCHANGED <<queue, inFlight, accepted, conn, spc, wpc>>

\* A client connects while the kernel listens.
Connect(c) ==
  /\ conn[c] = "outside" /\ listenFd = "open"
  /\ conn' = [conn EXCEPT ![c] = "backlog"]
  /\ UNCHANGED <<serving, listenFd, pool, queue, inFlight, apc, accepted, spc, wpc>>

-----------------------------------------------------------------------------
(* acceptLoop()                                                            *)

\* Mutant: the acceptor does not look at the flag.
BugLoopAlways ==
  /\ apc = "check"
  /\ apc' = "poll"
  /\ UNCHANGED <<serving, listenFd, pool, queue, inFlight, accepted, conn, spc, wpc>>

LoopTest ==
  /\ apc = "check"
  /\ apc' = IF serving THEN "poll" ELSE "exited"
  /\ UNCHANGED <<serving, listenFd, pool, queue, inFlight, accepted, conn, spc, wpc>>

\* poll() returns within 200 ms, ready or not.
Poll ==
  /\ apc = "poll"
  /\ apc' = IF \E c \in Conns : conn[c] = "backlog" THEN "accept" ELSE "check"
  /\ UNCHANGED <<serving, listenFd, pool, queue, inFlight, accepted, conn, spc, wpc>>

\* accept() returns a connection, or fails and the loop goes on.
AcceptConn(c) ==
  /\ apc = "accept" /\ conn[c] = "backlog"
  /\ conn' = [conn EXCEPT ![c] = "accepted"]
  /\ accepted' = c
  /\ apc' = "admit"
  /\ UNCHANGED <<serving, listenFd, pool, queue, inFlight, spc, wpc>>

AcceptFails ==
  /\ apc = "accept"
  /\ apc' = "check"
  /\ UNCHANGED <<serving, listenFd, pool, queue, inFlight, accepted, conn, spc, wpc>>

CloseConn(c) == conn' = [conn EXCEPT ![c] = "closed"]

Refuse ==
  /\ apc = "admit" /\ inFlight >= Cap
  /\ CloseConn(accepted)
  /\ accepted' = "none" /\ apc' = "check"
  /\ UNCHANGED <<serving, listenFd, pool, queue, inFlight, spc, wpc>>

\* Mutant: the cap is compared off by one.
BugCountLate ==
  /\ apc = "admit" /\ inFlight <= Cap
  /\ inFlight' = inFlight + 1
  /\ apc' = "submit"
  /\ UNCHANGED <<serving, listenFd, pool, queue, accepted, conn, spc, wpc>>

Count ==
  /\ apc = "admit" /\ inFlight < Cap
  /\ inFlight' = inFlight + 1
  /\ apc' = "submit"
  /\ UNCHANGED <<serving, listenFd, pool, queue, accepted, conn, spc, wpc>>

\* pool->submit().  Its exception for a pool that is shutting down cannot
\* happen: stop() shuts the pool down after the acceptor has left
\* (AcceptorOwnsItsResources).
SubmitConn ==
  /\ apc = "submit"
  /\ conn' = [conn EXCEPT ![accepted] = "queued"]
  /\ queue' = Append(queue, accepted)
  /\ accepted' = "none" /\ apc' = "check"
  /\ UNCHANGED <<serving, listenFd, pool, inFlight, spc, wpc>>

-----------------------------------------------------------------------------
(* handleConnection(), on a worker of the pool                             *)

TakeConn ==
  /\ queue # <<>> /\ Cardinality(Busy) < PoolSize
  /\ conn' = [conn EXCEPT ![Head(queue)] = "reading"]
  /\ queue' = Tail(queue)
  /\ UNCHANGED <<serving, listenFd, pool, inFlight, apc, accepted, spc, wpc>>

\* Mutant: an early return gets past the guard that counts down.
BugRefuseUncounted(c) ==
  /\ conn[c] = "reading"
  /\ CloseConn(c)
  /\ UNCHANGED <<serving, listenFd, pool, queue, inFlight, apc, accepted, spc, wpc>>

\* The request is refused (HttpRequests!Refusal) or its client is gone, and the
\* function returns early; ~FdGuard, ~InFlightGuard.
ReadRefused(c) ==
  /\ conn[c] = "reading"
  /\ CloseConn(c)
  /\ inFlight' = inFlight - 1
  /\ UNCHANGED <<serving, listenFd, pool, queue, apc, accepted, spc, wpc>>

\* The request has been read, with as much of its body as arrived.
ReadRequest(c) ==
  /\ conn[c] = "reading"
  /\ conn' = [conn EXCEPT ![c] = "handling"]
  /\ UNCHANGED <<serving, listenFd, pool, queue, inFlight, apc, accepted, spc, wpc>>

\* The response is written as far as the client takes it; the guards close and
\* count down.
WriteResponse(c) ==
  /\ conn[c] = "handling"
  /\ CloseConn(c)
  /\ inFlight' = inFlight - 1
  /\ UNCHANGED <<serving, listenFd, pool, queue, apc, accepted, spc, wpc>>

-----------------------------------------------------------------------------
(* stop()                                                                  *)

At(s, from, to) == spc[s] = from /\ spc' = [spc EXCEPT ![s] = to]

\* running.exchange(false) by whoever comes first.
StopFirst(s) ==
  /\ At(s, "out", "join")
  /\ serving /\ serving' = FALSE
  /\ UNCHANGED <<listenFd, pool, queue, inFlight, apc, accepted, conn, wpc>>

StopAgain(s) ==
  /\ spc[s] \in {"out", "stopped"} /\ spc' = [spc EXCEPT ![s] = "returned"]
  /\ ~serving /\ apc # "none"
  /\ UNCHANGED <<serving, listenFd, pool, queue, inFlight, apc, accepted, conn, wpc>>

\* Mutant: the socket is closed to wake the acceptor, which is joined later.
BugCloseFirst(s) ==
  /\ At(s, "join", "close")
  /\ listenFd' = "closed"
  /\ UNCHANGED <<serving, pool, queue, inFlight, apc, accepted, conn, wpc>>

JoinAcceptor(s) ==
  /\ At(s, "join", "close")
  /\ apc = "exited"
  /\ UNCHANGED <<serving, listenFd, pool, queue, inFlight, apc, accepted, conn, wpc>>

\* The kernel resets the connections nobody has accepted.
CloseListenFd(s) ==
  /\ At(s, "close", "drain")
  /\ listenFd' = "closed"
  /\ conn' = [c \in Conns |-> IF conn[c] = "backlog" THEN "reset" ELSE conn[c]]
  /\ UNCHANGED <<serving, pool, queue, inFlight, apc, accepted, wpc>>

\* Mutant: the pool is shut down with shutdownNow().
BugDropQueued(s) ==
  /\ At(s, "drain", "notify")
  /\ Busy = {}
  /\ pool' = "none" /\ queue' = <<>>
  /\ UNCHANGED <<serving, listenFd, inFlight, apc, accepted, conn, wpc>>

\* pool->shutdown() returns once every submitted task has run.
DrainPool(s) ==
  /\ At(s, "drain", "notify")
  /\ queue = <<>> /\ Busy = {}
  /\ pool' = "none"
  /\ UNCHANGED <<serving, listenFd, queue, inFlight, apc, accepted, conn, wpc>>

\* stopSignal.notify_all(), without stopMutex.
NotifyStopped(s) ==
  /\ At(s, "notify", "stopped")
  /\ wpc' = [w \in Waiters |-> IF wpc[w] = "asleep" THEN "test" ELSE wpc[w]]
  /\ UNCHANGED <<serving, listenFd, pool, queue, inFlight, apc, accepted, conn>>

-----------------------------------------------------------------------------
(* wait()                                                                  *)

\* The predicate, under stopMutex; if it is false the thread goes to sleep in
\* a step of its own.
WaitTest(w) ==
  /\ wpc[w] \in {"out", "test"} /\ apc # "none"
  /\ wpc' = [wpc EXCEPT ![w] = IF serving THEN "drowsy" ELSE "returned"]
  /\ UNCHANGED <<serving, listenFd, pool, queue, inFlight, apc, accepted, conn, spc>>

WaitSleep(w) ==
  /\ wpc[w] = "drowsy"
  /\ wpc' = [wpc EXCEPT ![w] = "asleep"]
  /\ UNCHANGED <<serving, listenFd, pool, queue, inFlight, apc, accepted, conn, spc>>

Acceptor == \/ LoopTest \/ Poll \/ AcceptFails \/ Refuse \/ Count \/ SubmitConn
            \/ \E c \in Conns : AcceptConn(c)

Stop(s) == \/ JoinAcceptor(s) \/ CloseListenFd(s) \/ DrainPool(s) \/ NotifyStopped(s)

Wait(w) == WaitTest(w) \/ WaitSleep(w)

-----------------------------------------------------------------------------
\* The acceptor never uses the listening socket after stop() closed it (the
\* number may belong to another file by then), nor the pool after stop()
\* destroyed it: stop() joins the acceptor first.
AcceptorOwnsItsResources ==
  /\ apc \in {"poll", "accept"} => listenFd = "open"
  /\ apc \in {"admit", "submit"} => pool = "up"

\* Connections the process holds a descriptor for.
Held == {c \in Conns : conn[c] \in {"accepted", "queued"}} \cup Busy

\* The counter is exact, on every way a connection can end, so the cap neither
\* leaks (until the server refuses everybody) nor is exceeded: the process
\* holds at most Cap connections and the one the acceptor is deciding about.
InFlightExact ==
  /\ inFlight = Cardinality(Held) - (IF apc = "admit" THEN 1 ELSE 0)
  /\ inFlight <= Cap

\* The two together: every descriptor and the pool outlive their users, and the
\* count of the connections held is exact.
DescriptorsExact == AcceptorOwnsItsResources /\ InFlightExact

\* When the call of stop() that stops the server is through, no connection it
\* accepted is left open or unanswered, and none is accepted later.
StopDrains ==
  (\E s \in Stoppers : spc[s] = "stopped") =>
    /\ Held = {} /\ queue = <<>> /\ inFlight = 0
    /\ \A c \in Conns : conn[c] \in {"outside", "reset", "closed"}

\* What HttpServer.hpp says of wait(): it blocks until stop() is called.
WaitReturns ==
  \A w \in Waiters : (wpc[w] # "out" /\ \E s \in Stoppers : spc[s] # "out") ~> (wpc[w] = "returned")
=============================================================================
