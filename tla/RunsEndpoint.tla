---------------------------- MODULE RunsEndpoint ----------------------------
(***************************************************************************)
(* POST /api/runs of the REST API: handlers on the server's worker threads *)
(* that start runs through the service.  Each client of the service is a   *)
(* handler with one request; nothing cancels a run started this way.       *)
(***************************************************************************)
EXTENDS TestForgeService

VARIABLES hpc,    \* where each handler is
          answer  \* the status it answered with, or 0

handlers == <<hpc, answer>>

EndpointTypeOK ==
  /\ TypeOK
  /\ hpc \in [Clients -> {"waiting", "accepted", "running", "answered"}]
  /\ answer \in [Clients -> {0, 200, 400, 409, 500}]

EndpointInit ==
  /\ Init
  /\ hpc = [h \in Clients |-> "waiting"]
  /\ answer = [h \in Clients |-> 0]

Answer(h, status) ==
  /\ hpc' = [hpc EXCEPT ![h] = "answered"]
  /\ answer' = [answer EXCEPT ![h] = status]
  /\ UNCHANGED service

\* runInProgress() is looked at before anything else.
Conflict(h) == hpc[h] = "waiting" /\ running /\ Answer(h, 409)

Accept(h) ==
  /\ hpc[h] = "waiting" /\ ~running
  /\ hpc' = [hpc EXCEPT ![h] = "accepted"]
  /\ UNCHANGED <<service, answer>>

\* The body is not JSON.
InvalidJson(h) == hpc[h] = "accepted" /\ Answer(h, 400)

HandlerCalls(h) ==
  /\ hpc[h] = "accepted"
  /\ hpc' = [hpc EXCEPT ![h] = "running"]
  /\ CallRun(h)
  /\ UNCHANGED answer

HandlerRuns(h) == hpc[h] = "running" /\ InRun(h) /\ UNCHANGED handlers

\* 200 whatever the verdict; an exception becomes 500 in the HTTP server.
Respond(h) ==
  /\ hpc[h] = "running" /\ rpc[h] = "returned"
  /\ Answer(h, IF result[h] = Threw THEN 500 ELSE 200)

Handler(h) == \/ Conflict(h) \/ Accept(h) \/ InvalidJson(h) \/ HandlerCalls(h)
              \/ HandlerRuns(h) \/ Respond(h)
=============================================================================
