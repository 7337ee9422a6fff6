----------------------------- MODULE TaskLedger -----------------------------
(***************************************************************************)
(* What the thread pool promises to a caller of submit(), without threads, *)
(* locks or condition variables.  A task is refused only once the pool is  *)
(* closed; an accepted task is started at most once and then finished, or  *)
(* dropped (its future reports broken_promise) only after shutdownNow();   *)
(* never more tasks run than there are workers; and once the pool is quiet *)
(* no accepted task is left over.                                          *)
(***************************************************************************)
EXTENDS Naturals, FiniteSets

CONSTANTS Tasks,      \* the callables clients may submit
          Capacity    \* how many may run at once

VARIABLES status,     \* what has become of each task
          closed,     \* shutdown() or shutdownNow() has been called
          quiet       \* a shutdown call has joined the workers

lvars == <<status, closed, quiet>>

Statuses == {"none", "accepted", "running", "done", "dropped", "refused"}

In(s) == {t \in Tasks : status[t] = s}

LInit == /\ status = [t \in Tasks |-> "none"]
         /\ closed = FALSE
         /\ quiet = FALSE

\* Some tasks in state s move to state r.
Move(S, r) == /\ status' = [t \in Tasks |-> IF t \in S THEN r ELSE status[t]]
              /\ UNCHANGED <<closed, quiet>>

Accept == ~closed /\ \E t \in In("none") : Move({t}, "accepted")

Refuse == closed /\ \E t \in In("none") : Move({t}, "refused")

Start == /\ Cardinality(In("running")) < Capacity
         /\ \E t \in In("accepted") : Move({t}, "running")

Finish == \E t \in In("running") : Move({t}, "done")

DropBacklog == closed /\ In("accepted") # {} /\ Move(In("accepted"), "dropped")

Close == closed' = TRUE /\ UNCHANGED <<status, quiet>>

Quiesce == /\ closed
           /\ In("accepted") \cup In("running") = {}
           /\ quiet' = TRUE
           /\ UNCHANGED <<status, closed>>

LNext == \/ Accept \/ Refuse \/ Start \/ Finish
         \/ DropBacklog \/ Close \/ Quiesce

LSpec == LInit /\ [][LNext]_lvars
=============================================================================
