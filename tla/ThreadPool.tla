----------------------------- MODULE ThreadPool -----------------------------
(***************************************************************************)
(* testforge::ThreadPool: a fixed set of worker threads, one queue, two    *)
(* condition variables (workAvailable_, idle_) and a join guarded by a     *)
(* mutex of its own.                                                       *)
(*                                                                         *)
(* A critical section under mutex_ is one step.  What the code does after  *)
(* it releases the mutex (notify_one, notify_all, join) is a later step,   *)
(* so every other thread may run in between.  A condition variable is the  *)
(* set of threads whose control state says they are blocked in its wait(); *)
(* a notification moves them back to the test of the predicate.            *)
(***************************************************************************)
EXTENDS Integers, Sequences, FiniteSets

CONSTANTS Requested,  \* the constructor's `workers` argument
          Callers,    \* threads that use the pool from outside
          Tasks,      \* the callables they may submit, each at most once
          NoTask      \* a worker holds no task

ASSUME RequestedAssumption == Requested \in Nat
ASSUME CallersAssumption == IsFiniteSet(Callers)
ASSUME NoTaskAssumption == NoTask \notin Tasks

\* std::max<std::size_t>(1, workers)
WorkerCount == IF Requested > 1 THEN Requested ELSE 1

Workers == 1..WorkerCount

VARIABLES
  tasks,          \* tasks_, the queue
  pending,        \* pending_, queued + running
  stopping,       \* stopping_
  discardQueued,  \* discardQueued_
  joined,         \* joined_
  wpc,            \* where each worker is in workerLoop()
  held,           \* the local `task` of each worker
  cpc,            \* where each caller is
  joinIdx,        \* the loop position of the caller inside joinAll()
  future          \* the shared state of the future returned for each task

vars == <<tasks, pending, stopping, discardQueued, joined, wpc, held, cpc,
          joinIdx, future>>

poolState == <<tasks, pending, stopping, discardQueued, joined>>

\* "loop"   : about to lock mutex_ and test the wait predicate
\* "parked" : blocked in workAvailable_.wait()
\* "running": holds a task it took from the queue and is executing it
\* "ran"    : the task is over, pending_ not yet decremented
WorkerStates == {"loop", "parked", "running", "ran", "exited"}

\* "submitNotify", "stopNotify": mutex_ released, notification still to come
\* "idleCheck", "idleWait"     : in waitIdle(), testing or blocked in idle_.wait()
\* "joinLock", "joining"       : before and inside joinMutex_
CallerStates == {"ready", "submitNotify", "idleCheck", "idleWait",
                 "stopNotify", "joinLock", "joining"}

FutureStates == {"none", "pending", "value", "exception", "broken", "rejected"}

\* One type invariant: pending_ is an unsigned count, so a decrement too many
\* (the double accounting of a discarded task) would show as a negative value.
TypeOK == /\ tasks \in Seq(Tasks)
          /\ pending \in Nat
          /\ stopping \in BOOLEAN
          /\ discardQueued \in BOOLEAN
          /\ joined \in BOOLEAN
          /\ wpc \in [Workers -> WorkerStates]
          /\ held \in [Workers -> Tasks \cup {NoTask}]
          /\ cpc \in [Callers -> CallerStates]
          /\ joinIdx \in 1..(WorkerCount + 1)
          /\ future \in [Tasks -> FutureStates]

Init == /\ tasks = <<>>
        /\ pending = 0
        /\ stopping = FALSE
        /\ discardQueued = FALSE
        /\ joined = FALSE
        /\ wpc = [w \in Workers |-> "loop"]
        /\ held = [w \in Workers |-> NoTask]
        /\ cpc = [c \in Callers |-> "ready"]
        /\ joinIdx = 1
        /\ future = [t \in Tasks |-> "none"]

Queued(t) == \E i \in 1..Len(tasks) : tasks[i] = t

Busy == {w \in Workers : wpc[w] \in {"running", "ran"}}
Parked == {w \in Workers : wpc[w] = "parked"}
Awake == {w \in Workers : wpc[w] = "loop"}
Notifying == {c \in Callers : cpc[c] = "submitNotify"}

-----------------------------------------------------------------------------
(* Callers                                                                 *)

\* submit(): what its critical section does when the pool takes the task.
Enqueue(c, t) ==
  /\ cpc[c] = "ready"
  /\ future[t] = "none"
  /\ tasks' = Append(tasks, t)
  /\ pending' = pending + 1
  /\ cpc' = [cpc EXCEPT ![c] = "submitNotify"]
  /\ future' = [future EXCEPT ![t] = "pending"]
  /\ UNCHANGED <<stopping, discardQueued, joined, wpc, held, joinIdx>>

\* Mutant: the test of stopping_ is missing.
BugSubmitAfterStop(c, t) == Enqueue(c, t)

Submit(c, t) == ~stopping /\ Enqueue(c, t)

\* The future of a refused submission is never handed out: the call throws.
SubmitRefused(c, t) ==
  /\ cpc[c] = "ready"
  /\ future[t] = "none"
  /\ stopping
  /\ future' = [future EXCEPT ![t] = "rejected"]
  /\ UNCHANGED <<poolState, wpc, held, cpc, joinIdx>>

\* workAvailable_.notify_one(): lost when nobody waits.
WakeOne == \/ Parked = {} /\ UNCHANGED wpc
           \/ \E w \in Parked : wpc' = [wpc EXCEPT ![w] = "loop"]

\* Mutant: submit() forgets the notification.
BugNotifyNobody(c) ==
  /\ cpc[c] = "submitNotify"
  /\ cpc' = [cpc EXCEPT ![c] = "ready"]
  /\ UNCHANGED <<poolState, wpc, held, joinIdx, future>>

NotifyOne(c) ==
  /\ cpc[c] = "submitNotify"
  /\ cpc' = [cpc EXCEPT ![c] = "ready"]
  /\ WakeOne
  /\ UNCHANGED <<poolState, held, joinIdx, future>>

\* waitIdle(): lock and enter idle_.wait() with its predicate.
WaitIdle(c) ==
  /\ cpc[c] = "ready"
  /\ cpc' = [cpc EXCEPT ![c] = "idleCheck"]
  /\ UNCHANGED <<poolState, wpc, held, joinIdx, future>>

IdleCheck(c) ==
  /\ cpc[c] = "idleCheck"
  /\ cpc' = [cpc EXCEPT ![c] = IF pending = 0 THEN "ready" ELSE "idleWait"]
  /\ UNCHANGED <<poolState, wpc, held, joinIdx, future>>

\* The critical section of shutdown() (discard = FALSE) and of shutdownNow().
Stop(c, discard) ==
  /\ cpc[c] = "ready"
  /\ stopping' = TRUE
  /\ discardQueued' = discard
  /\ cpc' = [cpc EXCEPT ![c] = "stopNotify"]
  /\ UNCHANGED <<tasks, pending, joined, wpc, held, joinIdx, future>>

Shutdown(c) == Stop(c, FALSE)

ShutdownNow(c) == Stop(c, TRUE)

\* workAvailable_.notify_all(), then on to joinAll().
WakeAll == wpc' = [w \in Workers |-> IF wpc[w] = "parked" THEN "loop" ELSE wpc[w]]

\* Mutant: notify_one() where notify_all() is needed.
BugStopWakesOne(c) ==
  /\ cpc[c] = "stopNotify"
  /\ cpc' = [cpc EXCEPT ![c] = "joinLock"]
  /\ WakeOne
  /\ UNCHANGED <<poolState, held, joinIdx, future>>

NotifyAll(c) ==
  /\ cpc[c] = "stopNotify"
  /\ cpc' = [cpc EXCEPT ![c] = "joinLock"]
  /\ WakeAll
  /\ UNCHANGED <<poolState, held, joinIdx, future>>

\* joinAll() inside joinMutex_: return at once if someone joined before.
EnterJoin(c) ==
  /\ cpc[c] = "joinLock"
  /\ cpc' = [cpc EXCEPT ![c] = IF joined THEN "ready" ELSE "joining"]
  /\ joinIdx' = 1
  /\ UNCHANGED <<poolState, wpc, held, future>>

\* Mutant: no joinMutex_.
BugJoinNoMutex(c) == EnterJoin(c)

\* Mutant: the second of two concurrent callers returns instead of waiting.
BugJoinTryLock(c) ==
  IF \A d \in Callers : cpc[d] # "joining"
  THEN EnterJoin(c)
  ELSE /\ cpc[c] = "joinLock"
       /\ cpc' = [cpc EXCEPT ![c] = "ready"]
       /\ UNCHANGED <<poolState, wpc, held, joinIdx, future>>

JoinLock(c) == (\A d \in Callers : cpc[d] # "joining") /\ EnterJoin(c)

\* worker.join() returns when the thread function has returned.
StepJoin(c) ==
  /\ cpc[c] = "joining"
  /\ joinIdx <= WorkerCount
  /\ joinIdx' = joinIdx + 1
  /\ UNCHANGED <<poolState, wpc, held, cpc, future>>

\* Mutant: the worker is not waited for.
BugJoinWithoutWaiting(c) == StepJoin(c)

JoinWorker(c) == StepJoin(c) /\ wpc[joinIdx] = "exited"

\* joined_ = true and release of joinMutex_.
JoinFinish(c) ==
  /\ cpc[c] = "joining"
  /\ joinIdx = WorkerCount + 1
  /\ joined' = TRUE
  /\ cpc' = [cpc EXCEPT ![c] = "ready"]
  /\ UNCHANGED <<tasks, pending, stopping, discardQueued, wpc, held, joinIdx,
                 future>>

-----------------------------------------------------------------------------
(* Workers: each action starts by locking mutex_ at the top of the loop    *)

\* The predicate is false: wait() releases the mutex and blocks.
Park(w) ==
  /\ wpc[w] = "loop"
  /\ tasks = <<>> /\ ~stopping
  /\ wpc' = [wpc EXCEPT ![w] = "parked"]
  /\ UNCHANGED <<poolState, held, cpc, joinIdx, future>>

\* return from workerLoop().
Leave(w) ==
  /\ wpc[w] = "loop"
  /\ stopping
  /\ wpc' = [wpc EXCEPT ![w] = "exited"]
  /\ UNCHANGED <<poolState, held, cpc, joinIdx, future>>

\* Mutant: shutdown() does not drain, a stopping worker leaves its queue behind.
BugExitWithWork(w) == Leave(w)

\* Woken with nothing left to do.
Exit(w) == tasks = <<>> /\ Leave(w)

\* idle_.notify_all()
WakeIdlers == cpc' = [c \in Callers |-> IF cpc[c] = "idleWait" THEN "idleCheck"
                                        ELSE cpc[c]]

\* Drop the queue, leaving `left` as the count.  Destroying a packaged_task
\* breaks its promise.
DropQueue(w, left) ==
  /\ wpc[w] = "loop"
  /\ tasks # <<>> /\ stopping /\ discardQueued
  /\ tasks' = <<>>
  /\ pending' = left
  /\ future' = [t \in Tasks |-> IF Queued(t) THEN "broken" ELSE future[t]]
  /\ wpc' = [wpc EXCEPT ![w] = "exited"]
  /\ UNCHANGED <<stopping, discardQueued, joined, held, joinIdx>>

\* Mutants: the dropped tasks are not counted off; the count is cleared though
\* other workers still run; the waiters of waitIdle() are not told.
BugDiscardUncounted(w) == DropQueue(w, pending) /\ WakeIdlers
BugDiscardClears(w) == DropQueue(w, 0) /\ WakeIdlers
BugDiscardUnannounced(w) == DropQueue(w, pending - Len(tasks)) /\ UNCHANGED cpc

Discard(w) == DropQueue(w, pending - Len(tasks)) /\ WakeIdlers

\* Take the front task, leaving `rest` queued, and release the mutex.
Take(w, rest) ==
  /\ wpc[w] = "loop"
  /\ tasks # <<>> /\ ~(stopping /\ discardQueued)
  /\ held' = [held EXCEPT ![w] = Head(tasks)]
  /\ tasks' = rest
  /\ wpc' = [wpc EXCEPT ![w] = "running"]
  /\ UNCHANGED <<pending, stopping, discardQueued, joined, cpc, joinIdx, future>>

\* Mutant: the front is read but not popped.
BugPopKeepsFront(w) == Take(w, tasks)

Pop(w) == Take(w, Tail(tasks))

\* task(): the packaged_task stores a value or the exception in its future.
RunTask(w) ==
  /\ wpc[w] = "running"
  /\ \E outcome \in {"value", "exception"} :
        future' = [future EXCEPT ![held[w]] = outcome]
  /\ wpc' = [wpc EXCEPT ![w] = "ran"]
  /\ UNCHANGED <<poolState, held, cpc, joinIdx>>

\* --pending_, idle_.notify_all() on zero, end of the iteration (`task` dies).
Account(w) ==
  /\ wpc[w] = "ran"
  /\ pending' = pending - 1
  /\ IF pending' = 0 THEN WakeIdlers ELSE UNCHANGED cpc
  /\ held' = [held EXCEPT ![w] = NoTask]
  /\ wpc' = [wpc EXCEPT ![w] = "loop"]
  /\ UNCHANGED <<tasks, stopping, discardQueued, joined, joinIdx, future>>

-----------------------------------------------------------------------------
(* Both condition variables may wake a waiter without a notification.      *)

SpuriousWorkWakeup(w) ==
  /\ wpc[w] = "parked"
  /\ wpc' = [wpc EXCEPT ![w] = "loop"]
  /\ UNCHANGED <<poolState, held, cpc, joinIdx, future>>

SpuriousIdleWakeup(c) ==
  /\ cpc[c] = "idleWait"
  /\ cpc' = [cpc EXCEPT ![c] = "idleCheck"]
  /\ UNCHANGED <<poolState, wpc, held, joinIdx, future>>

-----------------------------------------------------------------------------
WorkerStep(w) == Park(w) \/ Exit(w) \/ Discard(w) \/ Pop(w) \/ RunTask(w)
                 \/ Account(w)

\* The rest of a call that has begun.
CallerStep(c) == NotifyOne(c) \/ IdleCheck(c) \/ NotifyAll(c) \/ JoinLock(c)
                 \/ JoinWorker(c) \/ JoinFinish(c)

\* The start of a new call.
CallerBegin(c) == \/ \E t \in Tasks : Submit(c, t) \/ SubmitRefused(c, t)
                  \/ WaitIdle(c) \/ Shutdown(c) \/ ShutdownNow(c)

Next == \/ \E w \in Workers : WorkerStep(w) \/ SpuriousWorkWakeup(w)
        \/ \E c \in Callers : CallerStep(c) \/ CallerBegin(c) \/ SpuriousIdleWakeup(c)

Spec == Init /\ [][Next]_vars

\* Every runnable thread is scheduled and every task returns.  Nobody is
\* obliged to start a call, and no spurious wakeup is promised.
Fairness == /\ \A w \in Workers : WF_vars(WorkerStep(w))
            /\ \A c \in Callers : WF_vars(CallerStep(c))

FairSpec == Spec /\ Fairness

-----------------------------------------------------------------------------
(* Properties                                                              *)

\* pending_ is exactly "queued + running": the count waitIdle() trusts never
\* drifts, whatever mixture of discarding, draining and running happens.
PendingExact == pending = Len(tasks) + Cardinality(Busy)

\* No lost wakeup on workAvailable_: while a worker sleeps, every queued task
\* is matched by a worker already on its way to the queue or by a notify_one()
\* still to come, and a worker sleeps through stopping_ only as long as a
\* notify_all() is still to come (notifications happen after the unlock).
NoLostWakeup ==
  Parked # {} =>
     /\ Len(tasks) <= Cardinality(Awake) + Cardinality(Notifying)
     /\ stopping => \E c \in Callers : cpc[c] = "stopNotify"

\* Nobody sleeps in waitIdle() once the pool is idle: the last decrement of
\* pending_, in Account or in Discard, always wakes every waiter.
NoSleepWhenIdle == pending = 0 => \A c \in Callers : cpc[c] # "idleWait"

\* Every unsettled future has exactly one owner that will settle it: its task
\* is queued once or is in the hands of one running worker, never both.
OneOwnerPerPromise ==
  /\ \A i, j \in 1..Len(tasks) : tasks[i] = tasks[j] => i = j
  /\ \A v, w \in Workers :
        wpc[v] = "running" /\ wpc[w] = "running" /\ held[v] = held[w] => v = w
  /\ \A t \in Tasks : LET runner == \E w \in Workers : wpc[w] = "running" /\ held[w] = t
                      IN /\ future[t] = "pending" <=> Queued(t) \/ runner
                         /\ ~(Queued(t) /\ runner)

\* Once the workers are joined the pool is quiet: all threads are gone and no
\* accepted task, count or future was left behind by either kind of shutdown.
QuietAfterJoin ==
  joined => /\ \A w \in Workers : wpc[w] = "exited"
            /\ tasks = <<>> /\ pending = 0
            /\ \A t \in Tasks : future[t] # "pending"

\* Two shutdown calls never join the same std::thread concurrently.
OneJoiner == \A c, d \in Callers : cpc[c] = "joining" /\ cpc[d] = "joining" => c = d

\* A call of shutdown() or shutdownNow() that returns in this step does so after
\* all workers have returned.
ReturnsQuiet ==
  \A c \in Callers : cpc[c] \in {"joinLock", "joining"} /\ cpc'[c] = "ready"
                       => joined' /\ \A w \in Workers : wpc[w] = "exited"

\* Every such call, the second of two concurrent ones included, does.
ShutdownReturnsQuiet == [][ReturnsQuiet]_vars

\* The two condition variables never strand a thread: the count they are
\* guarded by is exact, a worker never sleeps beside work or a stop it will not
\* be told of, and nobody sleeps in waitIdle() on an idle pool.
WakeupsExact == PendingExact /\ NoLostWakeup /\ NoSleepWhenIdle

\* Shutting down is safe from any number of threads: one of them joins, all of
\* them return only after the workers have, and nothing is left behind.
JoinSafe == [][QuietAfterJoin' /\ OneJoiner' /\ ReturnsQuiet]_vars

\* What has become of a task, as the ledger knows it.
LedgerStatus(t) ==
  CASE future[t] = "none" -> "none"
    [] future[t] = "rejected" -> "refused"
    [] future[t] = "broken" -> "dropped"
    [] future[t] \in {"value", "exception"} -> "done"
    [] future[t] = "pending" /\ Queued(t) -> "accepted"
    [] OTHER -> "running"

ledger == [t \in Tasks |-> LedgerStatus(t)]

Ledger == INSTANCE TaskLedger WITH
  Capacity <- WorkerCount, closed <- stopping, quiet <- joined, status <- ledger

\* The pool keeps the promise of TaskLedger.
KeepsLedger == Ledger!LSpec

\* Every accepted task's future becomes ready: its value, its exception or
\* broken_promise.
EveryFutureSettles == \A t \in Tasks : future[t] = "pending" ~> future[t] # "pending"

\* waitIdle() returns, also across a shutdownNow() that drops the queue.
WaitIdleReturns == \A c \in Callers : cpc[c] \in {"idleCheck", "idleWait"} ~> cpc[c] = "ready"

\* shutdown() and shutdownNow() return, concurrent calls included.
ShutdownReturns == \A c \in Callers : cpc[c] = "stopNotify" ~> cpc[c] = "ready"

\* Nobody waits for ever: every future settles and every blocking call of the
\* pool returns, whatever the other callers do meanwhile.
CallersReturn == EveryFutureSettles /\ WaitIdleReturns /\ ShutdownReturns
=============================================================================
