-------------------------- MODULE ThreadPoolProofs --------------------------
(***************************************************************************)
(* Proofs about ThreadPool for any number of workers, callers and tasks.   *)
(***************************************************************************)
EXTENDS ThreadPool, FiniteSetTheorems, TLAPS

\* TypeOK with pending_ as a plain integer: what a single step shows without
\* knowing that the count is exact.
TypeInt == /\ tasks \in Seq(Tasks)
           /\ pending \in Int
           /\ stopping \in BOOLEAN
           /\ discardQueued \in BOOLEAN
           /\ joined \in BOOLEAN
           /\ wpc \in [Workers -> WorkerStates]
           /\ held \in [Workers -> Tasks \cup {NoTask}]
           /\ cpc \in [Callers -> CallerStates]
           /\ joinIdx \in 1..(WorkerCount + 1)
           /\ future \in [Tasks -> FutureStates]

\* The pool has a positive number of workers, whatever was asked for.
LEMMA WorkerCountPositive == WorkerCount \in Nat /\ WorkerCount >= 1 /\ 1 \in Workers
BY RequestedAssumption DEF WorkerCount, Workers

\* The set of workers is finite, so sets of workers can be counted.
LEMMA WorkersFinite == IsFiniteSet(Workers)
BY WorkerCountPositive, FS_Interval DEF Workers

\* Every step keeps the types, up to the sign of pending_.
LEMMA StepTypeInt == TypeOK /\ [Next]_vars => TypeInt'
<1> SUFFICES ASSUME TypeOK, [Next]_vars PROVE TypeInt' OBVIOUS
<1> USE WorkerCountPositive DEF TypeOK, TypeInt, WorkerStates, CallerStates, FutureStates, poolState
<1>1. ASSUME NEW c \in Callers, NEW t \in Tasks, Submit(c, t) PROVE TypeInt'
  BY <1>1 DEF Submit, Enqueue
<1>2. ASSUME NEW c \in Callers, NEW t \in Tasks, SubmitRefused(c, t) PROVE TypeInt'
  BY <1>2 DEF SubmitRefused
<1>3. ASSUME NEW c \in Callers, NotifyOne(c) PROVE TypeInt'
  BY <1>3 DEF NotifyOne, WakeOne, Parked
<1>4. ASSUME NEW c \in Callers, WaitIdle(c) PROVE TypeInt'
  BY <1>4 DEF WaitIdle
<1>5. ASSUME NEW c \in Callers, IdleCheck(c) PROVE TypeInt'
  BY <1>5 DEF IdleCheck
<1>6. ASSUME NEW c \in Callers, Shutdown(c) PROVE TypeInt'
  <2>1. discardQueued' \in BOOLEAN
    BY <1>6, Zenon DEF Shutdown, Stop
  <2> QED
    BY <1>6, <2>1 DEF Shutdown, Stop
<1>7. ASSUME NEW c \in Callers, ShutdownNow(c) PROVE TypeInt'
  BY <1>7 DEF ShutdownNow, Stop
<1>8. ASSUME NEW c \in Callers, NotifyAll(c) PROVE TypeInt'
  BY <1>8 DEF NotifyAll, WakeAll
<1>9. ASSUME NEW c \in Callers, JoinLock(c) PROVE TypeInt'
  BY <1>9 DEF JoinLock, EnterJoin
<1>10. ASSUME NEW c \in Callers, JoinWorker(c) PROVE TypeInt'
  BY <1>10 DEF JoinWorker, StepJoin
<1>11. ASSUME NEW c \in Callers, JoinFinish(c) PROVE TypeInt'
  BY <1>11 DEF JoinFinish
<1>12. ASSUME NEW c \in Callers, SpuriousIdleWakeup(c) PROVE TypeInt'
  BY <1>12 DEF SpuriousIdleWakeup
<1>13. ASSUME NEW w \in Workers, Park(w) PROVE TypeInt'
  BY <1>13 DEF Park
<1>14. ASSUME NEW w \in Workers, Exit(w) PROVE TypeInt'
  BY <1>14 DEF Exit, Leave
<1>15. ASSUME NEW w \in Workers, Discard(w) PROVE TypeInt'
  BY <1>15 DEF Discard, DropQueue, WakeIdlers
<1>16. ASSUME NEW w \in Workers, Pop(w) PROVE TypeInt'
  BY <1>16 DEF Pop, Take
<1>17. ASSUME NEW w \in Workers, RunTask(w) PROVE TypeInt'
  <2>1. PICK outcome \in {"value", "exception"} :
           future' = [future EXCEPT ![held[w]] = outcome]
    BY <1>17 DEF RunTask
  <2>2. future' \in [Tasks -> FutureStates]
    BY <2>1
  <2> QED
    BY <1>17, <2>2 DEF RunTask
<1>18. ASSUME NEW w \in Workers, Account(w) PROVE TypeInt'
  <2>1. cpc' \in [Callers -> CallerStates]
    BY <1>18 DEF Account, WakeIdlers
  <2> QED
    BY <1>18, <2>1 DEF Account
<1>19. ASSUME NEW w \in Workers, SpuriousWorkWakeup(w) PROVE TypeInt'
  BY <1>19 DEF SpuriousWorkWakeup
<1>20. CASE UNCHANGED vars
  BY <1>20 DEF vars
<1> QED
  BY <1>1, <1>2, <1>3, <1>4, <1>5, <1>6, <1>7, <1>8, <1>9, <1>10, <1>11, <1>12,
     <1>13, <1>14, <1>15, <1>16, <1>17, <1>18, <1>19, <1>20
     DEF Next, WorkerStep, CallerStep, CallerBegin

\* Sets of workers are finite, so they can be counted.
LEMMA BusyFinite == IsFiniteSet(Busy) /\ Cardinality(Busy) \in Nat
BY WorkersFinite, FS_Subset, FS_CardinalityType DEF Busy

\* Every step keeps pending_ equal to queued + running.
LEMMA StepPending == TypeOK /\ PendingExact /\ [Next]_vars => PendingExact'
<1> SUFFICES ASSUME TypeOK, PendingExact, [Next]_vars PROVE PendingExact' OBVIOUS
<1> USE DEF TypeOK, PendingExact, WorkerStates, poolState
<1>1. ASSUME tasks' = tasks, pending' = pending, Busy' = Busy PROVE PendingExact'
  BY <1>1
<1>2. ASSUME NEW c \in Callers, NEW t \in Tasks, Submit(c, t) PROVE PendingExact'
  <2>1. Busy' = Busy
    BY <1>2 DEF Submit, Enqueue, Busy
  <2>2. Len(tasks') = Len(tasks) + 1 /\ pending' = pending + 1
    BY <1>2 DEF Submit, Enqueue
  <2> QED
    BY <2>1, <2>2, BusyFinite
<1>3. ASSUME NEW c \in Callers, NEW t \in Tasks, SubmitRefused(c, t) PROVE PendingExact'
  BY <1>1, <1>3 DEF SubmitRefused, Busy
<1>4. ASSUME NEW c \in Callers, CallerStep(c) \/ SpuriousIdleWakeup(c) PROVE PendingExact'
  <2>1. tasks' = tasks /\ pending' = pending
    BY <1>4 DEF CallerStep, NotifyOne, IdleCheck, NotifyAll, JoinLock, EnterJoin,
                JoinWorker, StepJoin, JoinFinish, SpuriousIdleWakeup
  <2>2. CASE NotifyOne(c)
    <3>1. Busy' = Busy
      BY <2>2 DEF NotifyOne, WakeOne, Parked, Busy
    <3> QED
      BY <1>1, <2>1, <3>1
  <2>3. CASE NotifyAll(c)
    <3>1. Busy' = Busy
      BY <2>3 DEF NotifyAll, WakeAll, Busy
    <3> QED
      BY <1>1, <2>1, <3>1
  <2>4. CASE \/ IdleCheck(c) \/ JoinLock(c) \/ JoinWorker(c) \/ JoinFinish(c)
             \/ SpuriousIdleWakeup(c)
    <3>1. wpc' = wpc
      BY <2>4 DEF IdleCheck, JoinLock, EnterJoin, JoinWorker, StepJoin, JoinFinish,
                  SpuriousIdleWakeup
    <3> QED
      BY <1>1, <2>1, <3>1 DEF Busy
  <2> QED
    BY <1>4, <2>2, <2>3, <2>4 DEF CallerStep
<1>5. ASSUME NEW c \in Callers, WaitIdle(c) \/ Shutdown(c) \/ ShutdownNow(c)
      PROVE PendingExact'
  BY <1>1, <1>5 DEF WaitIdle, Shutdown, ShutdownNow, Stop, Busy
<1>6. ASSUME NEW w \in Workers, Park(w) \/ Exit(w) \/ SpuriousWorkWakeup(w)
      PROVE PendingExact'
  <2>1. Busy' = Busy
    BY <1>6 DEF Park, Exit, Leave, SpuriousWorkWakeup, Busy
  <2> QED
    BY <1>1, <1>6, <2>1 DEF Park, Exit, Leave, SpuriousWorkWakeup
<1>7. ASSUME NEW w \in Workers, Discard(w) PROVE PendingExact'
  <2>1. Busy' = Busy
    BY <1>7 DEF Discard, DropQueue, Busy
  <2>2. Len(tasks') = 0 /\ pending' = pending - Len(tasks)
    BY <1>7 DEF Discard, DropQueue
  <2> QED
    BY <2>1, <2>2, BusyFinite
<1>8. ASSUME NEW w \in Workers, Pop(w) PROVE PendingExact'
  <2>1. Busy' = Busy \cup {w} /\ w \notin Busy
    BY <1>8 DEF Pop, Take, Busy
  <2>2. Cardinality(Busy') = Cardinality(Busy) + 1
    BY <2>1, BusyFinite, FS_AddElement
  <2>3. Len(tasks') = Len(tasks) - 1 /\ pending' = pending
    BY <1>8 DEF Pop, Take
  <2> QED
    BY <2>2, <2>3, BusyFinite
<1>9. ASSUME NEW w \in Workers, RunTask(w) PROVE PendingExact'
  <2>1. Busy' = Busy
    BY <1>9 DEF RunTask, Busy
  <2> QED
    BY <1>1, <1>9, <2>1 DEF RunTask
<1>10. ASSUME NEW w \in Workers, Account(w) PROVE PendingExact'
  <2>1. Busy' = Busy \ {w} /\ w \in Busy
    BY <1>10 DEF Account, Busy
  <2>2. Cardinality(Busy') = Cardinality(Busy) - 1
    BY <2>1, BusyFinite, FS_RemoveElement
  <2>3. tasks' = tasks /\ pending' = pending - 1
    BY <1>10 DEF Account
  <2> QED
    BY <2>2, <2>3, BusyFinite
<1>11. CASE UNCHANGED vars
  BY <1>1, <1>11 DEF vars, Busy
<1> QED
  BY <1>2, <1>3, <1>4, <1>5, <1>6, <1>7, <1>8, <1>9, <1>10, <1>11
     DEF Next, WorkerStep, CallerBegin

\* The initial state has the types and an exact count.
LEMMA InitExact == Init => TypeOK /\ PendingExact
<1> SUFFICES ASSUME Init PROVE TypeOK /\ PendingExact OBVIOUS
<1>1. TypeOK
  <2>1. stopping \in BOOLEAN /\ discardQueued \in BOOLEAN /\ joined \in BOOLEAN
    BY Zenon DEF Init
  <2>2. tasks \in Seq(Tasks) /\ pending \in Nat
    BY DEF Init
  <2>3. /\ wpc \in [Workers -> WorkerStates]
        /\ held \in [Workers -> Tasks \cup {NoTask}]
        /\ cpc \in [Callers -> CallerStates]
        /\ future \in [Tasks -> FutureStates]
    BY DEF Init, WorkerStates, CallerStates, FutureStates
  <2>4. joinIdx \in 1..(WorkerCount + 1)
    BY WorkerCountPositive DEF Init
  <2> QED
    BY <2>1, <2>2, <2>3, <2>4 DEF TypeOK
<1>2. Busy = {}
  BY DEF Init, Busy
<1> QED
  BY <1>1, <1>2, FS_EmptySet DEF Init, PendingExact

\* An exact count is not negative, so the types hold in full.
LEMMA StepTypeExact == TypeOK /\ PendingExact /\ [Next]_vars => TypeOK' /\ PendingExact'
<1> SUFFICES ASSUME TypeOK, PendingExact, [Next]_vars PROVE TypeOK' /\ PendingExact' OBVIOUS
<1>1. TypeInt' /\ PendingExact'
  BY StepTypeInt, StepPending
<1>2. Cardinality(Busy') \in Nat
  <2>1. Busy' \in SUBSET Workers
    BY DEF Busy
  <2> QED
    BY <2>1, WorkersFinite, FS_Subset, FS_CardinalityType
<1>3. Len(tasks') \in Nat
  BY <1>1 DEF TypeInt
<1>4. pending' \in Nat
  BY <1>1, <1>2, <1>3 DEF PendingExact
<1> QED
  BY <1>1, <1>4 DEF TypeInt, TypeOK

\* The pool's state keeps its types, in particular pending_, an unsigned
\* counter in the code, is never decremented below zero.
THEOREM TypeCorrect == Spec => []TypeOK
<1>1. Init => TypeOK /\ PendingExact
  BY InitExact
<1>2. TypeOK /\ PendingExact /\ [Next]_vars => TypeOK' /\ PendingExact'
  BY StepTypeExact
<1> QED
  BY <1>1, <1>2, PTL DEF Spec

\* pending_ counts exactly the queued and the running tasks in every state.
THEOREM PendingIsExact == Spec => []PendingExact
<1>1. Init => TypeOK /\ PendingExact
  BY InitExact
<1>2. TypeOK /\ PendingExact /\ [Next]_vars => TypeOK' /\ PendingExact'
  BY StepTypeExact
<1> QED
  BY <1>1, <1>2, PTL DEF Spec

-----------------------------------------------------------------------------
(* Wakeups                                                                 *)

\* Sets of workers and of callers can be counted in both states of a step.
LEMMA CountersFinite ==
  /\ IsFiniteSet(Awake) /\ Cardinality(Awake) \in Nat
  /\ IsFiniteSet(Notifying) /\ Cardinality(Notifying) \in Nat
<1>1. Awake \in SUBSET Workers /\ Notifying \in SUBSET Callers
  BY DEF Awake, Notifying
<1> QED
  BY <1>1, WorkersFinite, CallersAssumption, FS_Subset, FS_CardinalityType

\* Every step keeps sleeping workers covered by notifications to come.
LEMMA StepWakeup == TypeOK /\ TypeOK' /\ NoLostWakeup /\ [Next]_vars => NoLostWakeup'
<1> SUFFICES ASSUME TypeOK, TypeOK', NoLostWakeup, [Next]_vars, Parked' # {}
             PROVE  /\ Len(tasks') <= Cardinality(Awake') + Cardinality(Notifying')
                    /\ stopping' => \E c \in Callers : cpc'[c] = "stopNotify"
  BY DEF NoLostWakeup
<1> DEFINE Goal == /\ Len(tasks') <= Cardinality(Awake') + Cardinality(Notifying')
                   /\ stopping' => \E c \in Callers : cpc'[c] = "stopNotify"
<1>a. Cardinality(Awake') \in Nat /\ Cardinality(Notifying') \in Nat
  <2>1. Awake' \in SUBSET Workers /\ Notifying' \in SUBSET Callers
    BY DEF Awake, Notifying
  <2> QED
    BY <2>1, WorkersFinite, CallersAssumption, FS_Subset, FS_CardinalityType
<1>b. Len(tasks) \in Nat /\ Len(tasks') \in Nat
  BY DEF TypeOK
\* A step that leaves the queue, the workers' sleep and both kinds of notifiers alone.
<1>c. ASSUME tasks' = tasks, stopping' = stopping, wpc' = wpc,
             \A c \in Callers : cpc[c] = "submitNotify" <=> cpc'[c] = "submitNotify",
             \A c \in Callers : cpc[c] = "stopNotify" => cpc'[c] = "stopNotify"
      PROVE Goal
  <2>1. Parked' = Parked /\ Awake' = Awake /\ Notifying' = Notifying
    BY <1>c DEF Parked, Awake, Notifying
  <2> QED
    BY <1>c, <2>1 DEF NoLostWakeup
<1>1. ASSUME NEW c \in Callers, NEW t \in Tasks, Submit(c, t) PROVE Goal
  <2>1. Parked' = Parked /\ Awake' = Awake
    BY <1>1 DEF Submit, Enqueue, Parked, Awake
  <2>2. Notifying' = Notifying \cup {c} /\ c \notin Notifying
    BY <1>1 DEF Submit, Enqueue, Notifying, TypeOK
  <2>3. Cardinality(Notifying') = Cardinality(Notifying) + 1
    BY <2>2, CountersFinite, FS_AddElement
  <2>4. Len(tasks') = Len(tasks) + 1 /\ ~stopping'
    BY <1>1 DEF Submit, Enqueue, TypeOK
  <2>5. Len(tasks) <= Cardinality(Awake) + Cardinality(Notifying)
    BY <2>1 DEF NoLostWakeup
  <2>6. Len(tasks') <= Cardinality(Awake') + Cardinality(Notifying')
    BY <2>1, <2>3, <2>4, <2>5, <1>a, <1>b, CountersFinite
  <2> QED
    BY <2>4, <2>6
<1>2. ASSUME NEW c \in Callers, NEW t \in Tasks, SubmitRefused(c, t) PROVE Goal
  BY <1>2, <1>c DEF SubmitRefused, poolState
<1>3. ASSUME NEW c \in Callers, NotifyOne(c) PROVE Goal
  <2>1. tasks' = tasks /\ stopping' = stopping
    BY <1>3 DEF NotifyOne, poolState
  <2>2. PICK w \in Parked : wpc' = [wpc EXCEPT ![w] = "loop"]
    BY <1>3 DEF NotifyOne, WakeOne, Parked
  <2>3. Awake' = Awake \cup {w} /\ w \notin Awake
    BY <2>2 DEF Awake, Parked, TypeOK
  <2>4. Notifying' = Notifying \ {c} /\ c \in Notifying
    BY <1>3 DEF NotifyOne, Notifying, TypeOK
  <2>5. Cardinality(Awake') = Cardinality(Awake) + 1
    BY <2>3, CountersFinite, FS_AddElement
  <2>6. Cardinality(Notifying') = Cardinality(Notifying) - 1
    BY <2>4, CountersFinite, FS_RemoveElement
  <2>7. /\ Len(tasks) <= Cardinality(Awake) + Cardinality(Notifying)
        /\ stopping => \E d \in Callers : cpc[d] = "stopNotify"
    BY <2>2 DEF NoLostWakeup
  <2>8. Len(tasks') <= Cardinality(Awake') + Cardinality(Notifying')
    BY <2>1, <2>5, <2>6, <2>7, <1>a, <1>b, CountersFinite
  <2>9. stopping' => \E d \in Callers : cpc'[d] = "stopNotify"
    BY <1>3, <2>1, <2>7 DEF NotifyOne, TypeOK
  <2> QED
    BY <2>8, <2>9
<1>4. ASSUME NEW c \in Callers, WaitIdle(c) \/ IdleCheck(c) \/ SpuriousIdleWakeup(c) PROVE Goal
  BY <1>4, <1>c DEF WaitIdle, IdleCheck, SpuriousIdleWakeup, poolState, TypeOK
<1>5. ASSUME NEW c \in Callers, Shutdown(c) \/ ShutdownNow(c) PROVE Goal
  <2>1. Parked' = Parked /\ Awake' = Awake /\ Notifying' = Notifying
    BY <1>5 DEF Shutdown, ShutdownNow, Stop, Parked, Awake, Notifying, TypeOK
  <2>2. cpc'[c] = "stopNotify" /\ tasks' = tasks
    BY <1>5 DEF Shutdown, ShutdownNow, Stop, TypeOK
  <2> QED
    BY <2>1, <2>2 DEF NoLostWakeup
<1>6. ASSUME NEW c \in Callers, NotifyAll(c) PROVE Goal
  <2>1. Parked' = {}
    BY <1>6 DEF NotifyAll, WakeAll, Parked
  <2> QED
    BY <2>1
<1>7. ASSUME NEW c \in Callers, JoinLock(c) \/ JoinWorker(c) \/ JoinFinish(c) PROVE Goal
  BY <1>7, <1>c DEF JoinLock, EnterJoin, JoinWorker, StepJoin, JoinFinish, poolState, TypeOK
<1>8. ASSUME NEW w \in Workers, Park(w) PROVE Goal
  BY <1>8, <1>a DEF Park, poolState
<1>9. ASSUME NEW w \in Workers, Exit(w) PROVE Goal
  <2>1. Parked' = Parked /\ tasks' = <<>> /\ stopping' = stopping /\ cpc' = cpc
    BY <1>9 DEF Exit, Leave, Parked, poolState, TypeOK
  <2> QED
    BY <2>1, <1>a DEF NoLostWakeup
<1>10. ASSUME NEW w \in Workers, Discard(w) PROVE Goal
  <2>1. Parked' = Parked /\ tasks' = <<>> /\ stopping' = stopping
    BY <1>10 DEF Discard, DropQueue, Parked, TypeOK
  <2>2. \A c \in Callers : cpc[c] = "stopNotify" => cpc'[c] = "stopNotify"
    BY <1>10 DEF Discard, WakeIdlers
  <2> QED
    BY <2>1, <2>2, <1>a DEF NoLostWakeup
<1>11. ASSUME NEW w \in Workers, Pop(w) PROVE Goal
  <2>1. Parked' = Parked /\ Notifying' = Notifying /\ stopping' = stopping /\ cpc' = cpc
    BY <1>11 DEF Pop, Take, Parked, Notifying, TypeOK
  <2>2. Awake' = Awake \ {w} /\ w \in Awake
    BY <1>11 DEF Pop, Take, Awake, TypeOK
  <2>3. Cardinality(Awake') = Cardinality(Awake) - 1
    BY <2>2, CountersFinite, FS_RemoveElement
  <2>4. Len(tasks') = Len(tasks) - 1
    BY <1>11 DEF Pop, Take, TypeOK
  <2>5. Len(tasks) <= Cardinality(Awake) + Cardinality(Notifying)
    BY <2>1 DEF NoLostWakeup
  <2>6. Len(tasks') <= Cardinality(Awake') + Cardinality(Notifying')
    BY <2>1, <2>3, <2>4, <2>5, <1>a, <1>b, CountersFinite
  <2> QED
    BY <2>1, <2>6 DEF NoLostWakeup
<1>12. ASSUME NEW w \in Workers, RunTask(w) PROVE Goal
  <2>1. Parked' = Parked /\ Awake' = Awake
    BY <1>12 DEF RunTask, Parked, Awake, TypeOK
  <2>2. Notifying' = Notifying /\ tasks' = tasks /\ stopping' = stopping /\ cpc' = cpc
    BY <1>12 DEF RunTask, Notifying, poolState
  <2> QED
    BY <2>1, <2>2 DEF NoLostWakeup
<1>13. ASSUME NEW w \in Workers, Account(w) \/ SpuriousWorkWakeup(w) PROVE Goal
  <2>1. tasks' = tasks /\ stopping' = stopping
    BY <1>13 DEF Account, SpuriousWorkWakeup, poolState
  <2>2. /\ Parked' \subseteq Parked
        /\ Awake' = Awake \cup {w} /\ w \notin Awake
    BY <1>13 DEF Account, SpuriousWorkWakeup, Parked, Awake, TypeOK
  <2>3. Cardinality(Awake') = Cardinality(Awake) + 1
    BY <2>2, CountersFinite, FS_AddElement
  <2>4. /\ Notifying' = Notifying
        /\ \A c \in Callers : cpc[c] = "stopNotify" => cpc'[c] = "stopNotify"
    BY <1>13 DEF Account, SpuriousWorkWakeup, WakeIdlers, Notifying, TypeOK
  <2>5. /\ Len(tasks) <= Cardinality(Awake) + Cardinality(Notifying)
        /\ stopping => \E c \in Callers : cpc[c] = "stopNotify"
    BY <2>2 DEF NoLostWakeup
  <2>6. Len(tasks') <= Cardinality(Awake') + Cardinality(Notifying')
    BY <2>1, <2>3, <2>4, <2>5, <1>a, <1>b, CountersFinite
  <2> QED
    BY <2>1, <2>4, <2>5, <2>6
<1>14. CASE UNCHANGED vars
  BY <1>14, <1>c DEF vars
<1> QED
  BY <1>1, <1>2, <1>3, <1>4, <1>5, <1>6, <1>7, <1>8, <1>9, <1>10, <1>11, <1>12,
     <1>13, <1>14 DEF Next, WorkerStep, CallerStep, CallerBegin

\* No notification on workAvailable_ is ever lost: a worker sleeps only while
\* every queued task, and a pending stop, is covered by a wakeup still to come.
THEOREM WakeupsAreNotLost == Spec => []NoLostWakeup
<1>1. Init => TypeOK /\ PendingExact /\ NoLostWakeup
  <2>1. Init => NoLostWakeup
    BY DEF Init, NoLostWakeup, Parked
  <2> QED
    BY <2>1, InitExact
<1>2. TypeOK /\ PendingExact /\ NoLostWakeup /\ [Next]_vars
        => TypeOK' /\ PendingExact' /\ NoLostWakeup'
  BY StepTypeExact, StepWakeup
<1> QED
  BY <1>1, <1>2, PTL DEF Spec

-----------------------------------------------------------------------------
(* Idle waiters                                                            *)

\* Every step that brings pending_ to zero wakes the waiters of waitIdle().
LEMMA StepIdle == TypeOK /\ TypeOK' /\ NoSleepWhenIdle /\ [Next]_vars => NoSleepWhenIdle'
<1> SUFFICES ASSUME TypeOK, TypeOK', NoSleepWhenIdle, [Next]_vars, pending' = 0,
                    NEW c \in Callers
             PROVE  cpc'[c] # "idleWait"
  BY DEF NoSleepWhenIdle
<1> USE DEF TypeOK, NoSleepWhenIdle, poolState
<1>1. ASSUME pending' = pending,
             \A d \in Callers : cpc'[d] = "idleWait" => cpc[d] = "idleWait" \/ pending # 0
      PROVE cpc'[c] # "idleWait"
  BY <1>1
<1>2. ASSUME NEW d \in Callers, NEW t \in Tasks, Submit(d, t) \/ SubmitRefused(d, t)
      PROVE cpc'[c] # "idleWait"
  BY <1>2, <1>1 DEF Submit, Enqueue, SubmitRefused
<1>3. ASSUME NEW d \in Callers, CallerStep(d) PROVE cpc'[c] # "idleWait"
  BY <1>3, <1>1 DEF CallerStep, NotifyOne, IdleCheck, NotifyAll, JoinLock, EnterJoin,
                    JoinWorker, StepJoin, JoinFinish
<1>4. ASSUME NEW d \in Callers, \/ WaitIdle(d) \/ Shutdown(d) \/ ShutdownNow(d)
                                \/ SpuriousIdleWakeup(d)
      PROVE cpc'[c] # "idleWait"
  BY <1>4, <1>1 DEF WaitIdle, Shutdown, ShutdownNow, Stop, SpuriousIdleWakeup
<1>5. ASSUME NEW w \in Workers, \/ Park(w) \/ Exit(w) \/ Pop(w) \/ RunTask(w)
                                \/ SpuriousWorkWakeup(w)
      PROVE cpc'[c] # "idleWait"
  BY <1>5, <1>1 DEF Park, Exit, Leave, Pop, Take, RunTask, SpuriousWorkWakeup
<1>6. ASSUME NEW w \in Workers, Discard(w) \/ Account(w) PROVE cpc'[c] # "idleWait"
  BY <1>6 DEF Discard, DropQueue, Account, WakeIdlers
<1>7. CASE UNCHANGED vars
  BY <1>7, <1>1 DEF vars
<1> QED
  BY <1>2, <1>3, <1>4, <1>5, <1>6, <1>7 DEF Next, WorkerStep, CallerBegin

\* No caller of waitIdle() is asleep while the pool is idle.
THEOREM NobodySleepsWhenIdle == Spec => []NoSleepWhenIdle
<1>1. Init => TypeOK /\ PendingExact /\ NoSleepWhenIdle
  <2>1. Init => NoSleepWhenIdle
    BY DEF Init, NoSleepWhenIdle
  <2> QED
    BY <2>1, InitExact
<1>2. TypeOK /\ PendingExact /\ NoSleepWhenIdle /\ [Next]_vars
        => TypeOK' /\ PendingExact' /\ NoSleepWhenIdle'
  BY StepTypeExact, StepIdle
<1> QED
  BY <1>1, <1>2, PTL DEF Spec

-----------------------------------------------------------------------------
(* Promises                                                                *)

\* Every step keeps exactly one owner for every unsettled future.
LEMMA StepOwner == TypeOK /\ TypeOK' /\ OneOwnerPerPromise /\ [Next]_vars => OneOwnerPerPromise'
<1> SUFFICES ASSUME TypeOK, TypeOK', OneOwnerPerPromise, [Next]_vars
             PROVE  OneOwnerPerPromise'
  OBVIOUS
<1> USE DEF TypeOK
<1>1. ASSUME tasks' = tasks, future' = future, held' = held,
             \A w \in Workers : wpc'[w] = "running" <=> wpc[w] = "running"
      PROVE OneOwnerPerPromise'
  BY <1>1 DEF OneOwnerPerPromise, Queued
<1>2. ASSUME NEW c \in Callers, NEW t \in Tasks, Submit(c, t) PROVE OneOwnerPerPromise'
  <2>1. tasks' = Append(tasks, t) /\ future' = [future EXCEPT ![t] = "pending"]
        /\ held' = held /\ wpc' = wpc /\ future[t] = "none"
    BY <1>2 DEF Submit, Enqueue
  <2>2. ~Queued(t) /\ \A w \in Workers : ~(wpc[w] = "running" /\ held[w] = t)
    BY <2>1 DEF OneOwnerPerPromise
  <2>3. \A u \in Tasks : Queued(u)' <=> Queued(u) \/ u = t
    BY <2>1 DEF Queued
  <2>4. \A i, j \in 1..Len(tasks') : tasks'[i] = tasks'[j] => i = j
    BY <2>1, <2>2 DEF OneOwnerPerPromise, Queued
  <2> QED
    BY <2>1, <2>2, <2>3, <2>4 DEF OneOwnerPerPromise
<1>3. ASSUME NEW c \in Callers, NEW t \in Tasks, SubmitRefused(c, t) PROVE OneOwnerPerPromise'
  <2>1. future' = [future EXCEPT ![t] = "rejected"] /\ future[t] = "none"
        /\ tasks' = tasks /\ held' = held /\ wpc' = wpc
    BY <1>3 DEF SubmitRefused, poolState
  <2>2. \A u \in Tasks : future'[u] = "pending" <=> future[u] = "pending"
    BY <2>1
  <2> QED
    BY <2>1, <2>2 DEF OneOwnerPerPromise, Queued
<1>4. ASSUME NEW c \in Callers, \/ CallerStep(c) \/ SpuriousIdleWakeup(c) \/ WaitIdle(c)
                                \/ Shutdown(c) \/ ShutdownNow(c)
      PROVE OneOwnerPerPromise'
  BY <1>4, <1>1 DEF CallerStep, NotifyOne, WakeOne, Parked, IdleCheck, NotifyAll, WakeAll,
                    JoinLock, EnterJoin, JoinWorker, StepJoin, JoinFinish,
                    SpuriousIdleWakeup, WaitIdle, Shutdown, ShutdownNow, Stop, poolState
<1>5. ASSUME NEW w \in Workers, \/ Park(w) \/ Exit(w) \/ SpuriousWorkWakeup(w)
      PROVE OneOwnerPerPromise'
  BY <1>5, <1>1 DEF Park, Exit, Leave, SpuriousWorkWakeup, poolState
<1>6. ASSUME NEW w \in Workers, Discard(w) PROVE OneOwnerPerPromise'
  <2>1. /\ tasks' = <<>> /\ held' = held
        /\ future' = [t \in Tasks |-> IF Queued(t) THEN "broken" ELSE future[t]]
        /\ \A v \in Workers : wpc'[v] = "running" <=> wpc[v] = "running"
    BY <1>6 DEF Discard, DropQueue
  <2>2. \A t \in Tasks : ~Queued(t)'
    BY <2>1 DEF Queued
  <2> QED
    BY <2>1, <2>2 DEF OneOwnerPerPromise
<1>7. ASSUME NEW w \in Workers, Pop(w) PROVE OneOwnerPerPromise'
  <2>1. /\ tasks # <<>> /\ tasks' = Tail(tasks) /\ future' = future
        /\ held' = [held EXCEPT ![w] = Head(tasks)]
        /\ wpc[w] = "loop" /\ wpc' = [wpc EXCEPT ![w] = "running"]
    BY <1>7 DEF Pop, Take
  <2>2. Head(tasks) = tasks[1] /\ Head(tasks) \in Tasks /\ Queued(Head(tasks))
    BY <2>1 DEF Queued
  <2>3. /\ Len(tasks') = Len(tasks) - 1
        /\ \A i \in 1..Len(tasks') : tasks'[i] = tasks[i + 1]
    BY <2>1
  <2>4. \A i, j \in 1..Len(tasks') : tasks'[i] = tasks'[j] => i = j
    <3>1. SUFFICES ASSUME NEW i \in 1..Len(tasks'), NEW j \in 1..Len(tasks'),
                          tasks'[i] = tasks'[j]
                   PROVE  i = j
      OBVIOUS
    <3>2. i + 1 \in 1..Len(tasks) /\ j + 1 \in 1..Len(tasks)
      BY <2>3
    <3>3. tasks[i + 1] = tasks[j + 1]
      BY <2>3, <3>1
    <3>4. i + 1 = j + 1
      BY <3>2, <3>3 DEF OneOwnerPerPromise
    <3> QED
      BY <3>4
  <2>5. \A t \in Tasks : Queued(t)' <=> Queued(t) /\ t # Head(tasks)
    <3>1. ASSUME NEW t \in Tasks, Queued(t)' PROVE Queued(t) /\ t # Head(tasks)
      <4>1. PICK i \in 1..Len(tasks') : tasks'[i] = t
        BY <3>1 DEF Queued
      <4>2. i + 1 \in 1..Len(tasks) /\ 1 \in 1..Len(tasks) /\ tasks[i + 1] = t
        BY <4>1, <2>3
      <4>3. tasks[1] # t
        BY <4>2 DEF OneOwnerPerPromise
      <4> QED
        BY <2>2, <4>2, <4>3 DEF Queued
    <3>2. ASSUME NEW t \in Tasks, Queued(t), t # Head(tasks) PROVE Queued(t)'
      <4>1. PICK i \in 1..Len(tasks) : tasks[i] = t
        BY <3>2 DEF Queued
      <4>2. i # 1
        BY <4>1, <3>2, <2>2
      <4>3. i - 1 \in 1..Len(tasks') /\ tasks'[i - 1] = t
        BY <4>1, <4>2, <2>3
      <4> QED
        BY <4>3 DEF Queued
    <3> QED
      BY <3>1, <3>2
  <2>6. \A v \in Workers : ~(wpc[v] = "running" /\ held[v] = Head(tasks))
    BY <2>2 DEF OneOwnerPerPromise
  <2>7. \A v \in Workers : wpc'[v] = "running" <=> wpc[v] = "running" \/ v = w
    BY <2>1
  <2>8. \A v \in Workers : held'[v] = IF v = w THEN Head(tasks) ELSE held[v]
    BY <2>1
  <2>9. \A u, v \in Workers :
           wpc'[u] = "running" /\ wpc'[v] = "running" /\ held'[u] = held'[v] => u = v
    BY <2>6, <2>7, <2>8 DEF OneOwnerPerPromise
  <2>10. ASSUME NEW t \in Tasks
         PROVE LET runner == \E v \in Workers : wpc'[v] = "running" /\ held'[v] = t
               IN /\ future'[t] = "pending" <=> Queued(t)' \/ runner
                  /\ ~(Queued(t)' /\ runner)
    <3>1. (\E v \in Workers : wpc'[v] = "running" /\ held'[v] = t)
            <=> (\E v \in Workers : wpc[v] = "running" /\ held[v] = t) \/ t = Head(tasks)
      BY <2>1, <2>6, <2>7, <2>8
    <3>2. /\ future[t] = "pending" <=> Queued(t) \/ \E v \in Workers : wpc[v] = "running" /\ held[v] = t
          /\ ~(Queued(t) /\ \E v \in Workers : wpc[v] = "running" /\ held[v] = t)
      BY DEF OneOwnerPerPromise
    <3> QED
      BY <2>1, <2>2, <2>5, <3>1, <3>2
  <2> QED
    BY <2>4, <2>9, <2>10 DEF OneOwnerPerPromise
<1>8. ASSUME NEW w \in Workers, RunTask(w) PROVE OneOwnerPerPromise'
  <2>1. PICK outcome \in {"value", "exception"} :
           future' = [future EXCEPT ![held[w]] = outcome]
    BY <1>8 DEF RunTask
  <2>2. /\ tasks' = tasks /\ held' = held /\ wpc[w] = "running"
        /\ \A v \in Workers : wpc'[v] = "running" <=> wpc[v] = "running" /\ v # w
    BY <1>8 DEF RunTask, poolState
  <2>3. \A t \in Tasks : Queued(t)' <=> Queued(t)
    BY <2>2 DEF Queued
  <2>4. \A u, v \in Workers :
           wpc'[u] = "running" /\ wpc'[v] = "running" /\ held'[u] = held'[v] => u = v
    BY <2>2 DEF OneOwnerPerPromise
  <2>5. ASSUME NEW t \in Tasks
        PROVE LET runner == \E v \in Workers : wpc'[v] = "running" /\ held'[v] = t
              IN /\ future'[t] = "pending" <=> Queued(t)' \/ runner
                 /\ ~(Queued(t)' /\ runner)
    <3>1. /\ future[t] = "pending" <=> Queued(t) \/ \E v \in Workers : wpc[v] = "running" /\ held[v] = t
          /\ ~(Queued(t) /\ \E v \in Workers : wpc[v] = "running" /\ held[v] = t)
      BY DEF OneOwnerPerPromise
    <3>2. CASE t = held[w]
      <4>1. future'[t] # "pending" /\ ~Queued(t)
        BY <2>1, <2>2, <3>1, <3>2
      <4>2. ~\E v \in Workers : wpc'[v] = "running" /\ held'[v] = t
        BY <2>2, <3>2 DEF OneOwnerPerPromise
      <4> QED
        BY <2>3, <4>1, <4>2
    <3>3. CASE t # held[w]
      <4>1. future'[t] = future[t]
        BY <2>1, <3>3
      <4>2. (\E v \in Workers : wpc'[v] = "running" /\ held'[v] = t)
              <=> (\E v \in Workers : wpc[v] = "running" /\ held[v] = t)
        BY <2>2, <3>3
      <4> QED
        BY <2>3, <3>1, <4>1, <4>2
    <3> QED
      BY <3>2, <3>3
  <2> QED
    BY <2>2, <2>4, <2>5 DEF OneOwnerPerPromise
<1>9. ASSUME NEW w \in Workers, Account(w) PROVE OneOwnerPerPromise'
  <2>1. /\ tasks' = tasks /\ future' = future
        /\ \A v \in Workers : /\ wpc'[v] = "running" <=> wpc[v] = "running"
                              /\ wpc[v] = "running" => held'[v] = held[v]
    BY <1>9 DEF Account
  <2> QED
    BY <2>1 DEF OneOwnerPerPromise, Queued
<1>10. CASE UNCHANGED vars
  BY <1>10, <1>1 DEF vars
<1> QED
  BY <1>2, <1>3, <1>4, <1>5, <1>6, <1>7, <1>8, <1>9, <1>10
     DEF Next, WorkerStep, CallerBegin

\* Every future the pool has not settled is owned by exactly one queue slot or
\* running worker: no promise is orphaned and none is settled twice.
THEOREM PromisesHaveOneOwner == Spec => []OneOwnerPerPromise
<1>1. Init => TypeOK /\ PendingExact /\ OneOwnerPerPromise
  <2>1. Init => OneOwnerPerPromise
    BY DEF Init, OneOwnerPerPromise, Queued
  <2> QED
    BY <2>1, InitExact
<1>2. TypeOK /\ PendingExact /\ OneOwnerPerPromise /\ [Next]_vars
        => TypeOK' /\ PendingExact' /\ OneOwnerPerPromise'
  BY StepTypeExact, StepOwner
<1> QED
  BY <1>1, <1>2, PTL DEF Spec

-----------------------------------------------------------------------------
(* Shutdown                                                                *)

\* What makes QuietAfterJoin inductive: a worker leaves only a stopping pool
\* whose queue is empty (and no submission fills it again), and the one
\* joining caller has seen the exit of every worker it has passed.
JoinDiscipline ==
  /\ \A w \in Workers : wpc[w] = "exited" => stopping /\ tasks = <<>>
  /\ \A c \in Callers : cpc[c] = "joining"
        => \A w \in Workers : w < joinIdx => wpc[w] = "exited"
  /\ joined => \A w \in Workers : wpc[w] = "exited"
  /\ OneJoiner

\* Every step keeps the discipline.
LEMMA StepDiscipline == TypeOK /\ TypeOK' /\ JoinDiscipline /\ [Next]_vars => JoinDiscipline'
<1> SUFFICES ASSUME TypeOK, TypeOK', JoinDiscipline, [Next]_vars PROVE JoinDiscipline'
  OBVIOUS
<1> USE WorkerCountPositive DEF TypeOK, JoinDiscipline, OneJoiner, poolState
\* A step after which as many workers have exited, and nobody new is joining.
<1>1. ASSUME \A w \in Workers : wpc[w] = "exited" <=> wpc'[w] = "exited",
             stopping => stopping', tasks = <<>> /\ stopping => tasks' = <<>>,
             joined' = joined, joinIdx' = joinIdx,
             \A c \in Callers : cpc'[c] = "joining" => cpc[c] = "joining"
      PROVE JoinDiscipline'
  BY <1>1
<1>2. ASSUME NEW c \in Callers, NEW t \in Tasks, Submit(c, t) PROVE JoinDiscipline'
  BY <1>2, <1>1 DEF Submit, Enqueue
<1>3. ASSUME NEW c \in Callers, NEW t \in Tasks, SubmitRefused(c, t) PROVE JoinDiscipline'
  BY <1>3, <1>1 DEF SubmitRefused
<1>4. ASSUME NEW c \in Callers, \/ NotifyOne(c) \/ NotifyAll(c) \/ IdleCheck(c)
                                \/ SpuriousIdleWakeup(c) \/ WaitIdle(c)
      PROVE JoinDiscipline'
  BY <1>4, <1>1 DEF NotifyOne, WakeOne, Parked, NotifyAll, WakeAll, IdleCheck,
                    SpuriousIdleWakeup, WaitIdle
<1>5. ASSUME NEW c \in Callers, Shutdown(c) \/ ShutdownNow(c) PROVE JoinDiscipline'
  BY <1>5, <1>1 DEF Shutdown, ShutdownNow, Stop
<1>6. ASSUME NEW c \in Callers, JoinLock(c) PROVE JoinDiscipline'
  <2>1. /\ wpc' = wpc /\ tasks' = tasks /\ stopping' = stopping /\ joined' = joined
        /\ joinIdx' = 1
    BY <1>6 DEF JoinLock, EnterJoin
  <2>2. \A d \in Callers : cpc'[d] = "joining" => d = c
    BY <1>6 DEF JoinLock, EnterJoin
  <2>3. \A w \in Workers : ~(w < 1)
    BY DEF Workers
  <2> QED
    BY <2>1, <2>2, <2>3
<1>7. ASSUME NEW c \in Callers, JoinWorker(c) PROVE JoinDiscipline'
  <2>1. /\ wpc' = wpc /\ tasks' = tasks /\ stopping' = stopping /\ joined' = joined
        /\ cpc' = cpc /\ joinIdx' = joinIdx + 1
        /\ cpc[c] = "joining" /\ wpc[joinIdx] = "exited"
    BY <1>7 DEF JoinWorker, StepJoin
  <2>2. \A w \in Workers : w < joinIdx + 1 => w < joinIdx \/ w = joinIdx
    BY DEF Workers
  <2> QED
    BY <2>1, <2>2
<1>8. ASSUME NEW c \in Callers, JoinFinish(c) PROVE JoinDiscipline'
  <2>1. /\ wpc' = wpc /\ tasks' = tasks /\ stopping' = stopping
        /\ joinIdx' = joinIdx /\ cpc[c] = "joining" /\ joinIdx = WorkerCount + 1
        /\ \A d \in Callers : cpc'[d] = "joining" => cpc[d] = "joining"
    BY <1>8 DEF JoinFinish
  <2>2. \A w \in Workers : w < WorkerCount + 1
    BY DEF Workers
  <2>3. \A w \in Workers : wpc[w] = "exited"
    BY <2>1, <2>2
  <2> QED
    BY <2>1, <2>3
<1>9. ASSUME NEW w \in Workers, \/ Park(w) \/ RunTask(w) \/ SpuriousWorkWakeup(w)
                                \/ Pop(w) \/ Account(w)
      PROVE JoinDiscipline'
  <2>1. \A v \in Workers : wpc[v] = "exited" <=> wpc'[v] = "exited"
    BY <1>9 DEF Park, RunTask, SpuriousWorkWakeup, Pop, Take, Account
  <2>2. \A c \in Callers : cpc'[c] = "joining" => cpc[c] = "joining"
    BY <1>9 DEF Park, RunTask, SpuriousWorkWakeup, Pop, Take, Account, WakeIdlers
  <2>3. /\ stopping' = stopping /\ joined' = joined /\ joinIdx' = joinIdx
        /\ tasks = <<>> => tasks' = <<>>
    BY <1>9 DEF Park, RunTask, SpuriousWorkWakeup, Pop, Take, Account
  <2> QED
    BY <1>1, <2>1, <2>2, <2>3
<1>10. ASSUME NEW w \in Workers, Exit(w) \/ Discard(w) PROVE JoinDiscipline'
  <2>1. /\ \A v \in Workers : wpc[v] = "exited" => wpc'[v] = "exited"
        /\ stopping /\ stopping' = stopping /\ tasks' = <<>>
        /\ joined' = joined /\ joinIdx' = joinIdx
    BY <1>10 DEF Exit, Leave, Discard, DropQueue
  <2>2. \A c \in Callers : cpc'[c] = "joining" => cpc[c] = "joining"
    BY <1>10 DEF Exit, Leave, Discard, WakeIdlers
  <2> QED
    BY <2>1, <2>2
<1>11. CASE UNCHANGED vars
  BY <1>11, <1>1 DEF vars
<1> QED
  BY <1>2, <1>3, <1>4, <1>5, <1>6, <1>7, <1>8, <1>9, <1>10, <1>11
     DEF Next, WorkerStep, CallerStep, CallerBegin

\* The discipline, the exact count and the ownership of promises together leave
\* nothing behind in a joined pool.
LEMMA DisciplineIsQuiet ==
  TypeOK /\ PendingExact /\ OneOwnerPerPromise /\ JoinDiscipline => QuietAfterJoin
<1> SUFFICES ASSUME TypeOK, PendingExact, OneOwnerPerPromise, JoinDiscipline, joined
             PROVE  /\ \A w \in Workers : wpc[w] = "exited"
                    /\ tasks = <<>> /\ pending = 0
                    /\ \A t \in Tasks : future[t] # "pending"
  BY DEF QuietAfterJoin
<1>1. \A w \in Workers : wpc[w] = "exited"
  BY DEF JoinDiscipline
<1>2. tasks = <<>>
  BY <1>1, WorkerCountPositive DEF JoinDiscipline
<1>3. Busy = {}
  BY <1>1 DEF Busy
<1>4. pending = 0
  BY <1>2, <1>3, FS_EmptySet DEF PendingExact
<1>5. \A t \in Tasks : ~Queued(t)
  BY <1>2 DEF Queued
<1>6. \A t \in Tasks : future[t] # "pending"
  BY <1>1, <1>5 DEF OneOwnerPerPromise
<1> QED
  BY <1>1, <1>2, <1>4, <1>6

\* All that the shutdown theorems rest on.
PoolInv == TypeOK /\ PendingExact /\ OneOwnerPerPromise /\ JoinDiscipline

\* The inductive invariant of the pool holds in every state.
LEMMA PoolInvariant == Spec => []PoolInv
<1>1. Init => PoolInv
  <2>1. Init => OneOwnerPerPromise
    BY DEF Init, OneOwnerPerPromise, Queued
  <2>2. Init => JoinDiscipline
    BY DEF Init, JoinDiscipline, OneJoiner
  <2> QED
    BY <2>1, <2>2, InitExact DEF PoolInv
<1>2. PoolInv /\ [Next]_vars => PoolInv'
  BY StepTypeExact, StepOwner, StepDiscipline DEF PoolInv
<1> QED
  BY <1>1, <1>2, PTL DEF Spec

\* A joined pool is quiet: no thread, queued task, count or unsettled future
\* survives shutdown() or shutdownNow().
THEOREM JoinedPoolIsQuiet == Spec => []QuietAfterJoin
<1>1. PoolInv => QuietAfterJoin
  BY DisciplineIsQuiet DEF PoolInv
<1> QED
  BY <1>1, PoolInvariant, PTL

\* Two shutdown calls never join concurrently.
THEOREM JoinersExclude == Spec => []OneJoiner
<1>1. PoolInv => OneJoiner
  BY DEF PoolInv, JoinDiscipline
<1> QED
  BY <1>1, PoolInvariant, PTL

\* No shutdown call returns before every worker has returned.
THEOREM ShutdownReturnsAfterWorkers == Spec => ShutdownReturnsQuiet
<1>1. PoolInv /\ [Next]_vars => [ReturnsQuiet]_vars
  <2> SUFFICES ASSUME PoolInv, Next, NEW c \in Callers,
                      cpc[c] \in {"joinLock", "joining"}, cpc'[c] = "ready"
               PROVE  joined' /\ \A w \in Workers : wpc[w] = "exited"
    BY DEF ReturnsQuiet
  <2> USE WorkerCountPositive DEF PoolInv, TypeOK, JoinDiscipline, poolState
  <2>1. ASSUME NEW w \in Workers, WorkerStep(w) \/ SpuriousWorkWakeup(w) PROVE FALSE
    BY <2>1 DEF WorkerStep, Park, Exit, Leave, Discard, Pop, Take, RunTask, Account,
                WakeIdlers, SpuriousWorkWakeup
  <2>2. ASSUME NEW d \in Callers, CallerBegin(d) \/ SpuriousIdleWakeup(d) PROVE FALSE
    BY <2>2 DEF CallerBegin, Submit, Enqueue, SubmitRefused, WaitIdle, Shutdown,
                ShutdownNow, Stop, SpuriousIdleWakeup
  <2>3. ASSUME NEW d \in Callers, NotifyOne(d) \/ IdleCheck(d) \/ NotifyAll(d) \/ JoinWorker(d)
        PROVE FALSE
    BY <2>3 DEF NotifyOne, IdleCheck, NotifyAll, JoinWorker, StepJoin
  <2>4. ASSUME NEW d \in Callers, JoinLock(d)
        PROVE joined' /\ \A w \in Workers : wpc[w] = "exited"
    BY <2>4 DEF JoinLock, EnterJoin
  <2>5. ASSUME NEW d \in Callers, JoinFinish(d)
        PROVE joined' /\ \A w \in Workers : wpc[w] = "exited"
    <3>1. \A w \in Workers : w < WorkerCount + 1
      BY DEF Workers
    <3> QED
      BY <2>5, <3>1 DEF JoinFinish
  <2> QED
    BY <2>1, <2>2, <2>3, <2>4, <2>5 DEF Next, CallerStep
<1> QED
  BY <1>1, PoolInvariant, PTL DEF Spec, ShutdownReturnsQuiet

\* No thread of the pool or of its callers sleeps through what it waits for.
THEOREM NobodyIsStranded == Spec => []WakeupsExact
<1>1. PendingExact /\ NoLostWakeup /\ NoSleepWhenIdle => WakeupsExact
  BY DEF WakeupsExact
<1> QED
  BY <1>1, PendingIsExact, WakeupsAreNotLost, NobodySleepsWhenIdle, PTL

\* Shutting down is safe from any number of threads.
THEOREM ShutdownIsSafe == Spec => JoinSafe
<1>1. QuietAfterJoin' /\ OneJoiner' /\ [ReturnsQuiet]_vars
        => [QuietAfterJoin' /\ OneJoiner' /\ ReturnsQuiet]_vars
  OBVIOUS
<1> QED
  BY <1>1, JoinedPoolIsQuiet, JoinersExclude, ShutdownReturnsAfterWorkers, PTL
     DEF JoinSafe, ShutdownReturnsQuiet

-----------------------------------------------------------------------------
(* The pool implements TaskLedger                                          *)

\* A step that changes neither a future nor the queue leaves the ledger alone.
LEMMA LedgerSame ==
  ASSUME UNCHANGED <<future, tasks>> PROVE ledger' = ledger
  BY DEF ledger, LedgerStatus, Queued

\* One task changes its status, the others keep theirs.
LEMMA LedgerMoves ==
  ASSUME NEW t \in Tasks, NEW r, UNCHANGED <<stopping, joined>>, LedgerStatus(t)' = r,
         \A u \in Tasks : u # t => LedgerStatus(u)' = LedgerStatus(u)
  PROVE  Ledger!Move({t}, r)
<1>1. \A u \in Tasks : ledger'[u] = IF u \in {t} THEN r ELSE ledger[u]  BY DEF ledger
<1>2. ledger' = [u \in Tasks |-> IF u \in {t} THEN r ELSE ledger[u]]
  BY <1>1 DEF ledger
<1> QED BY <1>2 DEF Ledger!Move

\* A worker that executes holds a task.
HoldsTask == \A w \in Workers : wpc[w] = "running" => held[w] \in Tasks

\* It took it from the queue and keeps it until it has run.
LEMMA StepHolds == TypeOK /\ HoldsTask /\ [Next]_vars => HoldsTask'
<1> SUFFICES ASSUME TypeOK, HoldsTask, [Next]_vars PROVE HoldsTask'
  OBVIOUS
<1> USE DEF TypeOK, HoldsTask, poolState
<1>1. ASSUME NEW w \in Workers, Pop(w) PROVE HoldsTask'
  BY <1>1 DEF Pop, Take
<1>2. ASSUME NEW w \in Workers, \/ Park(w) \/ Exit(w) \/ Discard(w) \/ RunTask(w) \/ Account(w)
                                \/ SpuriousWorkWakeup(w)
      PROVE  HoldsTask'
  <2>1. /\ \A v \in Workers : v # w => held'[v] = held[v] /\ wpc'[v] = wpc[v]
        /\ wpc'[w] # "running"
    BY <1>2 DEF Park, Exit, Leave, Discard, DropQueue, RunTask, Account, SpuriousWorkWakeup
  <2> QED BY <2>1
<1>3. ASSUME NEW c \in Callers, CallerStep(c) \/ CallerBegin(c) \/ SpuriousIdleWakeup(c)
      PROVE  HoldsTask'
  <2>1. held' = held
    BY <1>3 DEF CallerStep, CallerBegin, NotifyOne, IdleCheck, NotifyAll, JoinLock, EnterJoin,
       JoinWorker, StepJoin, JoinFinish, Submit, Enqueue, SubmitRefused, WaitIdle, Shutdown,
       ShutdownNow, Stop, SpuriousIdleWakeup
  <2>2. \A w \in Workers : wpc'[w] = "running" => wpc[w] = "running"
    BY <1>3 DEF CallerStep, CallerBegin, NotifyOne, WakeOne, Parked, IdleCheck, NotifyAll, WakeAll,
       JoinLock, EnterJoin, JoinWorker, StepJoin, JoinFinish, Submit, Enqueue, SubmitRefused,
       WaitIdle, Shutdown, ShutdownNow, Stop, SpuriousIdleWakeup
  <2> QED BY <2>1, <2>2
<1>4. CASE UNCHANGED vars  BY <1>4 DEF vars
<1> QED BY <1>1, <1>2, <1>3, <1>4 DEF Next, WorkerStep

\* The queue holds the accepted tasks, the workers hold the running ones.
LEMMA LedgerReads ==
  ASSUME PoolInv, NEW t \in Tasks
  PROVE  /\ LedgerStatus(t) = "accepted" <=> Queued(t)
         /\ LedgerStatus(t) = "running" <=> \E w \in Workers : wpc[w] = "running" /\ held[w] = t
         /\ LedgerStatus(t) = "none" <=> future[t] = "none"
<1>1. future[t] \in FutureStates  BY DEF PoolInv, TypeOK
<1>2. /\ future[t] = "pending" <=> Queued(t) \/ \E w \in Workers : wpc[w] = "running" /\ held[w] = t
      /\ ~(Queued(t) /\ \E w \in Workers : wpc[w] = "running" /\ held[w] = t)
  BY DEF PoolInv, OneOwnerPerPromise
<1> QED BY <1>1, <1>2 DEF LedgerStatus, FutureStates

\* A worker that takes a task was not running one: there is room for it.
LEMMA RoomToStart ==
  ASSUME PoolInv, HoldsTask, NEW w \in Workers, wpc[w] = "loop"
  PROVE  Cardinality(Ledger!In("running")) < WorkerCount
<1> DEFINE runners == {v \in Workers : wpc[v] = "running"}
           running == Ledger!In("running")
           f == [v \in runners |-> held[v]]
<1>1. /\ \A v \in runners : held[v] \in running
      /\ \A t \in running : \E v \in runners : held[v] = t
  BY LedgerReads DEF HoldsTask, Ledger!In, ledger
<1>2. f \in Surjection(runners, running)  BY <1>1 DEF Surjection
<1>3. IsFiniteSet(Workers \ {w}) /\ Cardinality(Workers \ {w}) = WorkerCount - 1
  <2>1. Cardinality(Workers) = WorkerCount
    BY WorkerCountPositive, FS_Interval DEF Workers
  <2> QED BY <2>1, WorkersFinite, FS_RemoveElement
<1>4. runners \in SUBSET (Workers \ {w})  OBVIOUS
<1>5. /\ IsFiniteSet(runners) /\ Cardinality(runners) <= WorkerCount - 1
      /\ Cardinality(runners) \in Nat
  BY <1>3, <1>4, FS_Subset, FS_CardinalityType
<1>6. Cardinality(running) <= Cardinality(runners) /\ Cardinality(running) \in Nat
  BY <1>2, <1>5, FS_Surjection, FS_CardinalityType
<1> QED BY <1>5, <1>6, WorkerCountPositive

\* Every step of the pool is a step of the ledger or leaves it alone.
LEMMA LedgerStep ==
  PoolInv /\ PoolInv' /\ HoldsTask /\ [Next]_vars => [Ledger!LNext]_(Ledger!lvars)
<1> SUFFICES ASSUME PoolInv, PoolInv', HoldsTask, [Next]_vars PROVE [Ledger!LNext]_(Ledger!lvars)
  OBVIOUS
<1> USE DEF poolState
<1>0. ASSUME UNCHANGED <<future, tasks, stopping, joined>> PROVE UNCHANGED Ledger!lvars
  BY <1>0, LedgerSame DEF Ledger!lvars
<1>1. ASSUME NEW c \in Callers, NEW t \in Tasks, Submit(c, t) PROVE Ledger!Accept
  <2>1. ~stopping /\ future[t] = "none" /\ UNCHANGED <<stopping, joined>>
    BY <1>1 DEF Submit, Enqueue
  <2>2. tasks' = Append(tasks, t) /\ future' = [future EXCEPT ![t] = "pending"]
    BY <1>1 DEF Submit, Enqueue
  <2>3. /\ future'[t] = "pending" /\ \A u \in Tasks : u # t => future'[u] = future[u]
    BY <2>2 DEF PoolInv, TypeOK
  <2>4. /\ Len(tasks) \in Nat /\ Len(tasks') = Len(tasks) + 1 /\ tasks'[Len(tasks) + 1] = t
        /\ \A i \in 1..Len(tasks) : tasks'[i] = tasks[i]
    BY <2>2 DEF PoolInv, TypeOK
  <2>5. Queued(t)' /\ \A u \in Tasks : u # t => (Queued(u)' <=> Queued(u))
    BY <2>4 DEF Queued
  <2>6. /\ LedgerStatus(t)' = "accepted"
        /\ \A u \in Tasks : u # t => LedgerStatus(u)' = LedgerStatus(u)
    BY <2>3, <2>5 DEF LedgerStatus
  <2>7. t \in Ledger!In("none")  BY <2>1, LedgerReads DEF Ledger!In, ledger
  <2> QED BY <2>1, <2>6, <2>7, LedgerMoves DEF Ledger!Accept
<1>2. ASSUME NEW c \in Callers, NEW t \in Tasks, SubmitRefused(c, t) PROVE Ledger!Refuse
  <2>1. /\ stopping /\ future[t] = "none" /\ UNCHANGED <<stopping, joined, tasks>>
        /\ future' = [future EXCEPT ![t] = "rejected"]
    BY <1>2 DEF SubmitRefused
  <2>2. /\ future'[t] = "rejected" /\ \A u \in Tasks : u # t => future'[u] = future[u]
    BY <2>1 DEF PoolInv, TypeOK
  <2>3. /\ LedgerStatus(t)' = "refused"
        /\ \A u \in Tasks : u # t => LedgerStatus(u)' = LedgerStatus(u)
    BY <2>1, <2>2 DEF LedgerStatus, Queued
  <2>4. t \in Ledger!In("none")  BY <2>1, LedgerReads DEF Ledger!In, ledger
  <2> QED BY <2>1, <2>3, <2>4, LedgerMoves DEF Ledger!Refuse
<1>3. ASSUME NEW c \in Callers, Shutdown(c) \/ ShutdownNow(c) PROVE Ledger!Close
  BY <1>3, LedgerSame DEF Shutdown, ShutdownNow, Stop, Ledger!Close
<1>4. ASSUME NEW c \in Callers, JoinFinish(c) PROVE Ledger!Quiesce
  <2>1. joined' = TRUE /\ UNCHANGED <<tasks, stopping, future, wpc>>
    BY <1>4 DEF JoinFinish
  <2>2. \A w \in Workers : wpc[w] = "exited"  BY <2>1 DEF PoolInv, JoinDiscipline
  <2>3. stopping /\ tasks = <<>>
    BY <2>2, WorkerCountPositive DEF PoolInv, JoinDiscipline
  <2>4. \A t \in Tasks : ~Queued(t) /\ ~\E w \in Workers : wpc[w] = "running" /\ held[w] = t
    BY <2>2, <2>3 DEF Queued
  <2>5. Ledger!In("accepted") \cup Ledger!In("running") = {}
    BY <2>4, LedgerReads DEF Ledger!In, ledger
  <2> QED BY <2>1, <2>3, <2>5, LedgerSame DEF Ledger!Quiesce
<1>5. ASSUME NEW w \in Workers, Discard(w) PROVE Ledger!DropBacklog
  <2>1. /\ stopping /\ tasks # <<>> /\ tasks' = <<>> /\ UNCHANGED <<stopping, joined>>
        /\ future' = [t \in Tasks |-> IF Queued(t) THEN "broken" ELSE future[t]]
    BY <1>5 DEF Discard, DropQueue
  <2>2. \A t \in Tasks : ~Queued(t)'  BY <2>1 DEF Queued
  <2>3. \A t \in Tasks : LedgerStatus(t)' = IF Queued(t) THEN "dropped" ELSE LedgerStatus(t)
    BY <2>1, <2>2 DEF LedgerStatus
  <2>4. \A t \in Tasks : t \in Ledger!In("accepted") <=> Queued(t)
    BY LedgerReads DEF Ledger!In, ledger
  <2>5. Ledger!In("accepted") # {}
    <3>1. 1 \in 1..Len(tasks) /\ tasks[1] \in Tasks  BY <2>1 DEF PoolInv, TypeOK
    <3>2. Queued(tasks[1])  BY <3>1 DEF Queued
    <3> QED BY <3>1, <3>2, <2>4
  <2>6. ledger' = [t \in Tasks |-> IF t \in Ledger!In("accepted") THEN "dropped" ELSE ledger[t]]
    BY <2>3, <2>4 DEF ledger
  <2> QED BY <2>1, <2>5, <2>6 DEF Ledger!DropBacklog, Ledger!Move
<1>6. ASSUME NEW w \in Workers, Pop(w) PROVE Ledger!Start
  <2>0. PICK t \in Tasks : t = Head(tasks)
    BY <1>6 DEF Pop, Take, PoolInv, TypeOK
  <2>1. /\ wpc[w] = "loop" /\ tasks # <<>> /\ tasks' = Tail(tasks) /\ held' = [held EXCEPT ![w] = t]
        /\ wpc' = [wpc EXCEPT ![w] = "running"] /\ UNCHANGED <<future, stopping, joined>>
    BY <1>6, <2>0 DEF Pop, Take
  <2>2. /\ Len(tasks) \in Nat \ {0} /\ t = tasks[1]
        /\ \A i \in 1..Len(tasks) : tasks[i] \in Tasks
    BY <2>0, <2>1 DEF PoolInv, TypeOK
  <2>3. /\ Len(tasks') = Len(tasks) - 1
        /\ \A i \in 1..Len(tasks') : tasks'[i] = tasks[i + 1]
    BY <2>1, <2>2 DEF PoolInv, TypeOK
  <2>4. Queued(t)  BY <2>2 DEF Queued
  <2>5. LedgerStatus(t)' = "running"
    <3>1. wpc'[w] = "running" /\ held'[w] = t  BY <2>1 DEF PoolInv, TypeOK
    <3>2. future'[t] = "pending" /\ ~Queued(t)'
      BY <2>2, <3>1 DEF PoolInv, OneOwnerPerPromise
    <3> QED BY <3>2 DEF LedgerStatus
  <2>6. ASSUME NEW u \in Tasks, u # t PROVE Queued(u)' <=> Queued(u)
    <3>1. ASSUME NEW i \in 1..Len(tasks), tasks[i] = u
          PROVE  i - 1 \in 1..Len(tasks') /\ tasks'[i - 1] = u
      BY <2>2, <2>3, <2>6, <3>1
    <3>2. ASSUME NEW i \in 1..Len(tasks'), tasks'[i] = u
          PROVE  i + 1 \in 1..Len(tasks) /\ tasks[i + 1] = u
      BY <2>2, <2>3, <3>2
    <3> QED BY <3>1, <3>2 DEF Queued
  <2>7. \A u \in Tasks : u # t => LedgerStatus(u)' = LedgerStatus(u)
    BY <2>1, <2>6 DEF LedgerStatus
  <2>8. t \in Ledger!In("accepted")  BY <2>2, <2>4, LedgerReads DEF Ledger!In, ledger
  <2>9. Ledger!Move({t}, "running")  BY <2>1, <2>2, <2>5, <2>7, LedgerMoves
  <2>10. Cardinality(Ledger!In("running")) < WorkerCount  BY <2>1, RoomToStart
  <2>11. Ledger!Cardinality(Ledger!In("running")) < WorkerCount
    BY <2>10 DEF Cardinality, Ledger!Cardinality
  <2> QED BY <2>8, <2>9, <2>11 DEF Ledger!Start
<1>7. ASSUME NEW w \in Workers, RunTask(w) PROVE Ledger!Finish
  <2>1. wpc[w] = "running" /\ UNCHANGED <<tasks, stopping, joined>>
    BY <1>7 DEF RunTask
  <2>2. PICK t \in Tasks : t = held[w]  BY <2>1 DEF HoldsTask
  <2>3. PICK result \in {"value", "exception"} : future' = [future EXCEPT ![t] = result]
    BY <1>7, <2>2 DEF RunTask
  <2>4. future'[t] = result /\ \A u \in Tasks : u # t => future'[u] = future[u]
    BY <2>2, <2>3 DEF PoolInv, TypeOK
  <2>5. /\ LedgerStatus(t)' = "done"
        /\ \A u \in Tasks : u # t => LedgerStatus(u)' = LedgerStatus(u)
    BY <2>1, <2>4 DEF LedgerStatus, Queued
  <2>6. t \in Ledger!In("running")  BY <2>1, <2>2, LedgerReads DEF Ledger!In, ledger
  <2>7. Ledger!Move({t}, "done")  BY <2>1, <2>2, <2>5, LedgerMoves
  <2> QED BY <2>6, <2>7 DEF Ledger!Finish
<1>8. ASSUME NEW w \in Workers, Park(w) \/ Exit(w) \/ Account(w) \/ SpuriousWorkWakeup(w)
      PROVE  UNCHANGED Ledger!lvars
  BY <1>0, <1>8 DEF Park, Exit, Leave, Account, SpuriousWorkWakeup
<1>9. ASSUME NEW c \in Callers, \/ NotifyOne(c) \/ IdleCheck(c) \/ NotifyAll(c) \/ JoinLock(c)
                                \/ JoinWorker(c) \/ WaitIdle(c) \/ SpuriousIdleWakeup(c)
      PROVE  UNCHANGED Ledger!lvars
  BY <1>0, <1>9 DEF NotifyOne, IdleCheck, NotifyAll, JoinLock, EnterJoin, JoinWorker, StepJoin,
     WaitIdle, SpuriousIdleWakeup
<1>10. CASE UNCHANGED vars  BY <1>0, <1>10 DEF vars
<1> QED
  BY <1>1, <1>2, <1>3, <1>4, <1>5, <1>6, <1>7, <1>8, <1>9, <1>10
     DEF Next, WorkerStep, CallerStep, CallerBegin, Ledger!LNext

\* The pool implements the ledger its callers rely on: a task is refused only by
\* a closed pool, starts at most once and only while a worker is free, is dropped
\* only after shutdownNow(), and none is left when the workers are joined.
THEOREM PoolKeepsLedger == Spec => KeepsLedger
<1>1. Init => Ledger!LInit
  BY DEF Init, Ledger!LInit, ledger, LedgerStatus
<1>2. Init => HoldsTask  BY DEF Init, HoldsTask
<1>3. PoolInv => TypeOK  BY DEF PoolInv
<1> QED
  BY <1>1, <1>2, <1>3, StepHolds, LedgerStep, PoolInvariant, PTL DEF Spec, KeepsLedger, Ledger!LSpec
=============================================================================
