----------------------------- MODULE TestRunner -----------------------------
(***************************************************************************)
(* TestRunner::run() and everything that happens concurrently inside it:   *)
(* workers executing tests with retries, bodies on helper threads with a   *)
(* deadline and a grace period, abandoned bodies and their reaper,         *)
(* fail-fast, and requestCancellation() called from other threads.         *)
(*                                                                         *)
(* An execution <<t, n>> is the n-th attempt at test t.  Each execution    *)
(* has a CancellationSource of its own (`token`), a body and the bundle    *)
(* the body writes (BodyExecution), which outlive the worker's interest in *)
(* them.  The pool hands out the selected tests in order, one at a time    *)
(* per worker, as ThreadPool promises.                                     *)
(*                                                                         *)
(* Time is not a number here: a deadline or a grace period may expire at   *)
(* any moment, and fairness says that it does expire.                      *)
(***************************************************************************)
EXTENDS Verdicts, Integers, Sequences

CONSTANTS NumTests,     \* the selected tests are 1..NumTests
          Workers,      \* the pool's threads (one: the caller runs the tests)
          RetryFailed,  \* options.retryFailed
          FailFast,     \* options.failFast
          Cancellers,   \* threads that call requestCancellation()
          Profiles,     \* what kinds of tests may be selected
          Outcomes      \* how a test body may end by itself

ASSUME NumTestsAssumption == NumTests \in Nat
ASSUME WorkersAssumption == IsFiniteSet(Workers) /\ Workers # {}
ASSUME RetryAssumption == RetryFailed \in Int
ASSUME FailFastAssumption == FailFast \in BOOLEAN
ASSUME CancellersAssumption == "free" \notin Cancellers

\* enabled, what the registered factory does, whether a deadline applies, and
\* the manners of the body: it ends by itself, only once it is cancelled, or
\* whenever it likes.
ProfileType == [enabled : BOOLEAN,
                factory : {"makes", "null", "throws"},
                bounded : BOOLEAN,
                manners : {"finite", "cooperative", "stubborn"}]
ASSUME ProfilesAssumption == Profiles \subseteq ProfileType

OutcomeType == [ending : Endings, inSetUp : BOOLEAN, metadata : Metadata]
ASSUME OutcomesAssumption == Outcomes \subseteq OutcomeType

Tests == 1..NumTests
MaxAttempts == 1 + (IF RetryFailed > 0 THEN RetryFailed ELSE 0)
Executions == Tests \X (1..MaxAttempts)

\* With one worker or at most one test there is no pool: an exception that
\* escapes a test's scheduling leaves run() itself.
Sequential == Cardinality(Workers) = 1 \/ NumTests <= 1

VARIABLES
  profile,         \* what was selected
  phase,           \* of the run and then of the runner's destructor
  nextTest,        \* the pool's queue: tests nextTest..NumTests are left
  wpc, exec,       \* each worker's position and current execution
  verdict,         \* the verdict a worker has reached for it
  deadlineExceeded,\* BodyOutcome::deadlineExceeded
  token, runToken, \* cancellation reasons; "none" while not cancelled
  active,          \* activeTests
  activeLock,      \* the canceller holding activeMutex across steps
  cpc, todo,       \* cancellers: position, sources still to cancel
  body, bundle,    \* each body's progress and what it left in its bundle
  orphans, stuck,  \* the reaper's list; what drain() reported as still running
  stopScheduling,
  results,         \* the results vector
  dropped,         \* tests whose task ended in an exception
  offered,         \* executions passed to repository->saveResult()
  exitCode         \* TestRun::exitCode() of the finished run

schedule == <<profile, nextTest, stopScheduling, dropped>>
outcome == <<results, offered, exitCode>>
cancelling == <<active, activeLock, cpc, todo>>
bodies == <<body, bundle>>
reaper == <<orphans, stuck>>
local == <<exec, verdict, deadlineExceeded>>

vars == <<profile, phase, nextTest, wpc, exec, verdict, deadlineExceeded, token,
          runToken, active, activeLock, cpc, todo, body, bundle, orphans, stuck,
          stopScheduling, results, dropped, offered, exitCode>>

Reasons == {"none", "signal", "failfast", "deadline"}
WorkerStates == {"idle", "enter", "check", "inline", "await", "grace", "judge",
                 "unregister", "judged", "stop", "trip"}
Bundles == [verdict : Verdicts, metadata : Metadata, tainted : BOOLEAN]
\* TestResult::make(..., Error)
NoVerdictYet == Verdict("Error", "Unknown")
EmptyBundle == [verdict |-> NoVerdictYet,
                metadata |-> NoMetadata, tainted |-> FALSE]
ResultType == [test : Tests, attempt : 1..MaxAttempts, verdict : Verdicts,
               flaky : BOOLEAN]

\* Types.  The only type that could really break is that of `exec`: a retry
\* beyond maxAttempts.
TypeOK ==
  /\ profile \in [Tests -> Profiles]
  /\ phase \in {"begin", "running", "finished", "draining", "gone"}
  /\ nextTest \in 1..(NumTests + 1)
  /\ wpc \in [Workers -> WorkerStates]
  /\ \A w \in Workers : wpc[w] # "idle" => exec[w] \in Executions
  /\ verdict \in [Workers -> Verdicts]
  /\ deadlineExceeded \in [Workers -> BOOLEAN]
  /\ token \in [Executions -> Reasons]
  /\ runToken \in Reasons
  /\ active \subseteq Executions
  /\ activeLock \in Cancellers \cup {"free"}
  /\ cpc \in [Cancellers -> {"ready", "lock", "walk", "returned"}]
  /\ todo \in [Cancellers -> SUBSET Executions]
  /\ body \in [Executions -> {"none", "running", "done"}]
  /\ bundle \in [Executions -> Bundles]
  /\ orphans \subseteq Executions /\ stuck \subseteq Executions
  /\ stopScheduling \in BOOLEAN
  /\ results \subseteq ResultType
  /\ dropped \subseteq Tests
  /\ offered \subseteq Executions
  /\ exitCode \in {-1, 0, 1, 2, 4}

Init ==
  /\ profile \in [Tests -> Profiles]
  /\ phase = "begin"
  /\ nextTest = 1
  /\ wpc = [w \in Workers |-> "idle"]
  /\ exec = [w \in Workers |-> <<1, 1>>]
  /\ verdict = [w \in Workers |-> NoVerdictYet]
  /\ deadlineExceeded = [w \in Workers |-> FALSE]
  /\ token = [e \in Executions |-> "none"]
  /\ runToken = "none"
  /\ active = {}
  /\ activeLock = "free"
  /\ cpc = [c \in Cancellers |-> "ready"]
  /\ todo = [c \in Cancellers |-> {}]
  /\ body = [e \in Executions |-> "none"]
  /\ bundle = [e \in Executions |-> EmptyBundle]
  /\ orphans = {} /\ stuck = {}
  /\ stopScheduling = FALSE
  /\ results = {}
  /\ dropped = {}
  /\ offered = {}
  /\ exitCode = -1

Profile(w) == profile[exec[w][1]]

Goto(w, pc) == wpc' = [wpc EXCEPT ![w] = pc]

\* CancellationSource::cancel(): the first reason wins.
Cancel(current, reason) == IF current = "none" THEN reason ELSE current

\* repository->saveResult().  It may throw, and does for a run that was never
\* begun, but the exception is swallowed: whether the row arrives makes no
\* difference to the run.
Save(e) == offered' = offered \cup {e}

-----------------------------------------------------------------------------
(* The thread that called run()                                            *)

\* Select, record the start (beginRun() may fail without stopping the run) and
\* start the workers.
BeginRun ==
  /\ phase = "begin"
  /\ phase' = "running"
  /\ UNCHANGED <<schedule, outcome, wpc, local, token, runToken, cancelling, bodies, reaper>>

\* Mutant: a cancelled run is not told from a complete one.
BugFinishIgnoresCancel ==
  /\ phase = "running"
  /\ nextTest > NumTests
  /\ \A w \in Workers : wpc[w] = "idle"
  /\ phase' = "finished"
  /\ exitCode' = ExitCode({r.verdict : r \in results}, FALSE)
  /\ UNCHANGED <<schedule, wpc, local, token, runToken, cancelling, bodies, reaper,
                 results, offered>>

\* Every future is ready: read the run's cancellation, finalise the record.
Finish ==
  /\ phase = "running"
  /\ nextTest > NumTests
  /\ \A w \in Workers : wpc[w] = "idle"
  /\ phase' = "finished"
  /\ exitCode' = ExitCode({r.verdict : r \in results}, runToken # "none")
  /\ UNCHANGED <<schedule, wpc, local, token, runToken, cancelling, bodies, reaper,
                 results, offered>>

\* ~TestRunner().  Its owner destroys it only when no requestCancellation()
\* call is under way (TestForgeService clears activeRunner_ under cancelMutex_).
Destroy ==
  /\ phase = "finished"
  /\ \A c \in Cancellers : cpc[c] \in {"ready", "returned"}
  /\ phase' = "draining"
  /\ UNCHANGED <<schedule, outcome, wpc, local, token, runToken, cancelling, bodies, reaper>>

\* drain() waits for one orphan after the other until the grace is used up.
ReapFinished(e) ==
  /\ phase = "draining"
  /\ e \in orphans /\ body[e] = "done"
  /\ orphans' = orphans \ {e}
  /\ UNCHANGED <<schedule, outcome, phase, wpc, local, token, runToken, cancelling,
                 bodies, stuck>>

ReapGivesUp(e) ==
  /\ phase = "draining"
  /\ e \in orphans /\ body[e] # "done"
  /\ orphans' = orphans \ {e}
  /\ stuck' = stuck \cup {e}
  /\ UNCHANGED <<schedule, outcome, phase, wpc, local, token, runToken, cancelling, bodies>>

Drained ==
  /\ phase = "draining"
  /\ orphans = {}
  /\ phase' = "gone"
  /\ UNCHANGED <<schedule, outcome, wpc, local, token, runToken, cancelling, bodies, reaper>>

-----------------------------------------------------------------------------
(* Workers: executeWithRetries() and runOne()                              *)

\* A worker takes the next test and looks at stopScheduling.
TakeTest(w) ==
  /\ phase = "running"
  /\ wpc[w] = "idle"
  /\ nextTest <= NumTests
  /\ nextTest' = nextTest + 1
  /\ IF stopScheduling
     THEN UNCHANGED <<wpc, exec>>
     ELSE /\ exec' = [exec EXCEPT ![w] = <<nextTest, 1>>]
          /\ Goto(w, "enter")
  /\ UNCHANGED <<profile, stopScheduling, dropped, outcome, phase, verdict, deadlineExceeded,
                 token, runToken, cancelling, bodies, reaper>>

\* The early returns of runOne() before a source exists.
NotExecutable(w) ==
  /\ wpc[w] = "enter"
  /\ \/ /\ ~Profile(w).enabled
        /\ verdict' = [verdict EXCEPT ![w] = Verdict("Skipped", "None")]
     \/ /\ Profile(w).enabled /\ Profile(w).factory = "null"
        /\ verdict' = [verdict EXCEPT ![w] = Verdict("Error", "FrameworkError")]
  /\ Goto(w, "judged")
  /\ UNCHANGED <<schedule, outcome, phase, exec, deadlineExceeded, token, runToken,
                 cancelling, bodies, reaper>>

\* A factory is user code: its exception leaves runOne() and the task.  The
\* pool path logs it when it collects the future; the sequential path lets it
\* out of run().
FactoryThrows(w) ==
  /\ wpc[w] = "enter"
  /\ Profile(w).enabled /\ Profile(w).factory = "throws"
  /\ dropped' = dropped \cup {exec[w][1]}
  /\ Goto(w, "idle")
  /\ phase' = IF Sequential THEN "finished" ELSE phase
  /\ UNCHANGED <<profile, nextTest, stopScheduling, outcome, local, token, runToken,
                 cancelling, bodies, reaper>>

\* Create the source and publish it.
Register(w) ==
  /\ wpc[w] = "enter"
  /\ Profile(w).enabled /\ Profile(w).factory = "makes"
  /\ activeLock = "free"
  /\ active' = active \cup {exec[w]}
  /\ Goto(w, "check")
  /\ UNCHANGED <<schedule, outcome, phase, local, token, runToken, activeLock, cpc, todo,
                 bodies, reaper>>

\* Start the body: inline without a deadline, else on a helper thread.
Launch(w) ==
  /\ wpc[w] = "check"
  /\ body' = [body EXCEPT ![exec[w]] = "running"]
  /\ Goto(w, IF Profile(w).bounded THEN "await" ELSE "inline")
  /\ UNCHANGED <<schedule, outcome, phase, local, token, runToken, cancelling, bundle, reaper>>

\* Mutant: the run's cancellation is not looked at again after publishing.
BugLaunchUnchecked(w) == Launch(w)

LaunchBody(w) == runToken = "none" /\ Launch(w)

\* The run was cancelled before this test started.
NotRun(w) ==
  /\ wpc[w] = "check"
  /\ runToken # "none"
  /\ verdict' = [verdict EXCEPT ![w] = Verdict("Skipped", "None")]
  /\ Goto(w, "unregister")
  /\ UNCHANGED <<schedule, outcome, phase, exec, deadlineExceeded, token, runToken,
                 cancelling, bodies, reaper>>

\* executeBody() returned, or its promise is seen ready before the deadline or
\* during the grace period; the helper thread is joined.
BodyReady(w) ==
  /\ wpc[w] \in {"inline", "await", "grace"}
  /\ body[exec[w]] = "done"
  /\ Goto(w, "judge")
  /\ UNCHANGED <<schedule, outcome, phase, local, token, runToken, cancelling, bodies, reaper>>

\* awaitBoundedBody(): between two slices, pass a run-wide cancellation on.
ForwardRunCancellation(w) ==
  /\ wpc[w] = "await"
  /\ runToken # "none" /\ token[exec[w]] = "none"
  /\ token' = [token EXCEPT ![exec[w]] = Cancel(@, runToken)]
  /\ UNCHANGED <<schedule, outcome, phase, wpc, local, runToken, cancelling, bodies, reaper>>

\* The deadline has passed: cancel the test and grant it the grace period.
DeadlinePasses(w) ==
  /\ wpc[w] = "await"
  /\ deadlineExceeded' = [deadlineExceeded EXCEPT ![w] = TRUE]
  /\ token' = [token EXCEPT ![exec[w]] = Cancel(@, "deadline")]
  /\ Goto(w, "grace")
  /\ UNCHANGED <<schedule, outcome, phase, exec, verdict, runToken, cancelling, bodies, reaper>>

\* Mutant: after the grace period the bundle of the running body is read.
BugReadAfterGrace(w) ==
  /\ wpc[w] = "grace"
  /\ body[exec[w]] # "done"
  /\ Goto(w, "judge")
  /\ UNCHANGED <<schedule, outcome, phase, local, token, runToken, cancelling, bodies, reaper>>

\* Mutant: the thread is detached but the reaper is not told.
BugAbandonSilently(w) ==
  /\ wpc[w] = "grace"
  /\ body[exec[w]] # "done"
  /\ verdict' = [verdict EXCEPT ![w] = Verdict("Timeout", "Timeout")]
  /\ Goto(w, "unregister")
  /\ UNCHANGED <<schedule, outcome, phase, exec, deadlineExceeded, token, runToken,
                 cancelling, bodies, reaper>>

\* Mutant: the thread is joined instead of detached.
BugAbandonJoins(w) ==
  /\ wpc[w] = "grace"
  /\ body[exec[w]] = "done"
  /\ verdict' = [verdict EXCEPT ![w] = Verdict("Timeout", "Timeout")]
  /\ Goto(w, "unregister")
  /\ UNCHANGED <<schedule, outcome, phase, exec, deadlineExceeded, token, runToken,
                 cancelling, bodies, reaper>>

\* The grace period is over: detach the thread, leave it to the reaper and
\* judge from outside.
Abandon(w) ==
  /\ wpc[w] = "grace"
  /\ body[exec[w]] # "done"
  /\ orphans' = orphans \cup {exec[w]}
  /\ verdict' = [verdict EXCEPT ![w] = Verdict("Timeout", "Timeout")]
  /\ Goto(w, "unregister")
  /\ UNCHANGED <<schedule, outcome, phase, exec, deadlineExceeded, token, runToken,
                 cancelling, bodies, stuck>>

\* Read the bundle, override and refine.
JudgeBody(w) ==
  /\ wpc[w] = "judge"
  /\ LET b == bundle[exec[w]]
         cancelledByRun == token[exec[w]] # "none" /\ ~deadlineExceeded[w]
     IN verdict' = [verdict EXCEPT ![w] =
                      Judge(b.verdict, b.metadata, deadlineExceeded[w], cancelledByRun)]
  /\ Goto(w, "unregister")
  /\ UNCHANGED <<schedule, outcome, phase, exec, deadlineExceeded, token, runToken,
                 cancelling, bodies, reaper>>

\* ~ActiveRegistration, after which the source dies.
Withdraw(w) ==
  /\ wpc[w] = "unregister"
  /\ active' = active \ {exec[w]}
  /\ deadlineExceeded' = [deadlineExceeded EXCEPT ![w] = FALSE]
  /\ Goto(w, "judged")
  /\ UNCHANGED <<schedule, outcome, phase, exec, verdict, token, runToken, activeLock, cpc, todo,
                 bodies, reaper>>

\* Mutant: the registration is erased without activeMutex.
BugUnregisterUnlocked(w) == Withdraw(w)

Unregister(w) == activeLock = "free" /\ Withdraw(w)

Retries(w) == /\ IsFailure(verdict[w].status)
              /\ exec[w][2] < MaxAttempts
              /\ IsRetryable(verdict[w].category)

NextAttempt(w) == /\ exec' = [exec EXCEPT ![w] = <<@[1], @[2] + 1>>]
                  /\ verdict' = [verdict EXCEPT ![w] = NoVerdictYet]
                  /\ Goto(w, "enter")

\* Mutant: only the last attempt is persisted.
BugRetryUnsaved(w) ==
  /\ wpc[w] = "judged"
  /\ Retries(w)
  /\ NextAttempt(w)
  /\ UNCHANGED <<schedule, outcome, phase, deadlineExceeded, token, runToken, cancelling, bodies, reaper>>

\* A transient failure with attempts left: persist the attempt, try again.
Retry(w) ==
  /\ wpc[w] = "judged"
  /\ Retries(w)
  /\ Save(exec[w])
  /\ NextAttempt(w)
  /\ UNCHANGED <<schedule, results, exitCode, phase, deadlineExceeded, token, runToken,
                 cancelling, bodies, reaper>>

\* handleResult() up to the fail-fast test.
Conclude(w) ==
  /\ wpc[w] = "judged"
  /\ ~Retries(w)
  /\ Save(exec[w])
  /\ Goto(w, IF FailFast /\ IsFailure(verdict[w].status) THEN "stop" ELSE "idle")
  /\ verdict' = [verdict EXCEPT ![w] = NoVerdictYet]
  /\ UNCHANGED <<schedule, exitCode, phase, exec, deadlineExceeded, token, runToken,
                 cancelling, bodies, reaper>>

ResultOf(w) == [test |-> exec[w][1], attempt |-> exec[w][2], verdict |-> verdict[w],
                flaky |-> exec[w][2] > 1 /\ ~IsFailure(verdict[w].status)]

\* Mutant: a result that arrives after fail-fast has tripped is thrown away.
BugHandleNothingAfterStop(w) ==
  Conclude(w) /\ results' = IF stopScheduling THEN results ELSE results \cup {ResultOf(w)}

HandleResult(w) == Conclude(w) /\ results' = results \cup {ResultOf(w)}

\* Fail-fast: first no new tests, then cancel the run's source.
StopScheduling(w) ==
  /\ wpc[w] = "stop"
  /\ stopScheduling' = TRUE
  /\ Goto(w, "trip")
  /\ UNCHANGED <<profile, nextTest, dropped, outcome, phase, local, token, runToken,
                 cancelling, bodies, reaper>>

TripFailFast(w) ==
  /\ wpc[w] = "trip"
  /\ runToken' = Cancel(runToken, "failfast")
  /\ Goto(w, "idle")
  /\ UNCHANGED <<schedule, outcome, phase, local, token, cancelling, bodies, reaper>>

-----------------------------------------------------------------------------
(* Test bodies: executeBody() on the worker or on the helper thread        *)

\* setUp, execute and tearDown end with outcome o; the verdict, the metadata
\* and the logs are in the bundle before the promise is fulfilled.
EndsWith(e, o) ==
  /\ body[e] = "running"
  /\ body' = [body EXCEPT ![e] = "done"]
  /\ bundle' = [bundle EXCEPT ![e] =
       [verdict |-> BodyVerdict(o.ending, o.inSetUp), metadata |-> o.metadata,
        tainted |-> token[e] # "none"]]
  /\ UNCHANGED <<schedule, outcome, phase, wpc, local, token, runToken, cancelling, reaper>>

\* throwIfCancelled() throws only once the execution's source is cancelled.
ObservesCancellation(e) ==
  /\ token[e] # "none"
  /\ profile[e[1]].manners # "stubborn"
  /\ EndsWith(e, [ending |-> [kind |-> "TestCancelled", category |-> "None"],
                  inSetUp |-> FALSE, metadata |-> NoMetadata])

BodyEnds(e) == ObservesCancellation(e) \/ \E o \in Outcomes : EndsWith(e, o)

-----------------------------------------------------------------------------
(* requestCancellation(), called from other threads                        *)

RequestCancellation(c) ==
  /\ cpc[c] = "ready"
  /\ phase \in {"begin", "running", "finished"}
  /\ runToken' = Cancel(runToken, "signal")
  /\ cpc' = [cpc EXCEPT ![c] = "lock"]
  /\ UNCHANGED <<schedule, outcome, phase, wpc, local, token, active, activeLock, todo,
                 bodies, reaper>>

\* Mutant: only the run's source is cancelled.
BugCancelRunOnly(c) ==
  /\ cpc[c] = "lock"
  /\ cpc' = [cpc EXCEPT ![c] = "returned"]
  /\ UNCHANGED <<schedule, outcome, phase, wpc, local, token, runToken, active, activeLock,
                 todo, bodies, reaper>>

\* cancelAllActive(): one source after the other under activeMutex.
CancelAllActive(c) ==
  /\ cpc[c] = "lock"
  /\ activeLock = "free"
  /\ activeLock' = c
  /\ todo' = [todo EXCEPT ![c] = active]
  /\ cpc' = [cpc EXCEPT ![c] = "walk"]
  /\ UNCHANGED <<schedule, outcome, phase, wpc, local, token, runToken, active, bodies, reaper>>

CancelOne(c) ==
  /\ cpc[c] = "walk"
  /\ \E e \in todo[c] :
       /\ token' = [token EXCEPT ![e] = Cancel(@, "signal")]
       /\ todo' = [todo EXCEPT ![c] = @ \ {e}]
  /\ UNCHANGED <<schedule, outcome, phase, wpc, local, runToken, active, activeLock, cpc,
                 bodies, reaper>>

CancelReturns(c) ==
  /\ cpc[c] = "walk" /\ todo[c] = {}
  /\ activeLock' = "free"
  /\ cpc' = [cpc EXCEPT ![c] = "returned"]
  /\ UNCHANGED <<schedule, outcome, phase, wpc, local, token, runToken, active, todo,
                 bodies, reaper>>

-----------------------------------------------------------------------------
MainStep == \/ BeginRun \/ Finish \/ Destroy \/ Drained
            \/ \E e \in Executions : ReapFinished(e) \/ ReapGivesUp(e)

WorkerStep(w) ==
  \/ TakeTest(w) \/ NotExecutable(w) \/ FactoryThrows(w) \/ Register(w)
  \/ LaunchBody(w) \/ NotRun(w) \/ BodyReady(w) \/ ForwardRunCancellation(w)
  \/ DeadlinePasses(w) \/ Abandon(w) \/ JudgeBody(w) \/ Unregister(w)
  \/ Retry(w) \/ HandleResult(w) \/ StopScheduling(w) \/ TripFailFast(w)

CancelStep(c) == CancelAllActive(c) \/ CancelOne(c) \/ CancelReturns(c)

\* The runner is gone and every detached thread has ended.
Terminated == /\ phase = "gone"
              /\ \A e \in Executions : body[e] # "running"
              /\ UNCHANGED vars

Next == \/ MainStep
        \/ \E w \in Workers : WorkerStep(w)
        \/ \E e \in Executions : BodyEnds(e)
        \/ \E c \in Cancellers : RequestCancellation(c) \/ CancelStep(c)
        \/ Terminated

Spec == Init /\ [][Next]_vars

\* The threads of TestForge are scheduled and time passes.  A body owes its
\* end only if it is finite, or cooperative and cancelled; nobody has to call
\* requestCancellation().
BodyOwesEnd(e) ==
  /\ \/ profile[e[1]].manners = "finite"
     \/ profile[e[1]].manners = "cooperative" /\ token[e] # "none"
  /\ BodyEnds(e)

Fairness == /\ WF_vars(MainStep)
            /\ \A w \in Workers : WF_vars(WorkerStep(w))
            /\ \A e \in Executions : WF_vars(BodyOwesEnd(e))
            /\ \A c \in Cancellers : WF_vars(CancelStep(c))

FairSpec == Spec /\ Fairness

-----------------------------------------------------------------------------
(* Safety                                                                  *)

Returned == \E c \in Cancellers : cpc[c] = "returned"

\* A worker reads the bundle only after the body has stopped writing to it,
\* on the inline path, before the deadline and in the grace period alike.
NoTornRead == \A w \in Workers : wpc[w] = "judge" => body[exec[w]] = "done"

\* Once a call of requestCancellation() has returned, no body a worker still
\* waits for has an uncancelled source: a test is either published in time to
\* be walked, or sees the run's cancellation before its body starts.
CancellationReachesActive ==
  Returned => \A w \in Workers : wpc[w] \in {"inline", "await", "grace", "judge"}
                 => token[exec[w]] # "none"

\* cancelAllActive() never follows a pointer to a source that has died: the
\* sources live on the stacks of workers that have not deregistered yet.
WalkedSourcesAlive ==
  \A c \in Cancellers : \A e \in todo[c] : \E w \in Workers :
     /\ exec[w] = e
     /\ wpc[w] \in {"check", "inline", "await", "grace", "judge", "unregister"}

\* A verdict reached after the test was cancelled, by its deadline or with the
\* run, is never reported as the test's own.
LateVerdictsDiscarded ==
  \A r \in results : /\ r.verdict.status \in {"Passed", "Failed", "Error"}
                     /\ body[<<r.test, r.attempt>>] = "done"
     => ~bundle[<<r.test, r.attempt>>].tainted

\* The run's results account for every selected test exactly once.  Only a test
\* whose factory threw, or one that fail-fast kept from ever starting after a
\* reported failure, has no result.
EveryTestAccountedFor ==
  exitCode # -1 =>
    \A t \in Tests : LET mine == {r \in results : r.test = t}
                     IN \/ Cardinality(mine) = 1
                        \/ mine = {} /\ t \in dropped
                        \/ /\ mine = {} /\ FailFast
                           /\ \A n \in 1..MaxAttempts : body[<<t, n>>] = "none"
                           /\ \E r \in results : IsFailure(r.verdict.status)

\* Exit code 0 means that every enabled test (with a factory that works) ran to
\* its end, uncancelled, and itself said it passed or had to be skipped.
ZeroMeansVerified ==
  exitCode = 0 =>
    \A t \in Tests : profile[t].enabled /\ t \notin dropped =>
      \E r \in results : /\ r.test = t
                         /\ body[<<t, r.attempt>>] = "done"
                         /\ ~bundle[<<t, r.attempt>>].tainted
                         /\ bundle[<<t, r.attempt>>].verdict.status = r.verdict.status
                         /\ r.verdict.status \in {"Passed", "Skipped"}

\* Every attempt behind a result was offered to the repository, retried ones
\* included.
HistoryComplete ==
  \A r \in results : \A n \in 1..r.attempt : <<r.test, n>> \in offered

\* A body that still runs is waited for by a worker, known to the reaper, or
\* was reported at shutdown: no thread is forgotten.
NoForgottenThread ==
  \A e \in Executions : body[e] = "running" =>
     \/ e \in orphans \cup stuck
     \/ \E w \in Workers : exec[w] = e /\ wpc[w] \in {"inline", "await", "grace"}

\* Cancellation of a run is safe and complete at any moment: it walks live
\* sources only, misses no body a worker waits for, and the workers it wakes
\* never read a bundle that a body still writes.
CancellationSafe == NoTornRead /\ WalkedSourcesAlive /\ CancellationReachesActive

\* Every body leaves a trace: each attempt behind a result was offered to the
\* repository, and each thread that still runs is waited for or known.
NothingForgotten == HistoryComplete /\ NoForgottenThread

-----------------------------------------------------------------------------
(* Liveness                                                                *)

\* A run whose unbounded tests all end by themselves is over eventually, the
\* destructor included, however badly the bounded ones behave.
RunEnds ==
  (\A t \in Tests : profile[t].bounded \/ profile[t].manners = "finite")
     ~> phase = "gone"

\* After requestCancellation() a run ends as soon as its unbounded tests
\* cooperate, although nothing polls the run's source for them.
CancelledRunEnds ==
  (Returned /\ \A t \in Tests : profile[t].bounded \/ profile[t].manners # "stubborn")
     ~> phase = "gone"

\* A run ends, by itself or after requestCancellation(), as far as its tests
\* allow: only an unbounded test that ignores its token can hold it up.
RunsEnd == RunEnds /\ CancelledRunEnds
=============================================================================
