-------------------------- MODULE TestForgeService --------------------------
(***************************************************************************)
(* TestForgeService::run() and requestCancellation(): one run at a time,   *)
(* a flag that says so, and a pointer to the live runner through which     *)
(* other threads can cancel it.                                            *)
(*                                                                         *)
(* What goes on inside a run is the subject of TestRunner; here a runner   *)
(* works through NumTests tests and looks at its cancellation before each  *)
(* and at its end.  Each client calls run() once, each canceller calls     *)
(* requestCancellation() once.                                             *)
(***************************************************************************)
EXTENDS Verdicts, Integers

CONSTANTS Clients,     \* threads that call run()
          Cancellers,  \* threads that call requestCancellation()
          NumTests     \* tests per run

ASSUME ClientsAssumption == IsFiniteSet(Clients) /\ "nobody" \notin Clients
ASSUME CancellersAssumption == IsFiniteSet(Cancellers) /\ "free" \notin Cancellers
ASSUME TestsAssumption == NumTests \in Nat

VARIABLES
  rpc,          \* where each client is in run()
  runMutex,     \* its holder, or "nobody"
  running,      \* running_
  activeRunner, \* activeRunner_: the client whose runner it is, or "nobody"
  cancelMutex,  \* the canceller holding cancelMutex_ across steps, or "free"
  kpc,          \* where each canceller is in requestCancellation()
  left,         \* tests each runner has not finished
  verdicts,     \* verdicts each runner has collected
  cancelled,    \* whether a cancellation has reached each runner
  result        \* exitCode() of the run each client got back

service == <<rpc, runMutex, running, activeRunner, cancelMutex, kpc,
             left, verdicts, cancelled, result>>

\* Values of `result` that are no exit code.
Pending == -1
Threw == -2

TypeOK ==
  /\ rpc \in [Clients -> {"out", "lock", "begin", "create", "running", "report",
                          "withdraw", "destroy", "unlock", "returned"}]
  /\ runMutex \in Clients \cup {"nobody"}
  /\ running \in BOOLEAN
  /\ activeRunner \in Clients \cup {"nobody"}
  /\ cancelMutex \in Cancellers \cup {"free"}
  /\ kpc \in [Cancellers -> {"ready", "using", "delivered", "ignored"}]
  /\ left \in [Clients -> 0..NumTests]
  /\ verdicts \in [Clients -> SUBSET Verdicts]
  /\ cancelled \in [Clients -> BOOLEAN]
  /\ result \in [Clients -> {Pending, Threw, 0, 1, 2, 4}]

Init ==
  /\ rpc = [c \in Clients |-> "out"]
  /\ runMutex = "nobody"
  /\ running = FALSE
  /\ activeRunner = "nobody"
  /\ cancelMutex = "free"
  /\ kpc = [k \in Cancellers |-> "ready"]
  /\ left = [c \in Clients |-> NumTests]
  /\ verdicts = [c \in Clients |-> {}]
  /\ cancelled = [c \in Clients |-> FALSE]
  /\ result = [c \in Clients |-> Pending]

Step(c, from, to) == rpc[c] = from /\ rpc' = [rpc EXCEPT ![c] = to]

-----------------------------------------------------------------------------
(* run()                                                                   *)

CallRun(c) ==
  /\ Step(c, "out", "lock")
  /\ UNCHANGED <<runMutex, running, activeRunner, cancelMutex, kpc, left, verdicts,
                 cancelled, result>>

\* Mutant: runMutex_ is not taken.
BugLockNothing(c) ==
  /\ Step(c, "lock", "begin")
  /\ runMutex' = c
  /\ UNCHANGED <<running, activeRunner, cancelMutex, kpc, left, verdicts, cancelled, result>>

Lock(c) ==
  /\ Step(c, "lock", "begin")
  /\ runMutex = "nobody" /\ runMutex' = c
  /\ UNCHANGED <<running, activeRunner, cancelMutex, kpc, left, verdicts, cancelled, result>>

SetRunning(c) ==
  /\ Step(c, "begin", "create")
  /\ running' = TRUE
  /\ UNCHANGED <<runMutex, activeRunner, cancelMutex, kpc, left, verdicts, cancelled, result>>

\* Construct the runner and publish it under cancelMutex_.
Publish(c) ==
  /\ Step(c, "create", "running")
  /\ cancelMutex = "free"
  /\ activeRunner' = c
  /\ UNCHANGED <<runMutex, running, cancelMutex, kpc, left, verdicts, cancelled, result>>

ExecuteNext(c) ==
  /\ rpc[c] = "running"
  /\ left' = [left EXCEPT ![c] = @ - 1]
  /\ \E v \in IF cancelled[c] THEN {Verdict("Skipped", "None")}
              ELSE {Verdict("Passed", "None"), Verdict("Failed", "AssertionFailure"),
                    Verdict("Error", "FrameworkError")} :
       verdicts' = [verdicts EXCEPT ![c] = @ \cup {v}]
  /\ UNCHANGED <<rpc, runMutex, running, activeRunner, cancelMutex, kpc, cancelled, result>>

\* The runner executes one test, or skips it once it is cancelled.
RunTest(c) == left[c] > 0 /\ ExecuteNext(c)

\* runner.run() returns; whether it was cancelled has been read by then.
RunnerReturns(c) ==
  /\ Step(c, "running", "report")
  /\ left[c] = 0
  /\ result' = [result EXCEPT ![c] = ExitCode(verdicts[c], cancelled[c])]
  /\ UNCHANGED <<runMutex, running, activeRunner, cancelMutex, kpc, left, verdicts, cancelled>>

\* An exception leaves runner.run() (TestRunner!FactoryThrows); the guards
\* clean up.
RunnerThrows(c) ==
  /\ Step(c, "running", "withdraw")
  /\ left[c] > 0
  /\ result' = [result EXCEPT ![c] = Threw]
  /\ UNCHANGED <<runMutex, running, activeRunner, cancelMutex, kpc, left, verdicts, cancelled>>

\* The reports are written and recorded; failing to is not an error.
WriteReports(c) ==
  /\ Step(c, "report", "withdraw")
  /\ UNCHANGED <<runMutex, running, activeRunner, cancelMutex, kpc, left, verdicts,
                 cancelled, result>>

Unpublish(c) ==
  /\ Step(c, "withdraw", "destroy")
  /\ activeRunner' = "nobody"
  /\ UNCHANGED <<runMutex, running, cancelMutex, kpc, left, verdicts, cancelled, result>>

\* Mutant: the slot is cleared without cancelMutex_.
BugWithdrawUnlocked(c) == Unpublish(c)

\* ~ActiveRunnerGuard
Withdraw(c) == cancelMutex = "free" /\ Unpublish(c)

\* Mutant: an early return forgets the flag.
BugDestroyKeepsFlag(c) ==
  /\ Step(c, "destroy", "unlock")
  /\ UNCHANGED <<runMutex, running, activeRunner, cancelMutex, kpc, left, verdicts,
                 cancelled, result>>

\* ~TestRunner, then ~RunningGuard
Destroy(c) ==
  /\ Step(c, "destroy", "unlock")
  /\ running' = FALSE
  /\ UNCHANGED <<runMutex, activeRunner, cancelMutex, kpc, left, verdicts, cancelled, result>>

Unlock(c) ==
  /\ Step(c, "unlock", "returned")
  /\ runMutex' = "nobody"
  /\ UNCHANGED <<running, activeRunner, cancelMutex, kpc, left, verdicts, cancelled, result>>

InRun(c) == \/ Lock(c) \/ SetRunning(c) \/ Publish(c) \/ RunTest(c) \/ RunnerReturns(c)
            \/ RunnerThrows(c) \/ WriteReports(c) \/ Withdraw(c) \/ Destroy(c) \/ Unlock(c)

-----------------------------------------------------------------------------
(* requestCancellation()                                                   *)

\* Lock cancelMutex_ and look for a runner.
AskNobody(k) ==
  /\ kpc[k] = "ready" /\ cancelMutex = "free"
  /\ activeRunner = "nobody"
  /\ kpc' = [kpc EXCEPT ![k] = "ignored"]
  /\ UNCHANGED <<rpc, runMutex, running, activeRunner, cancelMutex, left, verdicts,
                 cancelled, result>>

AskRunner(k) ==
  /\ kpc[k] = "ready" /\ cancelMutex = "free"
  /\ activeRunner # "nobody"
  /\ cancelMutex' = k
  /\ kpc' = [kpc EXCEPT ![k] = "using"]
  /\ UNCHANGED <<rpc, runMutex, running, activeRunner, left, verdicts, cancelled, result>>

Ask(k) == AskNobody(k) \/ AskRunner(k)

\* activeRunner_->requestCancellation(), then release the mutex.
CancelRunner(k) ==
  /\ kpc[k] = "using"
  /\ cancelled' = [cancelled EXCEPT ![activeRunner] = TRUE]
  /\ cancelMutex' = "free"
  /\ kpc' = [kpc EXCEPT ![k] = "delivered"]
  /\ UNCHANGED <<rpc, runMutex, running, activeRunner, left, verdicts, result>>

-----------------------------------------------------------------------------
Done == /\ \A c \in Clients : rpc[c] = "returned"
        /\ \A k \in Cancellers : kpc[k] \in {"delivered", "ignored"}
        /\ UNCHANGED service

Next == \/ \E c \in Clients : CallRun(c) \/ InRun(c)
        \/ \E k \in Cancellers : Ask(k) \/ CancelRunner(k)
        \/ Done

Spec == Init /\ [][Next]_service

-----------------------------------------------------------------------------
\* A runner exists from Publish to Destroy.
Alive(c) == rpc[c] \in {"running", "report", "withdraw", "destroy"}

\* Two runs never overlap: they would share the registry and the results file.
OneRunAtATime == \A c, d \in Clients : Alive(c) /\ Alive(d) => c = d

\* requestCancellation() never uses a runner that its owner has begun to
\* destroy, although it does not hold runMutex_.
CancelsLiveRunner ==
  \A k \in Cancellers : kpc[k] = "using" =>
     activeRunner # "nobody" /\ rpc[activeRunner] \in {"running", "report", "withdraw"}

\* runInProgress() answers correctly whenever nobody is between two of run()'s
\* bookkeeping steps: the flag outlives neither the run nor its absence.
FlagTellsTheTruth ==
  /\ (\E c \in Clients : Alive(c)) => running
  /\ (\A c \in Clients : rpc[c] \in {"out", "lock", "begin", "returned"}) => ~running

\* Runs exclude each other, and the flag tells whoever asks whether there is one.
RunsExclusive == OneRunAtATime /\ FlagTellsTheTruth
=============================================================================
