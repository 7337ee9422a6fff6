---------------------------- MODULE ServiceProofs ----------------------------
(***************************************************************************)
(* The safety of TestForgeService for any number of clients, cancellers    *)
(* and tests, and of the two programs that use it: `testforge run`, whose  *)
(* exit code is honest, and `testforge serve`, for any number of           *)
(* connections, any size of the pool and any cap on the connections in     *)
(* flight.  Both take only steps of the service, so everything proved of   *)
(* the service holds of them.  Each program has assumptions of its own on  *)
(* who its main thread is; a step cites those of the program it is about.  *)
(***************************************************************************)
EXTENDS RunCommand, RestServer, FiniteSetTheorems, TLAPS

-----------------------------------------------------------------------------
(* The service.                                                            *)

\* runMutex_ is held exactly by the client inside run().
Holder == \A c \in Clients : runMutex = c <=> rpc[c] \notin {"out", "lock", "returned"}

\* activeRunner_ names exactly the client whose runner may be used.
Published == \A c \in Clients :
               activeRunner = c <=> rpc[c] \in {"running", "report", "withdraw"}

\* A canceller uses the runner only while it holds cancelMutex_.
Guarded == \A k \in Cancellers :
             kpc[k] = "using" => cancelMutex = k /\ activeRunner # "nobody"

\* running_ is set exactly from SetRunning to Destroy.
Flagged == running <=> \E c \in Clients :
             rpc[c] \in {"create", "running", "report", "withdraw", "destroy"}

ServiceInv == TypeOK /\ Holder /\ Published /\ Guarded /\ Flagged

\* The verdicts and the exit code of an abstract run are of their types.
LEMMA VerdictTypes ==
  /\ Verdict("Skipped", "None") \in Verdicts
  /\ Verdict("Passed", "None") \in Verdicts
  /\ Verdict("Failed", "AssertionFailure") \in Verdicts
  /\ Verdict("Error", "FrameworkError") \in Verdicts
BY DEF Verdict, Verdicts, Statuses, Categories

\* TestRun::exitCode() has four values.
LEMMA ExitCodeType ==
  ASSUME NEW S, NEW b PROVE ExitCode(S, b) \in {0, 1, 2, 4}
BY DEF ExitCode

\* The invariant holds before the first call.
LEMMA ServiceInit == Init => ServiceInv
<1> SUFFICES ASSUME Init PROVE ServiceInv
  OBVIOUS
<1>1. TypeOK
  <2>1. cancelled \in [Clients -> BOOLEAN] /\ running \in BOOLEAN
    BY Zenon DEF Init
  <2>2. left \in [Clients -> 0..NumTests]
    BY TestsAssumption DEF Init
  <2>3. verdicts \in [Clients -> SUBSET Verdicts]
    BY DEF Init
  <2>4. result \in [Clients -> {Pending, Threw, 0, 1, 2, 4}]
    BY DEF Init
  <2> QED BY <2>1, <2>2, <2>3, <2>4 DEF Init, TypeOK
<1>2. Holder /\ Published /\ Guarded /\ Flagged
  BY ClientsAssumption, CancellersAssumption
  DEF Init, Holder, Published, Guarded, Flagged
<1> QED BY <1>1, <1>2 DEF ServiceInv

\* Types are preserved by every step.
LEMMA TypeStep == ServiceInv /\ [Next]_service => TypeOK'
<1> SUFFICES ASSUME ServiceInv, [Next]_service PROVE TypeOK'
  OBVIOUS
<1> USE TestsAssumption DEF ServiceInv, TypeOK, Step, Pending, Threw
<1>1. ASSUME NEW c \in Clients, CallRun(c) PROVE TypeOK'
  BY <1>1 DEF CallRun
<1>2. ASSUME NEW c \in Clients, Lock(c) PROVE TypeOK'
  BY <1>2 DEF Lock
<1>3. ASSUME NEW c \in Clients, SetRunning(c) PROVE TypeOK'
  BY <1>3 DEF SetRunning
<1>4. ASSUME NEW c \in Clients, Publish(c) PROVE TypeOK'
  BY <1>4 DEF Publish
<1>5. ASSUME NEW c \in Clients, RunTest(c) PROVE TypeOK'
  <2>1. left' \in [Clients -> 0..NumTests]
    BY <1>5 DEF RunTest, ExecuteNext
  <2>2. verdicts' \in [Clients -> SUBSET Verdicts]
    BY <1>5, VerdictTypes DEF RunTest, ExecuteNext
  <2> QED BY <1>5, <2>1, <2>2 DEF RunTest, ExecuteNext
<1>6. ASSUME NEW c \in Clients, RunnerReturns(c) PROVE TypeOK'
  BY <1>6, ExitCodeType DEF RunnerReturns
<1>7. ASSUME NEW c \in Clients, RunnerThrows(c) PROVE TypeOK'
  BY <1>7 DEF RunnerThrows
<1>8. ASSUME NEW c \in Clients, WriteReports(c) PROVE TypeOK'
  BY <1>8 DEF WriteReports
<1>9. ASSUME NEW c \in Clients, Withdraw(c) PROVE TypeOK'
  BY <1>9 DEF Withdraw, Unpublish
<1>10. ASSUME NEW c \in Clients, Destroy(c) PROVE TypeOK'
  BY <1>10 DEF Destroy
<1>11. ASSUME NEW c \in Clients, Unlock(c) PROVE TypeOK'
  BY <1>11 DEF Unlock
<1>12. ASSUME NEW k \in Cancellers, Ask(k) PROVE TypeOK'
  BY <1>12 DEF Ask, AskNobody, AskRunner
<1>13. ASSUME NEW k \in Cancellers, CancelRunner(k) PROVE TypeOK'
  BY <1>13 DEF CancelRunner
<1>14. ASSUME UNCHANGED service PROVE TypeOK'
  BY <1>14 DEF service
<1> QED
  BY <1>1, <1>2, <1>3, <1>4, <1>5, <1>6, <1>7, <1>8, <1>9, <1>10, <1>11, <1>12,
     <1>13, <1>14 DEF Next, InRun, Done

\* Who holds which mutex, what is published and what is flagged stay in step.
LEMMA LocksStep ==
  ServiceInv /\ [Next]_service => Holder' /\ Published' /\ Guarded' /\ Flagged'
<1> SUFFICES ASSUME ServiceInv, [Next]_service
             PROVE Holder' /\ Published' /\ Guarded' /\ Flagged'
  OBVIOUS
<1> USE ClientsAssumption, CancellersAssumption
    DEF ServiceInv, TypeOK, Step, Holder, Published, Guarded, Flagged
<1>1. ASSUME NEW c \in Clients, CallRun(c)
      PROVE Holder' /\ Published' /\ Guarded' /\ Flagged'
  BY <1>1 DEF CallRun
<1>2. ASSUME NEW c \in Clients, Lock(c)
      PROVE Holder' /\ Published' /\ Guarded' /\ Flagged'
  BY <1>2 DEF Lock
<1>3. ASSUME NEW c \in Clients, SetRunning(c)
      PROVE Holder' /\ Published' /\ Guarded' /\ Flagged'
  BY <1>3 DEF SetRunning
<1>4. ASSUME NEW c \in Clients, Publish(c)
      PROVE Holder' /\ Published' /\ Guarded' /\ Flagged'
  BY <1>4 DEF Publish
<1>5. ASSUME NEW c \in Clients, RunTest(c)
      PROVE Holder' /\ Published' /\ Guarded' /\ Flagged'
  BY <1>5 DEF RunTest, ExecuteNext
<1>6. ASSUME NEW c \in Clients, RunnerReturns(c) \/ RunnerThrows(c) \/ WriteReports(c)
      PROVE Holder' /\ Published' /\ Guarded' /\ Flagged'
  BY <1>6 DEF RunnerReturns, RunnerThrows, WriteReports
<1>9. ASSUME NEW c \in Clients, Withdraw(c)
      PROVE Holder' /\ Published' /\ Guarded' /\ Flagged'
  BY <1>9 DEF Withdraw, Unpublish
<1>10. ASSUME NEW c \in Clients, Destroy(c)
       PROVE Holder' /\ Published' /\ Guarded' /\ Flagged'
  BY <1>10 DEF Destroy
<1>11. ASSUME NEW c \in Clients, Unlock(c)
       PROVE Holder' /\ Published' /\ Guarded' /\ Flagged'
  BY <1>11 DEF Unlock
<1>12. ASSUME NEW k \in Cancellers, Ask(k)
       PROVE Holder' /\ Published' /\ Guarded' /\ Flagged'
  BY <1>12 DEF Ask, AskNobody, AskRunner
<1>13. ASSUME NEW k \in Cancellers, CancelRunner(k)
       PROVE Holder' /\ Published' /\ Guarded' /\ Flagged'
  BY <1>13 DEF CancelRunner
<1>14. ASSUME UNCHANGED service
       PROVE Holder' /\ Published' /\ Guarded' /\ Flagged'
  BY <1>14 DEF service
<1> QED
  BY <1>1, <1>2, <1>3, <1>4, <1>5, <1>6, <1>9, <1>10, <1>11, <1>12, <1>13, <1>14
  DEF Next, InRun, Done

\* The inductive invariant of TestForgeService.
THEOREM ServiceInvariant == Spec => []ServiceInv
<1>1. ServiceInv /\ [Next]_service => ServiceInv'
  BY TypeStep, LocksStep DEF ServiceInv
<1> QED BY ServiceInit, <1>1, PTL DEF Spec

\* The state of TestForgeService is always of its type.
THEOREM ServiceTypes == Spec => []TypeOK
<1>1. ServiceInv => TypeOK
  BY DEF ServiceInv
<1> QED BY ServiceInvariant, <1>1, PTL

\* However many clients call run(), two runs never overlap.
THEOREM RunsAreSerialised == Spec => []OneRunAtATime
<1>1. ServiceInv => OneRunAtATime
  BY ClientsAssumption DEF ServiceInv, Holder, OneRunAtATime, Alive
<1> QED BY ServiceInvariant, <1>1, PTL

\* requestCancellation() never touches a runner that is being destroyed.
THEOREM CancellationIsSafe == Spec => []CancelsLiveRunner
<1>1. ServiceInv => CancelsLiveRunner
  BY DEF ServiceInv, TypeOK, Published, Guarded, CancelsLiveRunner
<1> QED BY ServiceInvariant, <1>1, PTL

\* runInProgress() tells whether there is a run.
THEOREM RunInProgressIsRight == Spec => []FlagTellsTheTruth
<1>1. ServiceInv => FlagTellsTheTruth
  BY DEF ServiceInv, TypeOK, Flagged, FlagTellsTheTruth, Alive
<1> QED BY ServiceInvariant, <1>1, PTL

\* Runs exclude each other, and runInProgress() is right about them.
THEOREM RunsAreExclusive == Spec => []RunsExclusive
<1>1. OneRunAtATime /\ FlagTellsTheTruth => RunsExclusive
  BY DEF RunsExclusive
<1> QED
  BY <1>1, RunsAreSerialised, RunInProgressIsRight, PTL

-----------------------------------------------------------------------------
(* The command.                                                            *)

Skip == Verdict("Skipped", "None")

\* What the main thread's run has found out so far, and what its result says.
RunFacts ==
  /\ ~cancelled["main"] => Skip \notin verdicts["main"]
  /\ result["main"] = 0 => Skip \notin verdicts["main"]
  /\ result["main"] = 4 =>
        cancelled["main"] /\ \A v \in verdicts["main"] : ~IsFailure(v.status)
  /\ cancelled["main"] => kpc["watcher"] = "delivered"
  /\ rpc["main"] \in {"out", "lock", "begin", "create", "running"} => result["main"] = Pending

\* What the process's position and exit code say about the run.
ExitFacts ==
  /\ mpc \in {"start", "call"} => rpc["main"] = "out"
  /\ mpc # "exited" => exit = Running
  /\ exit = kSuccess => rpc["main"] = "out" \/ result["main"] = 0
  /\ exit > 128 /\ exit # Aborted =>
        result["main"] = 4 /\ gSignal # 0 /\ exit = 128 + gSignal

CliInv == CliTypeOK /\ ServiceInv /\ RunFacts /\ ExitFacts

\* Every step of the command is a step of the service or leaves it alone.
LEMMA CliStepIsServiceStep == CliNext => [Next]_service
<1> SUFFICES ASSUME CliNext PROVE [Next]_service
  OBVIOUS
<1> USE MainAssumption, WatcherAssumption
<1>1. CASE HandleInterrupt \/ NoRun \/ StartWatcher
  BY <1>1 DEF HandleInterrupt, NoRun, StartWatcher
<1>2. CASE CallService
  BY <1>2 DEF CallService, Next
<1>3. CASE RunInService
  BY <1>3 DEF RunInService, Next
<1>4. CASE ServiceReturned \/ ServiceThrew \/ JoinAndExit
  BY <1>4 DEF ServiceReturned, ServiceThrew, JoinAndExit
<1>5. CASE WatcherSeesEnd \/ WatcherReturns
  BY <1>5 DEF WatcherSeesEnd, WatcherReturns
<1>6. CASE WatcherAsks
  BY <1>6 DEF WatcherAsks, Next
<1>7. CASE WatcherCancels
  BY <1>7 DEF WatcherCancels, Next
<1>8. CASE Exited
  BY <1>8 DEF Exited, vars
<1> QED BY <1>1, <1>2, <1>3, <1>4, <1>5, <1>6, <1>7, <1>8
        DEF CliNext, MainThread, Watcher

\* The command implements the service's specification: its main thread is a
\* client and its watcher a canceller like any other.
THEOREM CommandUsesService == CliSpec => Spec
<1>1. CliInit => Init
  BY DEF CliInit
<1>2. [CliNext]_vars => [Next]_service
  BY CliStepIsServiceStep DEF vars
<1> QED BY <1>1, <1>2, PTL DEF CliSpec, Spec

\* A clean exit code means an uncancelled run, 4 a cancelled one without failures.
LEMMA ExitCodeMeaning ==
  ASSUME NEW S, NEW b \in BOOLEAN
  PROVE /\ ExitCode(S, b) = 0 => ~b
        /\ ExitCode(S, b) = 4 => b /\ \A v \in S : ~IsFailure(v.status)
BY DEF ExitCode

\* The facts hold when the process starts.
LEMMA CliInitInv == CliInit => CliInv
<1> SUFFICES ASSUME CliInit PROVE CliInv
  OBVIOUS
<1> USE MainAssumption, WatcherAssumption
<1>1. ServiceInv /\ TypeOK
  BY ServiceInit DEF CliInit, ServiceInv
<1>2. CliTypeOK
  <2>1. leftWhenAsked \in 0..NumTests
    BY TestsAssumption DEF CliInit
  <2> QED BY <1>1, <2>1, Zenon DEF CliInit, CliTypeOK
<1>3. RunFacts
  <2>1. /\ verdicts["main"] = {} /\ result["main"] = Pending /\ ~cancelled["main"]
    BY DEF CliInit, Init
  <2>2. Pending # 0 /\ Pending # 4
    BY DEF Pending
  <2> QED BY <2>1, <2>2, Zenon DEF RunFacts
<1>4. ExitFacts
  BY DEF CliInit, Init, ExitFacts, Running, kSuccess
<1> QED BY <1>1, <1>2, <1>3, <1>4 DEF CliInv

\* The command's own variables keep their types.
LEMMA CliTypeStep == CliInv /\ [CliNext]_vars => CliTypeOK' /\ ServiceInv'
<1> SUFFICES ASSUME CliInv, [CliNext]_vars PROVE CliTypeOK' /\ ServiceInv'
  OBVIOUS
<1>1. [Next]_service
  BY CliStepIsServiceStep DEF vars
<1>2. ServiceInv' /\ TypeOK'
  BY <1>1, TypeStep, LocksStep DEF CliInv, ServiceInv
<1>3. left["main"] \in 0..NumTests /\ result["main"] \in {Pending, Threw, 0, 1, 2, 4}
  BY MainAssumption DEF CliInv, CliTypeOK, TypeOK
<1>4. ExitFor(result["main"]) \in {kSuccess, kTestsFailed, kFrameworkError}
                                   \cup {128 + s : s \in Signals}
  BY DEF ExitFor, CliInv, CliTypeOK
<1>5. CASE UNCHANGED vars
  BY <1>2, <1>5 DEF CliInv, CliTypeOK, vars, cli
<1>6. CASE HandleInterrupt
  BY <1>2, <1>6 DEF CliInv, CliTypeOK, HandleInterrupt
<1>7. CASE MainThread
  BY <1>2, <1>4, <1>7 DEF CliInv, CliTypeOK, MainThread, NoRun, StartWatcher, CallService,
     RunInService, ServiceReturned, ServiceThrew, JoinAndExit, cli
<1>8. CASE Watcher
  BY <1>2, <1>3, <1>8 DEF CliInv, CliTypeOK, Watcher, WatcherSeesEnd, WatcherAsks,
     WatcherCancels, WatcherReturns, cli
<1> QED BY <1>2, <1>5, <1>6, <1>7, <1>8 DEF CliNext, Exited

\* What is known of the run survives every step: a test is skipped only after a
\* cancellation, and once there is a result no verdict is added.
LEMMA RunFactsStep == CliInv /\ [CliNext]_vars => RunFacts'
<1> SUFFICES ASSUME CliInv, [CliNext]_vars PROVE RunFacts'
  OBVIOUS
<1> USE MainAssumption, WatcherAssumption DEF CliInv, CliTypeOK, TypeOK, RunFacts, Step
<1>1. CASE UNCHANGED service
  BY <1>1 DEF service
<1>2. CASE CallRun("main")
  BY <1>2 DEF CallRun
<1>3. CASE RunTest("main")
  <2>1. ~cancelled["main"] => Skip \notin verdicts'["main"]
    BY <1>3 DEF RunTest, ExecuteNext, Skip, Verdict
  <2>2. result["main"] = Pending
    BY <1>3 DEF RunTest, ExecuteNext
  <2> QED BY <1>3, <2>1, <2>2 DEF RunTest, ExecuteNext, Pending
<1>4. CASE RunnerReturns("main")
  <2>1. result'["main"] = ExitCode(verdicts["main"], cancelled["main"])
    BY <1>4 DEF RunnerReturns
  <2>2. cancelled["main"] \in BOOLEAN
    OBVIOUS
  <2> QED BY <1>4, <2>1, <2>2, ExitCodeMeaning DEF RunnerReturns
<1>5. CASE RunnerThrows("main")
  BY <1>5 DEF RunnerThrows, Threw
<1>6. CASE \/ Lock("main") \/ SetRunning("main") \/ Publish("main") \/ WriteReports("main")
           \/ Withdraw("main") \/ Destroy("main") \/ Unlock("main")
  BY <1>6 DEF Lock, SetRunning, Publish, WriteReports, Withdraw, Unpublish, Destroy, Unlock
<1>7. CASE Ask("watcher")
  BY <1>7 DEF Ask, AskNobody, AskRunner
<1>8. CASE CancelRunner("watcher")
  BY <1>8 DEF CancelRunner
<1> QED
  BY <1>1, <1>2, <1>3, <1>4, <1>5, <1>6, <1>7, <1>8
  DEF CliNext, MainThread, Watcher, HandleInterrupt, NoRun, StartWatcher, CallService,
      RunInService, InRun, ServiceReturned, ServiceThrew, JoinAndExit, WatcherSeesEnd,
      WatcherAsks, WatcherCancels, WatcherReturns, Exited, vars

\* What the exit code says stays true: the run is over when it is set, and the
\* first signal is never replaced.
LEMMA ExitFactsStep == CliInv /\ [CliNext]_vars => ExitFacts'
<1> SUFFICES ASSUME CliInv, [CliNext]_vars PROVE ExitFacts'
  OBVIOUS
<1> USE MainAssumption DEF CliInv, CliTypeOK, TypeOK, ExitFacts, Signals,
        Running, kSuccess, kTestsFailed, kUsageError, kFrameworkError, Aborted
<1>1. CASE UNCHANGED vars
  BY <1>1 DEF vars, service, cli
<1>2. CASE HandleInterrupt
  BY <1>2 DEF HandleInterrupt, service
<1>3. CASE NoRun \/ StartWatcher
  BY <1>3 DEF NoRun, StartWatcher, service
<1>4. CASE CallService
  BY <1>4 DEF CallService, CallRun
<1>5. CASE RunInService
  BY <1>5 DEF RunInService, cli
<1>6. CASE ServiceReturned \/ ServiceThrew
  BY <1>6 DEF ServiceReturned, ServiceThrew, service
<1>7. CASE JoinAndExit
  <2>1. exit' = ExitFor(result["main"])
    BY <1>7 DEF JoinAndExit
  <2>2. /\ exit' = 0 => result["main"] = 0
        /\ exit' > 128 => result["main"] = 4 /\ gSignal # 0 /\ exit' = 128 + gSignal
    BY <2>1 DEF ExitFor, Pending, Threw
  <2> QED BY <1>7, <2>2 DEF JoinAndExit, service
<1>8. CASE WatcherAsks
  BY <1>8 DEF WatcherAsks, Ask, AskNobody, AskRunner
<1>9. CASE WatcherCancels
  BY <1>9 DEF WatcherCancels, CancelRunner, cli
<1>10. CASE WatcherSeesEnd \/ WatcherReturns
  BY <1>10 DEF WatcherSeesEnd, WatcherReturns, service
<1> QED
  BY <1>1, <1>2, <1>3, <1>4, <1>5, <1>6, <1>7, <1>8, <1>9, <1>10
  DEF CliNext, MainThread, Watcher, Exited

\* The inductive invariant of the command.
THEOREM CliInvariant == CliSpec => []CliInv
<1>1. CliInv /\ [CliNext]_vars => CliInv'
  BY CliTypeStep, RunFactsStep, ExitFactsStep DEF CliInv
<1> QED BY CliInitInv, <1>1, PTL DEF CliSpec

\* Exit code 0 of `testforge run` means that no test was skipped by a
\* cancellation, however many there are and whenever a signal arrives.
THEOREM ZeroIsHonest == CliSpec => []ZeroMeansNothingSkipped
<1>1. CliInv => ZeroMeansNothingSkipped
  BY DEF CliInv, RunFacts, ExitFacts, ZeroMeansNothingSkipped, Skip
<1> QED BY CliInvariant, <1>1, PTL

\* 128 + signal means a run that this signal cut short and that had no failure.
THEOREM SignalExitsAreHonest == CliSpec => []SignalExitIsHonest
<1>1. CliInv => SignalExitIsHonest
  BY DEF CliInv, RunFacts, ExitFacts, SignalExitIsHonest
<1> QED BY CliInvariant, <1>1, PTL

\* Both together: no exit code of `testforge run` claims more than its run has
\* shown, whatever the signals and the verdicts were.
THEOREM ExitCodesAreHonest == CliSpec => []ExitCodeHonest
<1>1. ZeroMeansNothingSkipped /\ SignalExitIsHonest => ExitCodeHonest
  BY DEF ExitCodeHonest
<1> QED BY ZeroIsHonest, SignalExitsAreHonest, <1>1, PTL

-----------------------------------------------------------------------------
(* The server.                                                             *)

ServerTypeOK ==
  /\ listenFd \in {"none", "open", "closed"} /\ pool \in {"none", "up"}
  /\ queue \in Seq(Conns) /\ inFlight \in Int
  /\ apc \in {"none", "check", "poll", "accept", "admit", "submit", "exited"}
  /\ conn \in [Conns -> {"outside", "backlog", "accepted", "queued", "reading", "handling",
                         "closed", "reset"}]
  /\ spc \in [Stoppers -> {"out", "join", "close", "drain", "notify", "stopped", "returned"}]

\* The acceptor holds one connection while it decides, and only then.
OneAccepted ==
  /\ apc \in {"admit", "submit"} => accepted \in Conns /\ conn[accepted] = "accepted"
  /\ \A c \in Conns : conn[c] = "accepted" => c = accepted /\ apc \in {"admit", "submit"}

\* The pool's queue holds the queued connections, each once.
QueueExact ==
  /\ \A i \in 1..Len(queue) : conn[queue[i]] = "queued"
  /\ \A c \in Conns : conn[c] = "queued" => \E i \in 1..Len(queue) : queue[i] = c
  /\ \A i, j \in 1..Len(queue) : queue[i] = queue[j] => i = j

\* What each stage of stop() leaves behind is still so at the later stages.
StagesKept ==
  /\ apc \notin {"none", "exited"} => listenFd = "open" /\ pool = "up"
  /\ \A s \in Stoppers :
       /\ spc[s] \in {"close", "drain", "notify", "stopped"} => apc = "exited"
       /\ spc[s] \in {"drain", "notify", "stopped"} =>
            listenFd = "closed" /\ \A c \in Conns : conn[c] # "backlog"
       /\ spc[s] \in {"notify", "stopped"} => queue = <<>> /\ Busy = {}

ServerInv == ServerTypeOK /\ OneAccepted /\ QueueExact /\ InFlightExact /\ StagesKept

-----------------------------------------------------------------------------
(* Counting the connections the process holds                              *)

HeldState == {"accepted", "queued", "reading", "handling"}

\* The connections held are finitely many.
LEMMA HeldFinite ==
  IsFiniteSet(Held) /\ Cardinality(Held) \in Nat
  BY ConnsAssumption, FS_Subset, FS_CardinalityType DEF Held, Busy

\* A connection that comes to be held makes them one more.
LEMMA HeldGrows ==
  ASSUME ServerTypeOK, NEW c \in Conns, NEW v \in HeldState, conn[c] \notin HeldState,
         conn' = [conn EXCEPT ![c] = v]
  PROVE  Cardinality(Held') = Cardinality(Held) + 1
<1>1. c \notin Held  BY DEF Held, Busy, HeldState
<1>2. Held' = Held \cup {c}
  BY DEF Held, Busy, HeldState, ServerTypeOK
<1> QED BY <1>1, <1>2, HeldFinite, FS_AddElement

\* One that is closed makes them one less.
LEMMA HeldShrinks ==
  ASSUME ServerTypeOK, NEW c \in Conns, conn[c] \in HeldState, CloseConn(c)
  PROVE  Cardinality(Held') = Cardinality(Held) - 1
<1>1. c \in Held  BY DEF Held, Busy, HeldState
<1>2. Held' = Held \ {c}
  BY DEF Held, Busy, HeldState, ServerTypeOK, CloseConn
<1> QED BY <1>1, <1>2, HeldFinite, FS_RemoveElement

\* One that only moves on changes nothing.
LEMMA HeldKept ==
  ASSUME ServerTypeOK, NEW c \in Conns, NEW v,
         conn[c] \in HeldState <=> v \in HeldState, conn' = [conn EXCEPT ![c] = v]
  PROVE  Held' = Held
  BY DEF Held, Busy, HeldState, ServerTypeOK

-----------------------------------------------------------------------------
(* Every step keeps the invariant                                          *)

\* A server that was not started holds nothing.
LEMMA ServerInitially == RestInit => ServerInv
<1> SUFFICES ASSUME RestInit PROVE ServerInv
  OBVIOUS
<1>1. Held = {}  BY DEF RestInit, ServerInit, Held, Busy
<1>2. Cardinality(Held) = 0  BY <1>1, FS_EmptySet
<1>3. InFlightExact
  BY <1>2, LimitsAssumption DEF RestInit, ServerInit, InFlightExact
<1> QED
  BY <1>3 DEF RestInit, ServerInit, ServerInv, ServerTypeOK, OneAccepted, QueueExact, StagesKept

\* start() opens the socket and the pool for an acceptor that is not there yet.
LEMMA StartKeeps == ServerInv /\ Start => ServerInv'
<1> SUFFICES ASSUME ServerInv, Start PROVE ServerInv'
  OBVIOUS
<1> USE DEF ServerInv, Start
<1>1. Held' = Held /\ Busy' = Busy  BY DEF Held, Busy
<1>2. InFlightExact'  BY <1>1 DEF InFlightExact
<1> QED BY <1>1, <1>2 DEF ServerTypeOK, OneAccepted, QueueExact, StagesKept

\* A client connects only while the kernel listens, before stop() closes.
LEMMA ConnectKeeps ==
  ASSUME ServerInv, NEW c \in Conns, Connect(c) PROVE ServerInv'
<1> USE DEF ServerInv, Connect
<1>1. Held' = Held  BY HeldKept DEF HeldState
<1>2. Busy' = Busy  BY DEF Busy, ServerTypeOK
<1>3. InFlightExact'  BY <1>1 DEF InFlightExact
<1>4. ServerTypeOK' /\ OneAccepted'  BY DEF ServerTypeOK, OneAccepted
<1>5. QueueExact'  BY DEF ServerTypeOK, QueueExact
<1>6. StagesKept'  BY <1>2 DEF ServerTypeOK, StagesKept
<1> QED BY <1>3, <1>4, <1>5, <1>6

\* The acceptor, but for the steps that touch a connection.
LEMMA LoopKeeps ==
  ASSUME ServerInv, LoopTest \/ Poll \/ AcceptFails PROVE ServerInv'
<1> USE DEF ServerInv, LoopTest, Poll, AcceptFails
<1>1. Held' = Held /\ Busy' = Busy  BY DEF Held, Busy
<1>2. InFlightExact'  BY <1>1 DEF InFlightExact
<1>3. ServerTypeOK' /\ OneAccepted' /\ QueueExact'  BY DEF ServerTypeOK, OneAccepted, QueueExact
<1>4. StagesKept'  BY <1>1 DEF ServerTypeOK, StagesKept
<1> QED BY <1>2, <1>3, <1>4

\* accept() adds the one connection the counter does not count yet.
LEMMA AcceptKeeps ==
  ASSUME ServerInv, NEW c \in Conns, AcceptConn(c) PROVE ServerInv'
<1> USE DEF ServerInv, AcceptConn
<1>1. Cardinality(Held') = Cardinality(Held) + 1  BY HeldGrows DEF HeldState
<1>2. Busy' = Busy  BY DEF Busy, ServerTypeOK
<1>3. InFlightExact'  BY <1>1, HeldFinite DEF InFlightExact
<1>4. ServerTypeOK' /\ OneAccepted'  BY DEF ServerTypeOK, OneAccepted
<1>5. QueueExact'  BY DEF ServerTypeOK, QueueExact
<1>6. StagesKept'  BY <1>2 DEF ServerTypeOK, StagesKept
<1> QED BY <1>3, <1>4, <1>5, <1>6

\* Over the cap, the connection is closed without having been counted.
LEMMA RefuseKeeps == ASSUME ServerInv, Refuse PROVE ServerInv'
<1> USE DEF ServerInv, Refuse, CloseConn
<1>0. accepted \in Conns /\ conn[accepted] = "accepted"  BY DEF OneAccepted
<1>1. Cardinality(Held') = Cardinality(Held) - 1  BY <1>0, HeldShrinks DEF HeldState
<1>2. Busy' = Busy  BY <1>0 DEF Busy, ServerTypeOK
<1>3. InFlightExact'  BY <1>1, HeldFinite DEF InFlightExact
<1>4. ServerTypeOK' /\ OneAccepted'  BY <1>0, ConnsAssumption DEF ServerTypeOK, OneAccepted
<1>5. QueueExact'  BY <1>0 DEF ServerTypeOK, QueueExact
<1>6. StagesKept'  BY <1>2 DEF ServerTypeOK, StagesKept
<1> QED BY <1>3, <1>4, <1>5, <1>6

\* Under the cap, the connection the acceptor holds becomes a counted one.
LEMMA CountKeeps == ASSUME ServerInv, Count PROVE ServerInv'
<1> USE DEF ServerInv, Count
<1>1. Held' = Held /\ Busy' = Busy  BY DEF Held, Busy
<1>2. InFlightExact'
  BY <1>1, HeldFinite, LimitsAssumption DEF InFlightExact, ServerTypeOK
<1>3. ServerTypeOK' /\ OneAccepted' /\ QueueExact'  BY DEF ServerTypeOK, OneAccepted, QueueExact
<1>4. StagesKept'  BY <1>1 DEF ServerTypeOK, StagesKept
<1> QED BY <1>2, <1>3, <1>4

\* The connection goes from the acceptor to the end of the queue.
LEMMA SubmitKeeps == ASSUME ServerInv, SubmitConn PROVE ServerInv'
<1> USE DEF ServerInv, SubmitConn
<1>0. accepted \in Conns /\ conn[accepted] = "accepted"  BY DEF OneAccepted
<1>1. Held' = Held  BY <1>0, HeldKept DEF HeldState
<1>2. Busy' = Busy  BY <1>0 DEF Busy, ServerTypeOK
<1>3. InFlightExact'  BY <1>1, HeldFinite DEF InFlightExact
<1>4. ServerTypeOK' /\ OneAccepted'  BY <1>0, ConnsAssumption DEF ServerTypeOK, OneAccepted
<1>5. /\ Len(queue') = Len(queue) + 1 /\ queue'[Len(queue) + 1] = accepted
      /\ \A i \in 1..Len(queue) : queue'[i] = queue[i]
  BY <1>0 DEF ServerTypeOK
<1>6. Len(queue) \in Nat /\ \A i \in 1..Len(queue) : queue[i] \in Conns  BY DEF ServerTypeOK
<1>7. \A i \in 1..Len(queue) : queue[i] # accepted  BY <1>0 DEF QueueExact
<1>8. QueueExact'
  <2>1. \A i \in 1..Len(queue') : conn'[queue'[i]] = "queued"
    BY <1>0, <1>5, <1>6, <1>7 DEF ServerTypeOK, QueueExact
  <2>2. ASSUME NEW d \in Conns, conn'[d] = "queued"
        PROVE  \E i \in 1..Len(queue') : queue'[i] = d
    <3>1. CASE d = accepted  BY <3>1, <1>5, <1>6
    <3>2. CASE d # accepted
      <4>1. conn[d] = "queued"  BY <2>2, <3>2, <1>0 DEF ServerTypeOK
      <4>2. PICK i \in 1..Len(queue) : queue[i] = d  BY <4>1 DEF QueueExact
      <4> QED BY <4>2, <1>5, <1>6
    <3> QED BY <3>1, <3>2
  <2>3. \A i, j \in 1..Len(queue') : queue'[i] = queue'[j] => i = j
    BY <1>5, <1>6, <1>7 DEF QueueExact
  <2> QED BY <2>1, <2>2, <2>3 DEF QueueExact
<1>9. StagesKept'  BY <1>2 DEF ServerTypeOK, StagesKept
<1> QED BY <1>3, <1>4, <1>8, <1>9

\* A worker takes the head of the queue, which is there only once.
LEMMA TakeKeeps == ASSUME ServerInv, TakeConn PROVE ServerInv'
<1> USE DEF ServerInv, TakeConn
<1> DEFINE c == Head(queue)
<1>0. /\ Len(queue) \in Nat \ {0} /\ c = queue[1] /\ c \in Conns
      /\ \A i \in 1..Len(queue) : queue[i] \in Conns
  BY DEF ServerTypeOK
<1>1. conn[c] = "queued"  BY <1>0 DEF QueueExact
<1>2. Held' = Held  BY <1>0, <1>1, HeldKept DEF HeldState
<1>3. InFlightExact'  BY <1>2, HeldFinite DEF InFlightExact
<1>4. ServerTypeOK' /\ OneAccepted'  BY <1>0, <1>1 DEF ServerTypeOK, OneAccepted
<1>5. /\ Len(queue') = Len(queue) - 1
      /\ \A i \in 1..Len(queue') : queue'[i] = queue[i + 1]
  BY <1>0 DEF ServerTypeOK
<1>6. QueueExact'
  <2>1. \A i \in 1..Len(queue') : conn'[queue'[i]] = "queued"
    <3> SUFFICES ASSUME NEW i \in 1..Len(queue') PROVE conn'[queue'[i]] = "queued"
      OBVIOUS
    <3>1. i + 1 \in 1..Len(queue) /\ i + 1 # 1 /\ queue'[i] = queue[i + 1]  BY <1>0, <1>5
    <3>2. queue[i + 1] # c /\ conn[queue[i + 1]] = "queued"  BY <3>1, <1>0 DEF QueueExact
    <3> QED BY <3>1, <3>2, <1>0 DEF ServerTypeOK
  <2>2. ASSUME NEW d \in Conns, conn'[d] = "queued"
        PROVE  \E i \in 1..Len(queue') : queue'[i] = d
    <3>1. d # c /\ conn[d] = "queued"  BY <2>2, <1>0 DEF ServerTypeOK
    <3>2. PICK i \in 1..Len(queue) : queue[i] = d  BY <3>1 DEF QueueExact
    <3>3. i # 1  BY <3>1, <3>2, <1>0
    <3>4. i - 1 \in 1..Len(queue') /\ queue'[i - 1] = queue[i]  BY <3>3, <1>0, <1>5
    <3> QED BY <3>2, <3>4
  <2>3. ASSUME NEW i \in 1..Len(queue'), NEW j \in 1..Len(queue'), queue'[i] = queue'[j]
        PROVE  i = j
    <3>1. i + 1 \in 1..Len(queue) /\ j + 1 \in 1..Len(queue)  BY <1>0, <1>5
    <3>2. queue[i + 1] = queue[j + 1]  BY <2>3, <1>5
    <3>3. i + 1 = j + 1  BY <3>1, <3>2 DEF QueueExact
    <3> QED BY <3>3, <1>0, <1>5
  <2> QED BY <2>1, <2>2, <2>3 DEF QueueExact
<1>7. StagesKept'  BY <1>0, <1>1 DEF ServerTypeOK, StagesKept
<1> QED BY <1>3, <1>4, <1>6, <1>7

\* A worker gets a request, refuses it or answers it.
LEMMA ServeKeeps ==
  ASSUME ServerInv, NEW c \in Conns, ReadRefused(c) \/ ReadRequest(c) \/ WriteResponse(c)
  PROVE  ServerInv'
<1> USE DEF ServerInv
<1>0. c \in Busy /\ conn[c] \in {"reading", "handling"}
  BY DEF Busy, ReadRefused, ReadRequest, WriteResponse
<1>1. CASE ReadRequest(c)
  <2> USE <1>1 DEF ReadRequest
  <2>1. Held' = Held  BY HeldKept DEF HeldState
  <2>2. InFlightExact'  BY <2>1, HeldFinite DEF InFlightExact
  <2>3. ServerTypeOK' /\ OneAccepted'  BY DEF ServerTypeOK, OneAccepted
  <2>4. QueueExact'  BY DEF ServerTypeOK, QueueExact
  <2>5. StagesKept'  BY <1>0 DEF ServerTypeOK, StagesKept
  <2> QED BY <2>2, <2>3, <2>4, <2>5
<1>2. CASE ReadRefused(c) \/ WriteResponse(c)
  <2> USE <1>2 DEF ReadRefused, WriteResponse, CloseConn
  <2>1. Cardinality(Held') = Cardinality(Held) - 1  BY <1>0, HeldShrinks DEF HeldState
  <2>2. InFlightExact'
    BY <2>1, HeldFinite, LimitsAssumption DEF InFlightExact, ServerTypeOK
  <2>3. ServerTypeOK' /\ OneAccepted'  BY <1>0 DEF ServerTypeOK, OneAccepted
  <2>4. QueueExact'  BY <1>0 DEF ServerTypeOK, QueueExact
  <2>5. StagesKept'  BY <1>0 DEF ServerTypeOK, StagesKept
  <2> QED BY <2>2, <2>3, <2>4, <2>5
<1> QED BY <1>1, <1>2

\* stop() goes from stage to stage, each resting on the one before.
LEMMA StopKeeps ==
  ASSUME ServerInv, NEW s \in Stoppers, StopFirst(s) \/ StopAgain(s) \/ Stop(s)
  PROVE  ServerInv'
<1> USE DEF ServerInv
<1>1. CASE CloseListenFd(s)
  <2> USE <1>1 DEF CloseListenFd, At
  <2>0. apc = "exited"  BY DEF StagesKept
  <2>1. Held' = Held /\ Busy' = Busy  BY DEF Held, Busy, ServerTypeOK
  <2>2. InFlightExact'  BY <2>1 DEF InFlightExact
  <2>3. ServerTypeOK'  BY DEF ServerTypeOK
  <2>4. OneAccepted'  BY <2>0 DEF OneAccepted, ServerTypeOK
  <2>5. QueueExact'  BY DEF ServerTypeOK, QueueExact
  <2>6. StagesKept'  BY <2>0, <2>1 DEF ServerTypeOK, StagesKept
  <2> QED BY <2>2, <2>3, <2>4, <2>5, <2>6
<1>2. CASE StopFirst(s) \/ StopAgain(s) \/ JoinAcceptor(s) \/ DrainPool(s) \/ NotifyStopped(s)
  <2> USE <1>2 DEF StopFirst, StopAgain, JoinAcceptor, DrainPool, NotifyStopped, At
  <2>1. Held' = Held /\ Busy' = Busy  BY DEF Held, Busy
  <2>2. InFlightExact'  BY <2>1 DEF InFlightExact
  <2>3. ServerTypeOK' /\ OneAccepted' /\ QueueExact'  BY DEF ServerTypeOK, OneAccepted, QueueExact
  <2>4. StagesKept'  BY <2>1 DEF ServerTypeOK, StagesKept
  <2> QED BY <2>2, <2>3, <2>4
<1> QED BY <1>1, <1>2 DEF Stop

\* Steps of the handlers and of the signal leave the server alone.
LEMMA AsideKeeps == ASSUME ServerInv, UNCHANGED server PROVE ServerInv'
<1>1. Held' = Held /\ Busy' = Busy  BY DEF Held, Busy, server
<1> QED
  BY <1>1 DEF ServerInv, server, ServerTypeOK, OneAccepted, QueueExact, InFlightExact, StagesKept

\* Every step of the composition keeps the invariant.
LEMMA ServerStep == ServerInv /\ [RestNext]_all => ServerInv'
<1> SUFFICES ASSUME ServerInv, [RestNext]_all PROVE ServerInv'
  OBVIOUS
<1>1. CASE Main
  <2>1. CASE ServeStarts  BY <2>1, StartKeeps DEF ServeStarts
  <2>2. CASE ServeFails  BY <2>2, AsideKeeps DEF ServeFails
  <2>3. CASE ServeStops  BY <2>3, StopKeeps, StopperAssumption DEF ServeStops
  <2>4. CASE InStop  BY <2>4, StopKeeps, StopperAssumption DEF InStop
  <2>5. CASE ServeReturns  BY <2>5, StopKeeps, StopperAssumption DEF ServeReturns
  <2> QED BY <1>1, <2>1, <2>2, <2>3, <2>4, <2>5 DEF Main
<1>2. CASE Signal \/ Stopped \/ UNCHANGED all
  BY <1>2, AsideKeeps DEF Signal, Stopped, all
<1>3. CASE Acceptor
  <2>1. CASE LoopTest \/ Poll \/ AcceptFails  BY <2>1, LoopKeeps
  <2>2. CASE Refuse \/ Count \/ SubmitConn  BY <2>2, RefuseKeeps, CountKeeps, SubmitKeeps
  <2>3. CASE \E c \in Conns : AcceptConn(c)  BY <2>3, AcceptKeeps
  <2> QED BY <1>3, <2>1, <2>2, <2>3 DEF Acceptor
<1>4. CASE TakeConn  BY <1>4, TakeKeeps
<1>5. CASE \E c \in Conns : Connect(c)  BY <1>5, ConnectKeeps
<1>6. ASSUME NEW c \in Conns, Worker(c) PROVE ServerInv'
  <2>1. CASE Reject(c) \/ Dispatch(c) \/ AnswerOther(c) \/ AnswerRun(c)
    BY <2>1, ServeKeeps DEF Reject, Dispatch, AnswerOther, AnswerRun
  <2>2. CASE HandleRun(c)  BY <2>2, AsideKeeps DEF HandleRun
  <2> QED BY <1>6, <2>1, <2>2 DEF Worker
<1> QED BY <1>1, <1>2, <1>3, <1>4, <1>5, <1>6 DEF RestNext

\* The invariant holds always.
LEMMA ServerAlways == RestSpec => []ServerInv
  BY ServerInitially, ServerStep, PTL DEF RestSpec

-----------------------------------------------------------------------------
\* The acceptor never touches a socket or a pool that stop() took away, and the
\* counter behind maxPendingConnections is the number of connections the
\* process holds, whatever the cap, the pool and the order of arrivals, answers
\* and stop().
THEOREM DescriptorsAlwaysExact == RestSpec => []DescriptorsExact
<1>1. ServerInv => DescriptorsExact
  BY DEF ServerInv, StagesKept, DescriptorsExact, AcceptorOwnsItsResources
<1> QED BY <1>1, ServerAlways, PTL

\* Once the call of stop() that stops the server is through, every connection
\* it ever accepted has been closed, the counter is back to zero, and none is
\* accepted later.
THEOREM StopAlwaysDrains == RestSpec => []StopDrains
<1>1. ServerInv => StopDrains
  <2> SUFFICES ASSUME ServerInv, NEW s \in Stoppers, spc[s] = "stopped"
               PROVE  /\ Held = {} /\ queue = <<>> /\ inFlight = 0
                      /\ \A c \in Conns : conn[c] \in {"outside", "reset", "closed"}
    BY DEF StopDrains
  <2>1. /\ apc = "exited" /\ queue = <<>> /\ Busy = {}
        /\ \A c \in Conns : conn[c] # "backlog"
    BY DEF ServerInv, StagesKept
  <2>2. \A c \in Conns : conn[c] \notin {"accepted", "queued", "reading", "handling"}
    <3> TAKE c \in Conns
    <3>1. conn[c] # "accepted"  BY <2>1 DEF ServerInv, OneAccepted
    <3>2. conn[c] # "queued"  BY <2>1 DEF ServerInv, QueueExact
    <3> QED BY <2>1, <3>1, <3>2 DEF Busy
  <2>3. Held = {}  BY <2>2 DEF Held, Busy
  <2>4. Cardinality(Held) = 0  BY <2>3, FS_EmptySet
  <2>5. inFlight = 0  BY <2>1, <2>4 DEF ServerInv, InFlightExact
  <2> QED BY <2>1, <2>2, <2>3, <2>5 DEF ServerInv, ServerTypeOK
<1> QED BY <1>1, ServerAlways, PTL

\* A handler of POST /api/runs takes a step of the service or leaves it alone.
LEMMA HandlerUsesService ==
  ASSUME NEW h \in Clients, Handler(h) PROVE [Next]_service
<1>1. CASE Conflict(h) \/ Accept(h) \/ InvalidJson(h) \/ Respond(h)
  BY <1>1 DEF Conflict, Accept, InvalidJson, Respond, Answer
<1>2. CASE HandlerCalls(h)
  BY <1>2 DEF HandlerCalls, Next
<1>3. CASE HandlerRuns(h)
  BY <1>3 DEF HandlerRuns, Next
<1> QED BY <1>1, <1>2, <1>3 DEF Handler

\* `testforge serve` implements the service's specification: each connection
\* that carries POST /api/runs is a client like any other.
THEOREM ServerUsesService == RestSpec => Spec
<1>1. RestInit => Init
  BY DEF RestInit, EndpointInit
<1>2. [RestNext]_all => [Next]_service
  <2> SUFFICES ASSUME [RestNext]_all PROVE [Next]_service
    OBVIOUS
  <2>1. CASE UNCHANGED all
    BY <2>1 DEF all
  <2>2. CASE Main
    BY <2>2 DEF Main, ServeStarts, ServeFails, ServeStops, InStop, ServeReturns, aside
  <2>3. CASE Signal \/ Stopped
    BY <2>3 DEF Signal, Stopped, all
  <2>4. CASE \/ Acceptor /\ UNCHANGED aside
             \/ TakeConn /\ UNCHANGED aside
             \/ \E c \in Conns : Connect(c) /\ UNCHANGED aside
    BY <2>4 DEF aside
  <2>5. ASSUME NEW c \in Conns, Worker(c) PROVE [Next]_service
    <3>1. CASE Reject(c) \/ Dispatch(c) \/ AnswerOther(c) \/ AnswerRun(c)
      BY <3>1 DEF Reject, Dispatch, AnswerOther, AnswerRun, aside
    <3>2. CASE HandleRun(c)
      BY <3>2, HandlerUsesService DEF HandleRun
    <3> QED BY <2>5, <3>1, <3>2 DEF Worker
  <2> QED BY <2>1, <2>2, <2>3, <2>4, <2>5 DEF RestNext
<1> QED BY <1>1, <1>2, PTL DEF RestSpec, Spec

\* However many requests for runs a server handles at once, the runs exclude
\* each other, and runInProgress() tells each handler whether there is one.
THEOREM ServedRunsAreExclusive == RestSpec => []RunsExclusive
  BY ServerUsesService, RunsAreExclusive, PTL
=============================================================================
