----------------------------- MODULE RunCommand -----------------------------
(***************************************************************************)
(* `testforge run`: the main thread runs the tests through the service, a  *)
(* watcher thread polls the flag the signal handler sets and asks the      *)
(* service to cancel, and the result becomes the exit code of the process. *)
(*                                                                         *)
(* The service is TestForgeService with "main" for its only client and     *)
(* "watcher" for its only canceller.                                       *)
(***************************************************************************)
EXTENDS TestForgeService

ASSUME MainAssumption == "main" \in Clients
ASSUME WatcherAssumption == "watcher" \in Cancellers

VARIABLES
  gSignal,        \* interrupt::gSignal
  mpc,            \* where the main thread is in Commands::run()
  watching,       \* whether the watcher is in its loop
  runFinished,
  exit,           \* the exit code of the process
  leftWhenAsked   \* tests left when the watcher asked for cancellation

cli == <<gSignal, mpc, watching, runFinished, exit, leftWhenAsked>>
vars == <<service, cli>>

Signals == {2, 15}
kSuccess == 0
kTestsFailed == 1
kUsageError == 2
kFrameworkError == 3
\* std::terminate() raises SIGABRT, number 6.
Aborted == 128 + 6
Running == -1

CliTypeOK ==
  /\ TypeOK
  /\ gSignal \in Signals \cup {0}
  /\ mpc \in {"start", "call", "run", "join", "exited"}
  /\ watching \in BOOLEAN /\ runFinished \in BOOLEAN
  /\ exit \in {Running, kSuccess, kTestsFailed, kUsageError, kFrameworkError, Aborted}
               \cup {128 + s : s \in Signals}
  /\ leftWhenAsked \in 0..NumTests

CliInit ==
  /\ Init
  /\ gSignal = 0
  /\ mpc = "start"
  /\ watching = FALSE /\ runFinished = FALSE
  /\ exit = Running
  /\ leftWhenAsked = 0

\* handleInterrupt(): only the first signal is kept.
HandleInterrupt ==
  /\ mpc # "exited"
  /\ gSignal = 0
  /\ gSignal' \in Signals
  /\ UNCHANGED <<service, mpc, watching, runFinished, exit, leftWhenAsked>>

\* A dry run, or nothing to run.
NoRun ==
  /\ mpc = "start"
  /\ mpc' = "exited"
  /\ exit' \in {kSuccess, kUsageError}
  /\ UNCHANGED <<service, gSignal, watching, runFinished, leftWhenAsked>>

StartWatcher ==
  /\ mpc = "start"
  /\ mpc' = "call"
  /\ watching' = TRUE
  /\ UNCHANGED <<service, gSignal, runFinished, exit, leftWhenAsked>>

CallService ==
  /\ mpc = "call"
  /\ mpc' = "run"
  /\ CallRun("main")
  /\ UNCHANGED <<gSignal, watching, runFinished, exit, leftWhenAsked>>

RunInService ==
  /\ mpc = "run"
  /\ InRun("main")
  /\ UNCHANGED cli

\* Mutant: the watcher is not told.
BugReturnSilently ==
  /\ mpc = "run" /\ rpc["main"] = "returned" /\ result["main"] # Threw
  /\ mpc' = "join"
  /\ UNCHANGED <<service, gSignal, watching, runFinished, exit, leftWhenAsked>>

ServiceReturned ==
  /\ mpc = "run" /\ rpc["main"] = "returned" /\ result["main"] # Threw
  /\ mpc' = "join"
  /\ runFinished' = TRUE
  /\ UNCHANGED <<service, gSignal, watching, exit, leftWhenAsked>>

\* Unwinding destroys a std::thread that is still joinable.
ServiceThrew ==
  /\ mpc = "run" /\ rpc["main"] = "returned" /\ result["main"] = Threw
  /\ mpc' = "exited"
  /\ exit' = Aborted
  /\ watching' = FALSE
  /\ UNCHANGED <<service, gSignal, runFinished, leftWhenAsked>>

\* Mutant: a cancelled run counts as a success.
BugExitOnlyFailures(code) ==
  CASE code = 2 -> kFrameworkError
    [] code = 1 -> kTestsFailed
    [] OTHER -> kSuccess

\* Mutant: after a signal every unsuccessful run counts as interrupted.
BugExitSignalFirst(code) ==
  IF code # 0 /\ gSignal # 0 THEN 128 + gSignal
  ELSE CASE code = 2 -> kFrameworkError [] code = 0 -> kSuccess [] OTHER -> kTestsFailed

ExitFor(code) ==
  CASE code = 2 -> kFrameworkError
    [] code = 4 -> IF gSignal # 0 THEN 128 + gSignal ELSE kTestsFailed
    [] code = 0 -> kSuccess
    [] OTHER -> kTestsFailed

JoinAndExit ==
  /\ mpc = "join" /\ ~watching
  /\ mpc' = "exited"
  /\ exit' = ExitFor(result["main"])
  /\ UNCHANGED <<service, gSignal, watching, runFinished, leftWhenAsked>>

-----------------------------------------------------------------------------
(* The watcher                                                             *)

WatcherSeesEnd ==
  /\ watching /\ runFinished
  /\ kpc["watcher"] = "ready"
  /\ watching' = FALSE
  /\ UNCHANGED <<service, gSignal, mpc, runFinished, exit, leftWhenAsked>>

\* The loop's test of runFinished may have been a moment ago.
WatcherAsks ==
  /\ watching /\ gSignal # 0
  /\ Ask("watcher")
  /\ leftWhenAsked' = left["main"]
  /\ UNCHANGED <<gSignal, mpc, watching, runFinished, exit>>

WatcherCancels ==
  /\ watching
  /\ CancelRunner("watcher")
  /\ UNCHANGED cli

WatcherReturns ==
  /\ watching /\ kpc["watcher"] \in {"delivered", "ignored"}
  /\ watching' = FALSE
  /\ UNCHANGED <<service, gSignal, mpc, runFinished, exit, leftWhenAsked>>

-----------------------------------------------------------------------------
MainThread == \/ NoRun \/ StartWatcher \/ CallService \/ RunInService
              \/ ServiceReturned \/ ServiceThrew \/ JoinAndExit

Watcher == WatcherSeesEnd \/ WatcherAsks \/ WatcherCancels \/ WatcherReturns

Exited == mpc = "exited" /\ UNCHANGED vars

CliNext == HandleInterrupt \/ MainThread \/ Watcher \/ Exited

\* Both threads are scheduled; nobody has to press Ctrl-C.
CliSpec == CliInit /\ [][CliNext]_vars /\ WF_vars(MainThread) /\ WF_vars(Watcher)

-----------------------------------------------------------------------------
\* Exit code 0 means that nothing kept a selected test from running: a request
\* that skipped even one test shows in the exit code.
ZeroMeansNothingSkipped ==
  exit = kSuccess /\ rpc["main"] = "returned" =>
     Verdict("Skipped", "None") \notin verdicts["main"]

\* 128 + signal is reported only for a run that was really cut short by that
\* signal, and never hides a failure.
SignalExitIsHonest ==
  exit > 128 /\ exit # Aborted =>
     /\ exit = 128 + gSignal
     /\ kpc["watcher"] = "delivered" /\ cancelled["main"]
     /\ \A v \in verdicts["main"] : ~IsFailure(v.status)

\* The exit code is honest, whenever a signal arrives: neither 0 nor 128 + signal
\* says more than the run has shown.
ExitCodeHonest == ZeroMeansNothingSkipped /\ SignalExitIsHonest

\* The process ends: the watcher can always be joined.
CommandExits == <>(mpc = "exited")

\* "An interrupted run never exits 0": the watcher has noticed the signal and
\* asked for cancellation while there were tests left to run.
InterruptedNeverExitsZero ==
  ~(exit = kSuccess /\ kpc["watcher"] # "ready" /\ leftWhenAsked > 0)
=============================================================================
