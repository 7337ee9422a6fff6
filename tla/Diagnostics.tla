---------------------------- MODULE Diagnostics ----------------------------
(***************************************************************************)
(* DiagnosticCollector::collectForFailure(), which a worker calls for      *)
(* every failing test: the GPU is asked with up to three nvidia-smi        *)
(* commands, the system log with journalctl and, if that gave nothing,     *)
(* dmesg.  Each command is one ProcessRunner::run().                       *)
(***************************************************************************)
EXTENDS ProcessRunner

CONSTANTS IncludeGpu, IncludeSystemLogs    \* DiagnosticsConfig

VARIABLES stage,     \* the command under way, "choose.*" before it, or "done"
          gpu,       \* the GpuSnapshot
          logs,      \* system_logs: the source, or the notes left instead
          measured   \* history: what Measured said of --query-gpu when it was judged

diagVars == <<procVars, stage, gpu, logs, measured>>

Commands == {"query", "version", "apps", "journalctl", "dmesg"}

\* createDefaultGpuProvider(): a NullGpuProvider without nvidia-smi.
UnknownGpu == [available |-> FALSE, devices |-> 0, cuda |-> FALSE, processes |-> FALSE]

AfterGpu == IF IncludeSystemLogs THEN "choose.journalctl" ELSE "done"

DiagInit ==
  /\ NotLaunched
  /\ gpu = UnknownGpu /\ logs = {} /\ measured = FALSE
  /\ stage \in {AfterGpu} \cup (IF IncludeGpu THEN {"query"} ELSE {})

\* The end of a log query: a note stands in for lines nobody could read.
NoSource(notes) == IF notes = {} THEN {"no source"} ELSE notes

\* isAvailable() before each log command: PATH may or may not have it.
ChooseLog(at, command, missing, found) ==
  /\ stage = at
  /\ stage' = IF found THEN command ELSE missing
  /\ logs' = IF ~found /\ missing = "done" THEN NoSource(logs) ELSE logs
  /\ UNCHANGED <<procVars, gpu, measured>>

\* What the command itself did: it wrote its listing and exited with zero before a
\* deadline was enforced; or its status was taken away, and nobody knows.
Measured ==
  /\ child.state \in {"reaped", "lost"} /\ ~result.timedOut /\ result.captured["out"] > 0
  /\ child.state = "reaped" => child.status = Exited(0)

Returned(command) == stage = command /\ parent.pc = "returned"

\* NvidiaGpuProvider::query(): not started, timed out, nonzero exit and a listing
\* without devices each make the snapshot unavailable.
BugTrustsAnyOutput(devices) ==
  /\ Returned("query")
  /\ devices > 0 => result.captured["out"] > 0
  /\ measured' = Measured
  /\ gpu' = [gpu EXCEPT !.available = devices > 0, !.devices = devices]
  /\ stage' = IF gpu'.available THEN "version" ELSE AfterGpu
  /\ LaunchAgain /\ UNCHANGED logs

JudgeQuery(devices) ==
  /\ Returned("query")
  /\ devices > 0 => result.captured["out"] > 0
  /\ measured' = Measured
  /\ LET listed == result.started /\ ~result.timedOut /\ ExitCode = 0 /\ devices > 0
     IN  /\ gpu' = IF listed THEN [gpu EXCEPT !.available = TRUE, !.devices = devices] ELSE gpu
         /\ stage' = IF listed THEN "version" ELSE AfterGpu
  /\ LaunchAgain /\ UNCHANGED logs

JudgeVersion ==
  /\ Returned("version")
  /\ gpu' = [gpu EXCEPT !.cuda = Ok]
  /\ stage' = "apps"
  /\ LaunchAgain /\ UNCHANGED <<logs, measured>>

\* Best effort: the processes go to the first device.
JudgeApps ==
  /\ Returned("apps")
  /\ gpu' = [gpu EXCEPT !.processes = Ok]
  /\ stage' = AfterGpu
  /\ LaunchAgain /\ UNCHANGED <<logs, measured>>

JudgeJournal ==
  /\ Returned("journalctl")
  /\ LET usable == Ok /\ result.captured["out"] > 0
     IN  /\ logs' = IF usable THEN {"journalctl"}
                    ELSE IF Ok THEN {} ELSE {"journalctl unavailable"}
         /\ stage' = IF usable THEN "done" ELSE "choose.dmesg"
  /\ LaunchAgain /\ UNCHANGED <<gpu, measured>>

JudgeDmesg ==
  /\ Returned("dmesg")
  /\ logs' = logs \cup (IF Ok /\ result.captured["out"] > 0 THEN {"dmesg"}
                        ELSE {"dmesg unavailable"})
  /\ stage' = "done"
  /\ LaunchAgain /\ UNCHANGED <<gpu, measured>>

Judge ==
  \/ \E devices \in 0 .. 1 : JudgeQuery(devices)
  \/ JudgeVersion \/ JudgeApps \/ JudgeJournal \/ JudgeDmesg

Choose ==
  \E found \in BOOLEAN :
    \/ ChooseLog("choose.journalctl", "journalctl", "choose.dmesg", found)
    \/ ChooseLog("choose.dmesg", "dmesg", "done", found)

Command ==
  /\ stage \in Commands
  /\ Launch \/ RunSteps \/ ChildSteps \/ Time
  /\ UNCHANGED <<stage, gpu, logs, measured>>

DiagNext == Command \/ Choose \/ Judge

DiagSpec ==
  /\ DiagInit /\ [][DiagNext]_diagVars
  /\ WF_diagVars(Choose \/ Judge)
  /\ WF_diagVars(stage \in Commands /\ Launch /\ UNCHANGED <<stage, gpu, logs, measured>>)
  /\ ProcessFairness

-----------------------------------------------------------------------------

\* Nothing is reported as measured that no finished command measured: devices come
\* from the listing of an nvidia-smi that itself exited with zero before its deadline
\* was enforced, what the later commands add needs a device, and a log is either read or
\* accounted for by a note (GpuProviders.cpp:153-184, LinuxDiagnosticProvider.cpp:479-507).
\* Where waitpid() failed nobody knows how nvidia-smi ended, and its listing is believed.
DiagnosticsHonest ==
  /\ gpu.available => measured
  /\ gpu.cuda \/ gpu.processes => gpu.available
  /\ stage = "done" /\ IncludeSystemLogs => logs # {}

\* A wedged command never wedges the worker that collects: the collection ends
\* although a child never exits, ignores SIGTERM, floods its pipe or leaves a helper
\* that keeps the pipe open.  It needs the timeout: the default is 4000 ms, and a
\* configuration that sets 0 lets a command that hangs hang its worker.
CollectionEnds == <>(stage = "done")
=============================================================================
