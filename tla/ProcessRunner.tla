--------------------------- MODULE ProcessRunner ---------------------------
(***************************************************************************)
(* ProcessRunner::run(): the parent's poll loop, the child it forks, a     *)
(* helper process the child may leave behind, the two pipes, and the clock *)
(* that passes the deadline and the kill grace at moments of its own.      *)
(*                                                                         *)
(* Output is counted in chunks: PipeRoom chunks fill a pipe, MaxOutput is  *)
(* options.maxOutputBytes, and a child writes at most MaxWrite chunks.     *)
(***************************************************************************)
EXTENDS Naturals, FiniteSets

CONSTANTS PipeRoom, MaxOutput, MaxWrite,
          HasTimeout,     \* options.timeout > 0
          CaptureError    \* options.captureStandardError

ASSUME ProcessAssumption ==
  /\ PipeRoom \in Nat \ {0} /\ MaxOutput \in Nat /\ MaxWrite \in Nat
  /\ HasTimeout \in BOOLEAN /\ CaptureError \in BOOLEAN

VARIABLES parent,    \* the local variables of run()
          result,    \* the ProcessResult under construction
          child,     \* the forked process
          helper,    \* a descendant that holds the pipes: "none", "alive", "dead"
          pipe,      \* chunks waiting in each pipe
          clock      \* which deadlines have passed

procVars == <<parent, result, child, helper, pipe, clock>>

Streams == {"out", "err"}

\* Without a pipe of its own, stderr is a duplicate of stdout.
PipeOf(stream) == IF CaptureError THEN stream ELSE "out"

NoStatus == [kind |-> "none", code |-> 0]
Exited(code) == [kind |-> "exit", code |-> code]
Signalled(sig) == [kind |-> "signal", code |-> sig]

SIGKILL == 9
SIGPIPE == 13
SIGTERM == 15

NewParent == [pc |-> "launch", open |-> {}, capped |-> FALSE, killSent |-> FALSE,
              hardKillSent |-> FALSE]
NewResult == [started |-> FALSE, timedOut |-> FALSE, status |-> NoStatus,
              captured |-> [s \in Streams |-> 0]]
NewChild == [state |-> "none", grouped |-> FALSE, ignoresTerm |-> FALSE, pending |-> {},
             status |-> NoStatus, written |-> [s \in Streams |-> 0]]
EmptyPipes == [s \in Streams |-> 0]
NewClock == [deadline |-> FALSE, grace |-> FALSE]

NotLaunched ==
  /\ parent = NewParent /\ result = NewResult /\ child = NewChild
  /\ helper = "none" /\ pipe = EmptyPipes /\ clock = NewClock

\* The next call of run(); a helper of an earlier one no longer concerns it.
LaunchAgain ==
  /\ parent' = NewParent /\ result' = NewResult /\ child' = NewChild
  /\ helper' = "none" /\ pipe' = EmptyPipes /\ clock' = NewClock

-----------------------------------------------------------------------------
(* The parent.                                                             *)

\* An illegal argument, an unknown executable, no pipe, no fork.
LaunchFails ==
  /\ parent.pc = "launch"
  /\ parent' = [parent EXCEPT !.pc = "returned"]
  /\ UNCHANGED <<result, child, helper, pipe, clock>>

\* fork(); the write ends are closed in the parent before the loop.
Fork(ignoresTerm) ==
  /\ parent.pc = "launch"
  /\ parent' = [parent EXCEPT !.pc = "poll",
                  !.open = {"out"} \cup (IF CaptureError THEN {"err"} ELSE {})]
  /\ result' = [result EXCEPT !.started = TRUE]
  /\ child' = [child EXCEPT !.state = "forked", !.ignoresTerm = ignoresTerm]
  /\ UNCHANGED <<helper, pipe, clock>>

\* Who has the write end of the pipes open.
Writers == child.state \in {"forked", "grouped", "running"} \/ helper = "alive"

\* drain(): read until the pipe is empty.  FALSE (stop polling it) at the cap, where
\* what does not fit is dropped, and at end of file.
Drained(stream) ==
  LET fits == result.captured[stream] + pipe[stream] <= MaxOutput
  IN  [captured |-> IF fits THEN result.captured[stream] + pipe[stream] ELSE MaxOutput,
       capped   |-> ~fits,
       open     |-> fits /\ Writers]

Ready(stream) == stream \in parent.open /\ (pipe[stream] > 0 \/ ~Writers)

\* Drains the streams of a set and closes the ones that are done, if `close`.
DrainAll(streams, close, pc) ==
  /\ result' = [result EXCEPT !.captured =
       [s \in Streams |-> IF s \in streams THEN Drained(s).captured ELSE @[s]]]
  /\ pipe' = [s \in Streams |-> IF s \in streams THEN 0 ELSE pipe[s]]
  /\ parent' = [parent EXCEPT !.pc = pc,
       !.capped = @ \/ \E s \in streams : Drained(s).capped,
       !.open   = IF close THEN {s \in @ : s \in streams => Drained(s).open} ELSE @]

\* One poll(), at most 50 ms; a nap when no descriptor is left.
Poll ==
  /\ parent.pc = "poll"
  /\ DrainAll({s \in Streams : Ready(s)}, TRUE, "wait")
  /\ UNCHANGED <<child, helper, clock>>

\* waitpid(WNOHANG) finds the child: what is left in the pipes is read.
BugReapAtOnce ==
  /\ parent.pc = "wait" /\ child.state = "zombie"
  /\ child' = [child EXCEPT !.state = "reaped"]
  /\ result' = [result EXCEPT !.status = child.status]
  /\ parent' = [parent EXCEPT !.pc = "returned"]
  /\ UNCHANGED <<helper, pipe, clock>>

\* The loop left only when the pipes are at end of file.
BugReapAtEof ==
  /\ parent.pc = "wait" /\ child.state = "zombie" /\ parent.open = {}
  /\ child' = [child EXCEPT !.state = "reaped"]
  /\ result' = [result EXCEPT !.status = child.status]
  /\ parent' = [parent EXCEPT !.pc = "returned"]
  /\ UNCHANGED <<helper, pipe, clock>>

Reap ==
  /\ parent.pc = "wait" /\ child.state = "zombie"
  /\ child' = [child EXCEPT !.state = "reaped"]
  /\ DrainAll(parent.open, FALSE, "status")
  /\ UNCHANGED <<helper, clock>>

NotYet ==
  /\ parent.pc = "wait" /\ child.state \notin {"zombie", "lost"}
  /\ parent' = [parent EXCEPT !.pc = "clock"]
  /\ UNCHANGED <<result, child, helper, pipe, clock>>

\* kill(-pid): only a process group that exists has members to signal, and the
\* child makes its own in setpgid().
Signal(sig) ==
  /\ child' = [child EXCEPT !.pending =
       IF child.grouped /\ child.state \in {"grouped", "running"} THEN @ \cup {sig} ELSE @]
  /\ helper' = IF child.grouped /\ helper = "alive" /\ (sig = SIGKILL \/ ~child.ignoresTerm)
               THEN "dead" ELSE helper

\* waitpid() fails with ECHILD: the loop is left without a last read, the group is
\* killed, and the second waitpid() fails like the first.
WaitFails ==
  /\ parent.pc = "wait" /\ child.state = "lost"
  /\ Signal(SIGKILL)
  /\ parent' = [parent EXCEPT !.pc = "status"]
  /\ UNCHANGED <<result, pipe, clock>>

Expired == HasTimeout /\ clock.deadline

\* Only the exit status tells that the child was terminated.
BugTerminateSilently ==
  /\ parent.pc = "clock" /\ (Expired \/ parent.capped) /\ ~parent.killSent
  /\ Signal(SIGTERM)
  /\ parent' = [parent EXCEPT !.pc = "poll", !.killSent = TRUE]
  /\ UNCHANGED <<result, pipe, clock>>

Terminate ==
  /\ parent.pc = "clock" /\ (Expired \/ parent.capped) /\ ~parent.killSent
  /\ result' = [result EXCEPT !.timedOut = Expired]
  /\ Signal(SIGTERM)
  /\ parent' = [parent EXCEPT !.pc = "poll", !.killSent = TRUE]
  /\ UNCHANGED <<pipe, clock>>

Kill ==
  /\ parent.pc = "clock" /\ parent.killSent /\ ~parent.hardKillSent /\ clock.grace
  /\ Signal(SIGKILL)
  /\ parent' = [parent EXCEPT !.pc = "poll", !.hardKillSent = TRUE]
  /\ UNCHANGED <<result, pipe, clock>>

GoOn ==
  /\ parent.pc = "clock"
  /\ ~((Expired \/ parent.capped) /\ ~parent.killSent)
  /\ ~(parent.killSent /\ ~parent.hardKillSent /\ clock.grace)
  /\ parent' = [parent EXCEPT !.pc = "poll"]
  /\ UNCHANGED <<result, child, helper, pipe, clock>>

\* waitStatus starts as 0, which WIFEXITED takes for an exit with zero.
WaitStatus == IF child.state = "reaped" THEN child.status ELSE Exited(0)

\* WIFEXITED or WIFSIGNALED; the RAII pipes close.
Return ==
  /\ parent.pc = "status"
  /\ result' = [result EXCEPT !.status = WaitStatus]
  /\ parent' = [parent EXCEPT !.pc = "returned", !.open = {}]
  /\ UNCHANGED <<child, helper, pipe, clock>>

ExitCode == IF result.status.kind = "signal" THEN 128 + result.status.code ELSE result.status.code

\* ProcessResult::ok()
Ok == result.started /\ ~result.timedOut /\ result.status = Exited(0)

-----------------------------------------------------------------------------
(* The child, its helper and the clock.                                    *)

Others == UNCHANGED <<parent, result, clock>>

Dies(status) == child' = [child EXCEPT !.state = "zombie", !.status = status, !.pending = {}]

SetProcessGroup ==
  /\ child.state = "forked"
  /\ child' = [child EXCEPT !.state = "grouped", !.grouped = TRUE]
  /\ UNCHANGED <<helper, pipe>> /\ Others

Exec ==
  /\ child.state = "grouped" /\ child.pending = {}
  /\ child' = [child EXCEPT !.state = "running"]
  /\ UNCHANGED <<helper, pipe>> /\ Others

\* dup2(), chdir() or exec() failed.
ExecFails ==
  /\ child.state \in {"grouped"}
  /\ \E code \in {126, 127} : Dies(Exited(code))
  /\ UNCHANGED <<helper, pipe>> /\ Others

SpawnHelper ==
  /\ child.state = "running" /\ helper = "none"
  /\ helper' = "alive"
  /\ UNCHANGED <<child, pipe>> /\ Others

\* A full pipe blocks the writer; one whose read end is closed kills it.
Write(stream) ==
  /\ child.state = "running" /\ child.written["out"] + child.written["err"] < MaxWrite
  /\ IF PipeOf(stream) \in parent.open
     THEN /\ pipe[PipeOf(stream)] < PipeRoom
          /\ pipe' = [pipe EXCEPT ![PipeOf(stream)] = @ + 1]
          /\ child' = [child EXCEPT !.written[stream] = @ + 1]
     ELSE Dies(Signalled(SIGPIPE)) /\ UNCHANGED pipe
  /\ UNCHANGED helper /\ Others

Exit(code) ==
  /\ child.state = "running"
  /\ Dies(Exited(code))
  /\ UNCHANGED <<helper, pipe>> /\ Others

DieOfSignal(sig) ==
  /\ child.state \in {"grouped", "running"} /\ sig \in child.pending
  /\ sig = SIGTERM /\ child.state = "running" => ~child.ignoresTerm
  /\ Dies(Signalled(sig))
  /\ UNCHANGED <<helper, pipe>> /\ Others

\* A zombie whose status somebody else has: another wait of the process, or a SIGCHLD
\* that was ignored when the program started.
TakenAway ==
  /\ child.state = "zombie"
  /\ child' = [child EXCEPT !.state = "lost"]
  /\ UNCHANGED <<helper, pipe>> /\ Others

HelperExits ==
  /\ helper = "alive"
  /\ helper' = "dead"
  /\ UNCHANGED <<child, pipe>> /\ Others

DeadlinePasses ==
  /\ parent.pc \notin {"launch", "returned"} /\ ~clock.deadline
  /\ clock' = [clock EXCEPT !.deadline = TRUE]
  /\ UNCHANGED <<parent, result, child, helper, pipe>>

\* The grace (500 ms) is taken to outlast the child's few instructions up to setpgid().
GracePasses ==
  /\ parent.killSent /\ ~clock.grace /\ child.state # "forked"
  /\ clock' = [clock EXCEPT !.grace = TRUE]
  /\ UNCHANGED <<parent, result, child, helper, pipe>>

RunSteps == Poll \/ Reap \/ NotYet \/ WaitFails \/ Terminate \/ Kill \/ GoOn \/ Return

Launch == LaunchFails \/ \E ignores \in BOOLEAN : Fork(ignores)

ChildSteps ==
  \/ SetProcessGroup \/ Exec \/ ExecFails \/ TakenAway \/ SpawnHelper \/ HelperExits
  \/ \E s \in Streams : Write(s)
  \/ \E code \in {0, 1} : Exit(code)
  \/ \E sig \in {SIGTERM, SIGKILL} : DieOfSignal(sig)

Time == DeadlinePasses \/ GracePasses

\* run() is scheduled, time passes, a forked child gets to its exec and a child that
\* was killed dies; nothing makes a child write, exit or end its helper.
ProcessFairness ==
  /\ WF_procVars(RunSteps)
  /\ WF_procVars(DeadlinePasses) /\ WF_procVars(GracePasses)
  /\ WF_procVars(SetProcessGroup) /\ WF_procVars(DieOfSignal(SIGKILL))

-----------------------------------------------------------------------------

\* What the child has written to a pipe.
Sent(s) == IF CaptureError THEN child.written[s]
           ELSE IF s = "out" THEN child.written["out"] + child.written["err"]
           ELSE 0

\* run() never loses output of a child it could wait for: a result that is neither timed
\* out nor truncated holds every chunk the child wrote before it exited, in whatever
\* order the child's last writes, its exit and the poll loop came (Process.cpp:374-384).
\* When waitpid() fails there is no last read (lines 386-388): the result may miss the
\* end of the output, and holds nothing the child did not write.
OutputComplete ==
  parent.pc = "returned" /\ result.started /\ ~result.timedOut /\ ~parent.capped =>
    \A s \in Streams : /\ child.state = "reaped" => result.captured[s] = Sent(s)
                       /\ result.captured[s] <= Sent(s)

\* The result explains what happened to the child: run() returns only once the child is
\* reaped, or is gone and cannot be waited for; a child that run() signalled is reported
\* as timed out or truncated; and ok() means no deadline was enforced and, if the child
\* was reaped, that the program itself exited with zero.  A child whose status somebody
\* else took is reported as an exit with zero, however it ended (lines 405-412).
ResultExplainsChild ==
  parent.pc = "returned" /\ result.started =>
    /\ child.state \in {"reaped", "lost"}
    /\ child.state = "reaped" => result.status = child.status
    /\ child.state = "lost" => result.status = Exited(0)
    /\ parent.killSent => result.timedOut \/ parent.capped
    /\ result.status.code \in {SIGTERM, SIGKILL} /\ result.status.kind = "signal"
         => parent.killSent
    /\ result.timedOut => HasTimeout /\ clock.deadline
    /\ Ok => ExitCode = 0 /\ (child.state = "reaped" => child.status = Exited(0))

\* A result can be trusted: it has the output and says how the child ended, as far as the
\* system told run() (Process.cpp:324-424).
ResultFaithful == OutputComplete /\ ResultExplainsChild
=============================================================================
