-------------------------- MODULE DiagnosticsProofs --------------------------
(***************************************************************************)
(* Proofs about ProcessRunner::run() and the diagnostics built on it, for  *)
(* every size of the pipes, the output cap and the child's output, with    *)
(* and without a timeout and a pipe for the standard error.                *)
(*                                                                         *)
(* OutputComplete speaks of the moment run() returns; what makes it hold   *)
(* is a balance at every moment before: as long as nothing was dropped,    *)
(* what is captured and what waits in a pipe add up to what was written    *)
(* (Conserved), and no closed pipe holds anything.                         *)
(***************************************************************************)
EXTENDS Diagnostics, TLAPS

ParentRecords ==
  [pc : {"launch", "poll", "wait", "clock", "status", "returned"}, open : SUBSET Streams,
   capped : BOOLEAN, killSent : BOOLEAN, hardKillSent : BOOLEAN]

StatusRecords == [kind : {"none", "exit", "signal"}, code : Nat]

ResultRecords ==
  [started : BOOLEAN, timedOut : BOOLEAN, status : StatusRecords, captured : [Streams -> Nat]]

ChildRecords ==
  [state : {"none", "forked", "grouped", "running", "zombie", "reaped", "lost"}, grouped : BOOLEAN,
   ignoresTerm : BOOLEAN, pending : SUBSET {SIGTERM, SIGKILL}, status : StatusRecords,
   written : [Streams -> Nat]]

ProcTypeOK ==
  /\ parent \in ParentRecords
  /\ result \in ResultRecords
  /\ child \in ChildRecords
  /\ helper \in {"none", "alive", "dead"}
  /\ pipe \in [Streams -> Nat]
  /\ clock \in [deadline : BOOLEAN, grace : BOOLEAN]

\* Until something is dropped at the cap, every chunk is captured or in its pipe; a
\* pipe that is not polled is empty, and so are all of them once the child is reaped.
Conserved ==
  ~parent.capped =>
    \A s \in Streams : /\ result.captured[s] + pipe[s] = Sent(s)
                       /\ s \notin parent.open /\ parent.pc # "returned" => pipe[s] = 0
                       /\ child.state = "reaped" => pipe[s] = 0

\* Where the child can be while run() is at a place.
InStep ==
  /\ parent.pc = "launch" => result = NewResult /\ child = NewChild
  /\ parent.pc \in {"poll", "wait", "clock"} =>
       result.started /\ child.state \in {"forked", "grouped", "running", "zombie", "lost"}
  /\ parent.pc = "status" => result.started /\ child.state \in {"reaped", "lost"}
  /\ parent.pc = "returned" =>
       IF result.started THEN child.state \in {"reaped", "lost"} /\ result.status = WaitStatus
       ELSE child.state = "none"

\* A child that has ended has a status.
StatusKnown == child.state \in {"zombie", "reaped", "lost"} => child.status.kind \in {"exit", "signal"}

\* Every signal of the parent's has a cause the result will name.
SignalsExplained ==
  /\ child.pending # {} => parent.killSent
  /\ child.status.kind = "signal" /\ child.status.code \in {SIGTERM, SIGKILL} => parent.killSent
  /\ parent.killSent => result.timedOut \/ parent.capped
  /\ result.timedOut => HasTimeout /\ clock.deadline

ProcInv == ProcTypeOK /\ Conserved /\ InStep /\ StatusKnown /\ SignalsExplained

-----------------------------------------------------------------------------
(* One call of run().                                                      *)

\* A new call starts from nothing.
LEMMA LaunchInv == NotLaunched => ProcInv
<1> SUFFICES ASSUME NotLaunched PROVE ProcInv
  OBVIOUS
<1>1. NoStatus \in StatusRecords /\ NoStatus.kind = "none"  BY DEF NoStatus, StatusRecords
<1>2. ProcTypeOK
  BY <1>1 DEF NotLaunched, NewParent, NewResult, NewChild, EmptyPipes, NewClock, ProcTypeOK,
     ParentRecords, ResultRecords, ChildRecords
<1>3. /\ parent.pc = "launch" /\ ~parent.capped /\ ~parent.killSent /\ ~result.timedOut
      /\ child.state = "none" /\ child.pending = {} /\ child.status.kind = "none"
      /\ \A s \in Streams : result.captured[s] = 0 /\ pipe[s] = 0 /\ child.written[s] = 0
  BY <1>1 DEF NotLaunched, NewParent, NewResult, NewChild, EmptyPipes
<1>4. \A s \in Streams : Sent(s) = 0  BY <1>3 DEF Sent, Streams
<1>5. Conserved  BY <1>3, <1>4 DEF Conserved
<1>6. InStep /\ StatusKnown /\ SignalsExplained
  BY <1>3 DEF InStep, StatusKnown, SignalsExplained, NotLaunched
<1> QED BY <1>2, <1>5, <1>6 DEF ProcInv

\* The same for the next call of the collector's.
LEMMA LaunchAgainInv == LaunchAgain => ProcInv'
<1> SUFFICES ASSUME LaunchAgain PROVE ProcInv'
  OBVIOUS
<1>1. NoStatus \in StatusRecords /\ NoStatus.kind = "none"  BY DEF NoStatus, StatusRecords
<1>2. ProcTypeOK'
  BY <1>1 DEF LaunchAgain, NewParent, NewResult, NewChild, EmptyPipes, NewClock, ProcTypeOK,
     ParentRecords, ResultRecords, ChildRecords
<1>3. /\ parent'.pc = "launch" /\ ~parent'.capped /\ ~parent'.killSent /\ ~result'.timedOut
      /\ child'.state = "none" /\ child'.pending = {} /\ child'.status.kind = "none"
      /\ \A s \in Streams : result'.captured[s] = 0 /\ pipe'[s] = 0 /\ child'.written[s] = 0
  BY <1>1 DEF LaunchAgain, NewParent, NewResult, NewChild, EmptyPipes
<1>4. \A s \in Streams : Sent(s)' = 0  BY <1>3 DEF Sent, Streams
<1>5. Conserved'  BY <1>3, <1>4 DEF Conserved
<1>6. (InStep /\ StatusKnown /\ SignalsExplained)'
  BY <1>3 DEF InStep, StatusKnown, SignalsExplained, LaunchAgain
<1> QED BY <1>2, <1>5, <1>6 DEF ProcInv

\* Draining moves chunks from the pipes to the result, or marks the result as capped.
LEMMA DrainDoes ==
  ASSUME ProcTypeOK, NEW streams \in SUBSET Streams, NEW close \in BOOLEAN,
         NEW pc \in {"wait", "status"}, DrainAll(streams, close, pc)
  PROVE  /\ parent' \in ParentRecords /\ result' \in ResultRecords /\ pipe' \in [Streams -> Nat]
         /\ parent'.pc = pc /\ parent'.killSent = parent.killSent
         /\ parent.capped => parent'.capped
         /\ parent'.open \subseteq parent.open
         /\ \A s \in parent.open \ parent'.open : s \in streams
         /\ result'.started = result.started /\ result'.timedOut = result.timedOut
         /\ result'.status = result.status
         /\ \A s \in Streams : s \in streams => pipe'[s] = 0
         /\ \A s \in Streams : s \notin streams =>
              pipe'[s] = pipe[s] /\ result'.captured[s] = result.captured[s]
         /\ ~parent'.capped => \A s \in streams : result'.captured[s] = result.captured[s] + pipe[s]
<1> DEFINE taken == [s \in Streams |-> IF s \in streams THEN Drained(s).captured ELSE result.captured[s]]
           left == IF close THEN {s \in parent.open : s \in streams => Drained(s).open} ELSE parent.open
           over == parent.capped \/ \E s \in streams : Drained(s).capped
<1>1. /\ result' = [result EXCEPT !.captured = taken]
      /\ pipe' = [s \in Streams |-> IF s \in streams THEN 0 ELSE pipe[s]]
      /\ parent' = [parent EXCEPT !.pc = pc, !.capped = over, !.open = left]
  BY DEF DrainAll
<1>2. \A s \in Streams : result.captured[s] \in Nat /\ pipe[s] \in Nat
  BY DEF ProcTypeOK, ResultRecords
<1>3. \A s \in Streams : /\ Drained(s).captured \in Nat
                         /\ Drained(s).capped \in BOOLEAN
                         /\ ~Drained(s).capped => Drained(s).captured = result.captured[s] + pipe[s]
  <2> TAKE s \in Streams
  <2> DEFINE fits == result.captured[s] + pipe[s] <= MaxOutput
             all == IF fits THEN result.captured[s] + pipe[s] ELSE MaxOutput
  <2>1. /\ Drained(s).captured = all /\ Drained(s).capped = ~fits  BY DEF Drained
  <2>2. all \in Nat  BY <1>2, ProcessAssumption
  <2> QED BY <2>1, <2>2
<1>4. /\ taken \in [Streams -> Nat]
      /\ \A s \in Streams : s \notin streams => taken[s] = result.captured[s]
      /\ \A s \in streams : taken[s] = Drained(s).captured
  BY <1>2, <1>3
<1>5. left \subseteq parent.open /\ \A s \in parent.open \ left : s \in streams  OBVIOUS
<1>6. over \in BOOLEAN /\ (parent.capped => over) /\ (~over => \A s \in streams : ~Drained(s).capped)
  BY DEF ProcTypeOK, ParentRecords
<1> HIDE DEF taken, left, over
<1>7. /\ parent' \in ParentRecords /\ parent'.pc = pc /\ parent'.killSent = parent.killSent
      /\ parent'.capped = over /\ parent'.open = left
  BY <1>1, <1>5, <1>6 DEF ProcTypeOK, ParentRecords
<1>8. /\ result' \in ResultRecords /\ result'.captured = taken
      /\ result'.started = result.started /\ result'.timedOut = result.timedOut
      /\ result'.status = result.status
  BY <1>1, <1>4 DEF ProcTypeOK, ResultRecords
<1>9. /\ pipe' \in [Streams -> Nat]
      /\ \A s \in Streams : s \in streams => pipe'[s] = 0
      /\ \A s \in Streams : s \notin streams => pipe'[s] = pipe[s]
  BY <1>1, <1>2
<1> QED BY <1>3, <1>4, <1>5, <1>6, <1>7, <1>8, <1>9
\* The steps of run() that drain: the loop's poll, and the last read after the child
\* was reaped.
LEMMA DrainInv ==
  ASSUME ProcInv, Poll \/ Reap PROVE ProcInv'
<1> USE DEF ProcInv
<1>1. CASE Poll
  <2>1. /\ parent.pc = "poll" /\ DrainAll({s \in Streams : Ready(s)}, TRUE, "wait")
        /\ UNCHANGED <<child, helper, clock>>
    BY <1>1 DEF Poll
  <2> DEFINE S == {s \in Streams : Ready(s)}
  <2>2. /\ parent' \in ParentRecords /\ result' \in ResultRecords /\ pipe' \in [Streams -> Nat]
        /\ parent'.pc = "wait" /\ parent'.killSent = parent.killSent
        /\ parent.capped => parent'.capped
        /\ parent'.open \subseteq parent.open
        /\ \A s \in parent.open \ parent'.open : s \in S
        /\ result'.started = result.started /\ result'.timedOut = result.timedOut
        /\ \A s \in Streams : s \in S => pipe'[s] = 0
        /\ \A s \in Streams : s \notin S => pipe'[s] = pipe[s] /\ result'.captured[s] = result.captured[s]
        /\ ~parent'.capped => \A s \in S : result'.captured[s] = result.captured[s] + pipe[s]
    BY <2>1, DrainDoes
  <2> HIDE DEF S
  <2>3. ProcTypeOK'  BY <2>1, <2>2 DEF ProcTypeOK
  <2>4. Conserved'
    <3>1. SUFFICES ASSUME ~parent'.capped, NEW s \in Streams
                   PROVE  /\ result'.captured[s] + pipe'[s] = Sent(s)'
                          /\ s \notin parent'.open => pipe'[s] = 0
      BY <2>1, <2>2 DEF Conserved, InStep
    <3>2. /\ result.captured[s] + pipe[s] = Sent(s) /\ (s \notin parent.open => pipe[s] = 0)
      BY <2>1, <2>2, <3>1 DEF Conserved
    <3>3. Sent(s)' = Sent(s)  BY <2>1 DEF Sent
    <3>4. pipe[s] \in Nat /\ result.captured[s] \in Nat  BY DEF ProcTypeOK, ResultRecords
    <3> QED BY <2>2, <3>1, <3>2, <3>3, <3>4
  <2>5. InStep'  BY <2>1, <2>2 DEF InStep
  <2>6. StatusKnown' /\ SignalsExplained'  BY <2>1, <2>2 DEF StatusKnown, SignalsExplained
  <2> QED BY <2>3, <2>4, <2>5, <2>6
<1>2. CASE Reap
  <2>1. /\ parent.pc = "wait" /\ child.state = "zombie" /\ child' = [child EXCEPT !.state = "reaped"]
        /\ DrainAll(parent.open, FALSE, "status") /\ UNCHANGED <<helper, clock>>
    BY <1>2 DEF Reap
  <2>2. /\ parent' \in ParentRecords /\ result' \in ResultRecords /\ pipe' \in [Streams -> Nat]
        /\ parent'.pc = "status" /\ parent'.killSent = parent.killSent
        /\ parent.capped => parent'.capped
        /\ result'.started = result.started /\ result'.timedOut = result.timedOut
        /\ \A s \in Streams : s \in parent.open => pipe'[s] = 0
        /\ \A s \in Streams : s \notin parent.open =>
             pipe'[s] = pipe[s] /\ result'.captured[s] = result.captured[s]
        /\ ~parent'.capped => \A s \in parent.open : result'.captured[s] = result.captured[s] + pipe[s]
    BY <2>1, DrainDoes DEF ProcTypeOK, ParentRecords
  <2>3. /\ child' \in ChildRecords /\ child'.state = "reaped" /\ child'.status = child.status
        /\ child'.pending = child.pending /\ child'.written = child.written
    BY <2>1 DEF ProcTypeOK, ChildRecords
  <2>4. ProcTypeOK'  BY <2>1, <2>2, <2>3 DEF ProcTypeOK
  <2>5. Conserved'
    <3>1. SUFFICES ASSUME ~parent'.capped, NEW s \in Streams
                   PROVE  result'.captured[s] + pipe'[s] = Sent(s)' /\ pipe'[s] = 0
      BY DEF Conserved
    <3>2. /\ result.captured[s] + pipe[s] = Sent(s) /\ (s \notin parent.open => pipe[s] = 0)
      BY <2>1, <2>2, <3>1 DEF Conserved
    <3>3. Sent(s)' = Sent(s)  BY <2>3 DEF Sent
    <3>4. pipe[s] \in Nat /\ result.captured[s] \in Nat  BY DEF ProcTypeOK, ResultRecords
    <3> QED BY <2>2, <3>1, <3>2, <3>3, <3>4
  <2>6. InStep'  BY <2>1, <2>2, <2>3 DEF InStep
  <2>7. StatusKnown' /\ SignalsExplained'
    BY <2>1, <2>2, <2>3 DEF StatusKnown, SignalsExplained
  <2> QED BY <2>4, <2>5, <2>6, <2>7
<1> QED BY <1>1, <1>2

\* What a step does to a child that neither writes nor ends.
LEMMA SentSame ==
  ASSUME child'.written = child.written
  PROVE  \A s : Sent(s)' = Sent(s)
BY DEF Sent

\* A signal is pending only for the parent's reasons, and touches nothing else.
LEMMA SignalDoes ==
  ASSUME ProcTypeOK, NEW sig \in {SIGTERM, SIGKILL}, Signal(sig)
  PROVE  /\ child' \in ChildRecords /\ helper' \in {"none", "alive", "dead"}
         /\ child'.state = child.state /\ child'.status = child.status
         /\ child'.written = child.written
         /\ child.state \notin {"grouped", "running"} => child'.pending = child.pending
<1> DEFINE now == IF child.grouped /\ child.state \in {"grouped", "running"}
                  THEN child.pending \cup {sig} ELSE child.pending
<1>1. child' = [child EXCEPT !.pending = now]  BY DEF Signal
<1>2. /\ now \in SUBSET {SIGTERM, SIGKILL}
      /\ child.state \notin {"grouped", "running"} => now = child.pending
  BY DEF ProcTypeOK, ChildRecords
<1> HIDE DEF now
<1>3. helper' \in {"none", "alive", "dead"}  BY DEF Signal, ProcTypeOK
<1> QED BY <1>1, <1>2, <1>3 DEF ProcTypeOK, ChildRecords

\* The other steps of run().
LEMMA ParentInv ==
  ASSUME ProcInv, Launch \/ NotYet \/ WaitFails \/ Terminate \/ Kill \/ GoOn \/ Return PROVE ProcInv'
<1> USE DEF ProcInv
<1>1. CASE LaunchFails
  <2>1. /\ parent.pc = "launch" /\ parent' = [parent EXCEPT !.pc = "returned"]
        /\ UNCHANGED <<result, child, helper, pipe, clock>>
    BY <1>1 DEF LaunchFails
  <2>2. /\ parent' \in ParentRecords /\ parent'.pc = "returned" /\ parent'.capped = parent.capped
        /\ parent'.killSent = parent.killSent /\ parent'.open = parent.open
    BY <2>1 DEF ProcTypeOK, ParentRecords
  <2>3. ~result.started /\ child.state = "none"
    BY <2>1 DEF InStep, NewResult, NewChild
  <2>4. ProcTypeOK' /\ InStep' /\ StatusKnown' /\ SignalsExplained'
    BY <2>1, <2>2, <2>3 DEF ProcTypeOK, InStep, StatusKnown, SignalsExplained
  <2>5. \A s \in Streams : result.captured[s] = 0 /\ Sent(s) = 0
    BY <2>1 DEF InStep, NewResult, NewChild, Sent, Streams
  <2>6. Conserved'
    <3>1. \A s \in Streams : pipe[s] \in Nat /\ Sent(s)' = Sent(s)
      BY <2>1, SentSame DEF ProcTypeOK
    <3> QED BY <2>1, <2>2, <2>5, <3>1 DEF Conserved
  <2> QED BY <2>4, <2>6
<1>2. ASSUME NEW ignores \in BOOLEAN, Fork(ignores) PROVE ProcInv'
  <2>1. /\ parent.pc = "launch"
        /\ parent' = [parent EXCEPT !.pc = "poll",
                        !.open = {"out"} \cup (IF CaptureError THEN {"err"} ELSE {})]
        /\ result' = [result EXCEPT !.started = TRUE]
        /\ child' = [child EXCEPT !.state = "forked", !.ignoresTerm = ignores]
        /\ UNCHANGED <<helper, pipe, clock>>
    BY <1>2 DEF Fork
  <2>2. /\ parent' \in ParentRecords /\ parent'.pc = "poll" /\ parent'.capped = parent.capped
        /\ parent'.killSent = parent.killSent
    BY <2>1 DEF ProcTypeOK, ParentRecords, Streams
  <2>3. /\ result' \in ResultRecords /\ result'.started /\ result'.captured = result.captured
        /\ result'.timedOut = result.timedOut
    BY <2>1 DEF ProcTypeOK, ResultRecords
  <2>4. /\ child' \in ChildRecords /\ child'.state = "forked" /\ child'.pending = child.pending
        /\ child'.status = child.status /\ child'.written = child.written
    BY <2>1 DEF ProcTypeOK, ChildRecords
  <2>5. ProcTypeOK' /\ InStep' /\ StatusKnown' /\ SignalsExplained'
    BY <2>1, <2>2, <2>3, <2>4 DEF ProcTypeOK, InStep, StatusKnown, SignalsExplained
  <2>6. Conserved'
    <3>1. \A s \in Streams : result.captured[s] = 0 /\ Sent(s) = 0
      BY <2>1 DEF InStep, NewResult, NewChild, Sent, Streams
    <3>2. \A s \in Streams : pipe[s] \in Nat /\ Sent(s)' = Sent(s)
      BY <2>4, SentSame DEF ProcTypeOK
    <3> QED BY <2>1, <2>2, <2>3, <3>1, <3>2 DEF Conserved
  <2> QED BY <2>5, <2>6
<1>3. CASE NotYet \/ GoOn
  <2>1. /\ parent.pc \in {"wait", "clock"}
        /\ parent' = [parent EXCEPT !.pc = "clock"] \/ parent' = [parent EXCEPT !.pc = "poll"]
        /\ UNCHANGED <<result, child, helper, pipe, clock>>
    BY <1>3 DEF NotYet, GoOn
  <2>2. /\ parent' \in ParentRecords /\ parent'.pc \in {"clock", "poll"}
        /\ parent'.capped = parent.capped /\ parent'.killSent = parent.killSent
        /\ parent'.open = parent.open
    BY <2>1 DEF ProcTypeOK, ParentRecords
  <2>3. ProcTypeOK' /\ InStep' /\ StatusKnown' /\ SignalsExplained'
    BY <2>1, <2>2 DEF ProcTypeOK, InStep, StatusKnown, SignalsExplained
  <2>4. Conserved'  BY <2>1, <2>2, SentSame DEF Conserved
  <2> QED BY <2>3, <2>4
<1>4. CASE Terminate
  <2>1. /\ parent.pc = "clock" /\ (Expired \/ parent.capped) /\ Signal(SIGTERM)
        /\ result' = [result EXCEPT !.timedOut = Expired]
        /\ parent' = [parent EXCEPT !.pc = "poll", !.killSent = TRUE]
        /\ UNCHANGED <<pipe, clock>>
    BY <1>4 DEF Terminate
  <2>2. /\ parent' \in ParentRecords /\ parent'.pc = "poll" /\ parent'.capped = parent.capped
        /\ parent'.killSent /\ parent'.open = parent.open
    BY <2>1 DEF ProcTypeOK, ParentRecords
  <2>3. Expired \in BOOLEAN  BY DEF Expired
  <2>4. /\ result' \in ResultRecords /\ result'.started = result.started
        /\ result'.captured = result.captured /\ result'.timedOut = Expired
    BY <2>1, <2>3 DEF ProcTypeOK, ResultRecords
  <2>5. /\ child' \in ChildRecords /\ helper' \in {"none", "alive", "dead"}
        /\ child'.state = child.state /\ child'.status = child.status
        /\ child'.written = child.written
    BY <2>1, SignalDoes
  <2>6. ProcTypeOK' /\ InStep' /\ StatusKnown'
    BY <2>1, <2>2, <2>4, <2>5 DEF ProcTypeOK, InStep, StatusKnown
  <2>7. SignalsExplained'  BY <2>1, <2>2, <2>4 DEF SignalsExplained, Expired
  <2>8. Conserved'  BY <2>1, <2>2, <2>4, <2>5, SentSame DEF Conserved
  <2> QED BY <2>6, <2>7, <2>8
<1>5. CASE Kill
  <2>1. /\ parent.pc = "clock" /\ parent.killSent /\ Signal(SIGKILL)
        /\ parent' = [parent EXCEPT !.pc = "poll", !.hardKillSent = TRUE]
        /\ UNCHANGED <<result, pipe, clock>>
    BY <1>5 DEF Kill
  <2>2. /\ parent' \in ParentRecords /\ parent'.pc = "poll" /\ parent'.capped = parent.capped
        /\ parent'.killSent /\ parent'.open = parent.open
    BY <2>1 DEF ProcTypeOK, ParentRecords
  <2>3. /\ child' \in ChildRecords /\ helper' \in {"none", "alive", "dead"}
        /\ child'.state = child.state /\ child'.status = child.status
        /\ child'.written = child.written
    BY <2>1, SignalDoes
  <2>4. ProcTypeOK' /\ InStep' /\ StatusKnown'
    BY <2>1, <2>2, <2>3 DEF ProcTypeOK, InStep, StatusKnown
  <2>5. SignalsExplained'  BY <2>1, <2>2 DEF SignalsExplained
  <2>6. Conserved'  BY <2>1, <2>2, <2>3, SentSame DEF Conserved
  <2> QED BY <2>4, <2>5, <2>6
<1>6. CASE Return
  <2>1. /\ parent.pc = "status" /\ result' = [result EXCEPT !.status = WaitStatus]
        /\ parent' = [parent EXCEPT !.pc = "returned", !.open = {}]
        /\ UNCHANGED <<child, helper, pipe, clock>>
    BY <1>6 DEF Return
  <2>2. /\ parent' \in ParentRecords /\ parent'.pc = "returned" /\ parent'.capped = parent.capped
        /\ parent'.killSent = parent.killSent
    BY <2>1 DEF ProcTypeOK, ParentRecords
  <2>3. WaitStatus \in StatusRecords /\ WaitStatus' = WaitStatus
    BY <2>1 DEF ProcTypeOK, ChildRecords, WaitStatus, Exited, StatusRecords
  <2>4. /\ result' \in ResultRecords /\ result'.started = result.started
        /\ result'.captured = result.captured /\ result'.timedOut = result.timedOut
        /\ result'.status = WaitStatus
    BY <2>1, <2>3 DEF ProcTypeOK, ResultRecords
  <2>5. ProcTypeOK' /\ StatusKnown' /\ SignalsExplained'
    BY <2>1, <2>2, <2>4 DEF ProcTypeOK, StatusKnown, SignalsExplained
  <2>6. InStep'  BY <2>1, <2>2, <2>3, <2>4 DEF InStep
  <2>7. Conserved'  BY <2>1, <2>2, <2>4, SentSame DEF Conserved
  <2> QED BY <2>5, <2>6, <2>7
<1>7. CASE WaitFails
  <2>1. /\ parent.pc = "wait" /\ child.state = "lost" /\ Signal(SIGKILL)
        /\ parent' = [parent EXCEPT !.pc = "status"]
        /\ UNCHANGED <<result, pipe, clock>>
    BY <1>7 DEF WaitFails
  <2>2. /\ parent' \in ParentRecords /\ parent'.pc = "status" /\ parent'.capped = parent.capped
        /\ parent'.killSent = parent.killSent /\ parent'.open = parent.open
    BY <2>1 DEF ProcTypeOK, ParentRecords
  <2>3. /\ child' \in ChildRecords /\ helper' \in {"none", "alive", "dead"}
        /\ child'.state = "lost" /\ child'.status = child.status
        /\ child'.written = child.written /\ child'.pending = child.pending
    BY <2>1, SignalDoes
  <2>4. ProcTypeOK' /\ InStep' /\ StatusKnown'
    BY <2>1, <2>2, <2>3 DEF ProcTypeOK, InStep, StatusKnown
  <2>5. SignalsExplained'  BY <2>1, <2>2, <2>3 DEF SignalsExplained
  <2>6. Conserved'  BY <2>1, <2>2, <2>3, SentSame DEF Conserved
  <2> QED BY <2>4, <2>5, <2>6
<1> QED BY <1>1, <1>2, <1>3, <1>4, <1>5, <1>6, <1>7 DEF Launch
\* A child that dies leaves a status; its chunks stay where they are.
LEMMA DiesInv ==
  ASSUME ProcInv, NEW status \in StatusRecords, status.kind \in {"exit", "signal"}, Dies(status),
         status.kind = "signal" /\ status.code \in {SIGTERM, SIGKILL} => parent.killSent,
         child.state \in {"forked", "grouped", "running"},
         UNCHANGED <<parent, result, clock, helper, pipe>>
  PROVE  ProcInv'
<1>1. child' = [child EXCEPT !.state = "zombie", !.status = status, !.pending = {}]  BY DEF Dies
<1>2. /\ child' \in ChildRecords /\ child'.state = "zombie" /\ child'.status = status
      /\ child'.pending = {} /\ child'.written = child.written
  BY <1>1 DEF ProcInv, ProcTypeOK, ChildRecords
<1>3. parent.pc \in {"poll", "wait", "clock"}
  BY DEF ProcInv, ProcTypeOK, ParentRecords, InStep, NewChild
<1>4. ProcTypeOK' /\ InStep' /\ StatusKnown' /\ SignalsExplained'
  BY <1>2, <1>3 DEF ProcInv, ProcTypeOK, InStep, StatusKnown, SignalsExplained
<1>5. Conserved'  BY <1>2, SentSame DEF ProcInv, Conserved
<1> QED BY <1>4, <1>5 DEF ProcInv

\* A chunk that is written is in its pipe.
LEMMA WriteInv ==
  ASSUME ProcInv, NEW stream \in Streams, Write(stream)
  PROVE  ProcInv'
<1>0. child.state = "running" /\ UNCHANGED <<helper, parent, result, clock>>
  BY DEF Write, Others
<1>1. CASE PipeOf(stream) \in parent.open
  <2>1. PICK into \in Streams : into = PipeOf(stream)  BY DEF PipeOf, Streams
  <2>2. /\ pipe' = [pipe EXCEPT ![into] = @ + 1]
        /\ child' = [child EXCEPT !.written[stream] = @ + 1]
    BY <1>1, <2>1 DEF Write
  <2> DEFINE now == [child.written EXCEPT ![stream] = @ + 1]
  <2>3. child.written \in [Streams -> Nat]  BY DEF ProcInv, ProcTypeOK, ChildRecords
  <2>4. /\ now \in [Streams -> Nat] /\ now[stream] = child.written[stream] + 1
        /\ \A s \in Streams : s # stream => now[s] = child.written[s]
    BY <2>3
  <2>5. child' = [child EXCEPT !.written = now]  BY <2>2
  <2> HIDE DEF now
  <2>6. /\ child' \in ChildRecords /\ child'.state = child.state /\ child'.status = child.status
        /\ child'.pending = child.pending /\ child'.written = now
    BY <2>4, <2>5 DEF ProcInv, ProcTypeOK, ChildRecords
  <2>7. /\ pipe' \in [Streams -> Nat] /\ pipe'[into] = pipe[into] + 1
        /\ \A s \in Streams : s # into => pipe'[s] = pipe[s]
    BY <2>2 DEF ProcInv, ProcTypeOK
  <2>8. ProcTypeOK' /\ InStep' /\ StatusKnown' /\ SignalsExplained'
    BY <1>0, <2>6, <2>7 DEF ProcInv, ProcTypeOK, InStep, StatusKnown, SignalsExplained, NewChild
  <2>9. Sent(into)' = Sent(into) + 1
    BY <2>1, <2>3, <2>4, <2>6 DEF Sent, PipeOf, Streams
  <2>10. \A s \in Streams : s # into => Sent(s)' = Sent(s)
    BY <2>1, <2>3, <2>4, <2>6 DEF Sent, PipeOf, Streams
  <2>11. Conserved'
    <3>1. SUFFICES ASSUME ~parent.capped, NEW s \in Streams
                   PROVE  /\ result.captured[s] + pipe'[s] = Sent(s)'
                          /\ s \notin parent.open => pipe'[s] = 0
      BY <1>0, <2>6 DEF Conserved
    <3>2. /\ result.captured[s] + pipe[s] = Sent(s) /\ (s \notin parent.open => pipe[s] = 0)
      BY <1>0, <3>1 DEF ProcInv, Conserved, InStep
    <3>3. pipe[s] \in Nat /\ result.captured[s] \in Nat
      BY DEF ProcInv, ProcTypeOK, ResultRecords
    <3>4. CASE s = into  BY <1>1, <2>1, <2>7, <2>9, <3>2, <3>3, <3>4
    <3>5. CASE s # into  BY <2>7, <2>10, <3>2, <3>5
    <3> QED BY <3>4, <3>5
  <2> QED BY <2>8, <2>11 DEF ProcInv
<1>2. CASE PipeOf(stream) \notin parent.open
  <2>1. Dies(Signalled(SIGPIPE)) /\ UNCHANGED pipe  BY <1>2 DEF Write
  <2>2. /\ Signalled(SIGPIPE) \in StatusRecords /\ Signalled(SIGPIPE).kind = "signal"
        /\ Signalled(SIGPIPE).code \notin {SIGTERM, SIGKILL}
    BY DEF Signalled, StatusRecords, SIGPIPE, SIGTERM, SIGKILL
  <2> QED BY <1>0, <2>1, <2>2, DiesInv
<1> QED BY <1>1, <1>2

\* The child, its helper and the clock.
LEMMA ChildInv ==
  ASSUME ProcInv, ChildSteps \/ Time PROVE ProcInv'
<1>1. CASE SetProcessGroup \/ Exec
  <2>1. /\ child.state \in {"forked", "grouped"}
        /\ \/ child' = [child EXCEPT !.state = "grouped", !.grouped = TRUE]
           \/ child' = [child EXCEPT !.state = "running"]
        /\ UNCHANGED <<helper, pipe, parent, result, clock>>
    BY <1>1 DEF SetProcessGroup, Exec, Others
  <2>2. /\ child' \in ChildRecords /\ child'.state \in {"grouped", "running"}
        /\ child'.status = child.status /\ child'.pending = child.pending
        /\ child'.written = child.written
    BY <2>1 DEF ProcInv, ProcTypeOK, ChildRecords
  <2>3. ProcTypeOK' /\ InStep' /\ StatusKnown' /\ SignalsExplained'
    BY <2>1, <2>2 DEF ProcInv, ProcTypeOK, InStep, StatusKnown, SignalsExplained, NewChild
  <2>4. Conserved'  BY <2>1, <2>2, SentSame DEF ProcInv, Conserved
  <2> QED BY <2>3, <2>4 DEF ProcInv
<1>2. ASSUME NEW code \in {0, 1, 126, 127}, Dies(Exited(code)), child.state \in {"grouped", "running"},
             UNCHANGED <<helper, pipe, parent, result, clock>>
      PROVE  ProcInv'
  <2>1. Exited(code) \in StatusRecords /\ Exited(code).kind = "exit"
    BY DEF Exited, StatusRecords
  <2> QED BY <1>2, <2>1, DiesInv
<1>3. ASSUME NEW sig \in {SIGTERM, SIGKILL}, DieOfSignal(sig) PROVE ProcInv'
  <2>1. /\ child.state \in {"grouped", "running"} /\ sig \in child.pending /\ Dies(Signalled(sig))
        /\ UNCHANGED <<helper, pipe, parent, result, clock>>
    BY <1>3 DEF DieOfSignal, Others
  <2>2. parent.killSent  BY <2>1 DEF ProcInv, SignalsExplained
  <2>3. Signalled(sig) \in StatusRecords /\ Signalled(sig).kind = "signal"
    BY DEF Signalled, StatusRecords, SIGTERM, SIGKILL
  <2> QED BY <2>1, <2>2, <2>3, DiesInv
<1>4. CASE SpawnHelper \/ HelperExits
  <2>1. helper' \in {"alive", "dead"} /\ UNCHANGED <<child, pipe, parent, result, clock>>
    BY <1>4 DEF SpawnHelper, HelperExits, Others
  <2>2. ProcTypeOK' /\ InStep' /\ StatusKnown' /\ SignalsExplained'
    BY <2>1 DEF ProcInv, ProcTypeOK, InStep, StatusKnown, SignalsExplained, WaitStatus
  <2>3. Conserved'  BY <2>1, SentSame DEF ProcInv, Conserved
  <2> QED BY <2>2, <2>3 DEF ProcInv
<1>5. CASE Time
  <2>1. /\ UNCHANGED <<parent, result, child, helper, pipe>>
        /\ \/ clock' = [clock EXCEPT !.deadline = TRUE]
           \/ clock' = [clock EXCEPT !.grace = TRUE]
    BY <1>5 DEF Time, DeadlinePasses, GracePasses
  <2>2. clock' \in [deadline : BOOLEAN, grace : BOOLEAN] /\ (clock.deadline => clock'.deadline)
    BY <2>1 DEF ProcInv, ProcTypeOK
  <2>3. ProcTypeOK' /\ InStep' /\ StatusKnown' /\ SignalsExplained'
    BY <2>1, <2>2 DEF ProcInv, ProcTypeOK, InStep, StatusKnown, SignalsExplained, WaitStatus
  <2>4. Conserved'  BY <2>1, SentSame DEF ProcInv, Conserved
  <2> QED BY <2>3, <2>4 DEF ProcInv
<1>6. CASE ExecFails \/ \E code \in {0, 1} : Exit(code)
  <2>1. PICK code \in {0, 1, 126, 127} :
          /\ Dies(Exited(code)) /\ child.state \in {"grouped", "running"}
          /\ UNCHANGED <<helper, pipe, parent, result, clock>>
    BY <1>6 DEF ExecFails, Exit, Others
  <2> QED BY <1>2, <2>1
<1>7. CASE TakenAway
  <2>1. /\ child.state = "zombie" /\ child' = [child EXCEPT !.state = "lost"]
        /\ UNCHANGED <<helper, pipe, parent, result, clock>>
    BY <1>7 DEF TakenAway, Others
  <2>2. /\ child' \in ChildRecords /\ child'.state = "lost" /\ child'.status = child.status
        /\ child'.pending = child.pending /\ child'.written = child.written
    BY <2>1 DEF ProcInv, ProcTypeOK, ChildRecords
  <2>3. ProcTypeOK' /\ InStep' /\ StatusKnown' /\ SignalsExplained'
    BY <2>1, <2>2 DEF ProcInv, ProcTypeOK, InStep, StatusKnown, SignalsExplained, NewChild
  <2>4. Conserved'  BY <2>1, <2>2, SentSame DEF ProcInv, Conserved
  <2> QED BY <2>3, <2>4 DEF ProcInv
<1> QED BY <1>1, <1>3, <1>4, <1>5, <1>6, <1>7, WriteInv DEF ChildSteps

-----------------------------------------------------------------------------
(* The collector.                                                          *)

\* How far the collection is: the GPU is known only after the query, what later
\* commands add comes while it is, and a collection of the system log that has ended
\* left a source or a note.
Collected ==
  /\ gpu \in [available : BOOLEAN, devices : Nat, cuda : BOOLEAN, processes : BOOLEAN]
  /\ stage = "query" => gpu = UnknownGpu
  /\ stage \in {"version", "apps"} => gpu.available
  /\ DiagnosticsHonest

DiagInv == ProcInv /\ Collected

\* A call that ended with exit code zero: the program itself exited with zero, or nobody
\* knows how it ended.
LEMMA ZeroIsExit ==
  ASSUME ProcInv, parent.pc = "returned", result.started, ExitCode = 0
  PROVE  /\ child.state \in {"reaped", "lost"}
         /\ child.state = "reaped" => child.status = Exited(0)
<1>1. /\ child.state \in {"reaped", "lost"} /\ result.status = WaitStatus
      /\ child.status \in StatusRecords /\ child.status.kind \in {"exit", "signal"}
  BY DEF ProcInv, ProcTypeOK, ChildRecords, InStep, StatusKnown
<1>2. ASSUME child.state = "reaped" PROVE child.status = Exited(0)
  <2>1. result.status = child.status  BY <1>1, <1>2 DEF WaitStatus
  <2>2. child.status.kind = "exit" /\ child.status.code = 0
    BY <1>1, <2>1 DEF ExitCode, StatusRecords
  <2> QED BY <1>1, <2>2 DEF StatusRecords, Exited
<1> QED BY <1>1, <1>2

\* Every step of the collection keeps it honest.
LEMMA CollectStep ==
  ASSUME DiagInv, [DiagNext]_diagVars PROVE DiagInv'
<1>0. ProcInv /\ Collected  BY DEF DiagInv
<1>1. CASE Command
  <2>1. ProcInv'
    BY <1>0, <1>1, DrainInv, ParentInv, ChildInv DEF Command, RunSteps
  <2>2. Collected'  BY <1>0, <1>1 DEF Command, Collected, DiagnosticsHonest
  <2> QED BY <2>1, <2>2 DEF DiagInv
<1>2. CASE Choose \/ UNCHANGED diagVars
  <2>1. UNCHANGED procVars  BY <1>2 DEF Choose, ChooseLog, diagVars
  <2>2. ProcInv'
    BY <1>0, <2>1 DEF procVars, ProcInv, ProcTypeOK, Conserved, Sent, InStep, StatusKnown,
       SignalsExplained, WaitStatus
  <2>3. Collected'
    <3>1. CASE UNCHANGED diagVars
      BY <1>0, <3>1 DEF diagVars, Collected, DiagnosticsHonest
    <3>2. CASE Choose
      <4>1. /\ UNCHANGED <<gpu, measured>> /\ stage' \in {"journalctl", "choose.dmesg", "dmesg", "done"}
            /\ stage' = "done" => logs' # {}
        BY <3>2 DEF Choose, ChooseLog, NoSource
      <4> QED BY <1>0, <4>1 DEF Collected, DiagnosticsHonest
    <3> QED BY <1>2, <3>1, <3>2
  <2> QED BY <2>2, <2>3 DEF DiagInv
<1>3. CASE Judge
  <2>1. ProcInv'
    BY <1>3, LaunchAgainInv DEF Judge, JudgeQuery, JudgeVersion, JudgeApps, JudgeJournal, JudgeDmesg
  <2>2. ASSUME NEW devices \in 0 .. 1, JudgeQuery(devices) PROVE Collected'
    <3> DEFINE listed == result.started /\ ~result.timedOut /\ ExitCode = 0 /\ devices > 0
    <3>1. /\ stage = "query" /\ parent.pc = "returned" /\ (devices > 0 => result.captured["out"] > 0)
          /\ measured' = Measured /\ UNCHANGED logs
          /\ gpu' = IF listed THEN [gpu EXCEPT !.available = TRUE, !.devices = devices] ELSE gpu
          /\ stage' = IF listed THEN "version" ELSE AfterGpu
      BY <2>2 DEF JudgeQuery, Returned
    <3>2. listed => Measured  BY <1>0, <3>1, ZeroIsExit DEF Measured
    <3>3. /\ gpu = UnknownGpu /\ ~gpu.available /\ ~gpu.cuda /\ ~gpu.processes
          /\ gpu \in [available : BOOLEAN, devices : Nat, cuda : BOOLEAN, processes : BOOLEAN]
      BY <1>0, <3>1 DEF Collected, UnknownGpu
    <3> HIDE DEF listed
    <3>4. CASE listed
      <4>1. /\ gpu' = [gpu EXCEPT !.available = TRUE, !.devices = devices] /\ stage' = "version"
            /\ measured'
        BY <3>1, <3>2, <3>4
      <4>2. /\ gpu' \in [available : BOOLEAN, devices : Nat, cuda : BOOLEAN, processes : BOOLEAN]
            /\ gpu'.available
        <5>1. devices \in Nat  OBVIOUS
        <5> QED BY <3>3, <4>1, <5>1
      <4> QED BY <4>1, <4>2 DEF Collected, DiagnosticsHonest
    <3>5. CASE ~listed
      <4>1. gpu' = gpu /\ stage' = AfterGpu  BY <3>1, <3>5
      <4>2. stage' \notin {"query", "version", "apps"} /\ (stage' = "done" => ~IncludeSystemLogs)
        BY <4>1 DEF AfterGpu
      <4> QED BY <3>3, <4>1, <4>2 DEF Collected, DiagnosticsHonest
    <3> QED BY <3>4, <3>5
  <2>3. ASSUME JudgeVersion \/ JudgeApps PROVE Collected'
    <3>1. /\ stage \in {"version", "apps"} /\ UNCHANGED <<logs, measured>>
          /\ gpu' = [gpu EXCEPT !.cuda = Ok] \/ gpu' = [gpu EXCEPT !.processes = Ok]
          /\ stage' = "apps" \/ stage' = AfterGpu
      BY <2>3 DEF JudgeVersion, JudgeApps, Returned
    <3>2. Ok \in BOOLEAN  BY DEF Ok
    <3>3. /\ gpu' \in [available : BOOLEAN, devices : Nat, cuda : BOOLEAN, processes : BOOLEAN]
          /\ gpu.available /\ gpu'.available
      BY <1>0, <3>1, <3>2 DEF Collected
    <3>4. stage' # "query" /\ (stage' = "done" => ~IncludeSystemLogs)  BY <3>1 DEF AfterGpu
    <3> QED BY <1>0, <3>1, <3>3, <3>4 DEF Collected, DiagnosticsHonest
  <2>4. ASSUME JudgeJournal \/ JudgeDmesg PROVE Collected'
    <3>1. /\ UNCHANGED <<gpu, measured>> /\ stage' \in {"done", "choose.dmesg"}
          /\ stage' = "done" => logs' # {}
      BY <2>4 DEF JudgeJournal, JudgeDmesg
    <3> QED BY <1>0, <3>1 DEF Collected, DiagnosticsHonest
  <2> QED BY <1>3, <2>1, <2>2, <2>3, <2>4 DEF Judge, DiagInv
<1> QED BY <1>1, <1>2, <1>3 DEF DiagNext

\* The collection starts with nothing known.
LEMMA CollectInit == DiagInit => DiagInv
<1> SUFFICES ASSUME DiagInit PROVE DiagInv
  OBVIOUS
<1>1. ProcInv  BY LaunchInv DEF DiagInit
<1>2. /\ gpu = UnknownGpu /\ stage \notin {"version", "apps"} /\ (stage = "done" => ~IncludeSystemLogs)
  BY DEF DiagInit, AfterGpu
<1>3. Collected  BY <1>2 DEF Collected, UnknownGpu, DiagnosticsHonest
<1> QED BY <1>1, <1>3 DEF DiagInv

\* The inductive invariant of a collection.
THEOREM DiagnosticsInvariant == DiagSpec => []DiagInv
<1>1. DiagInv /\ [DiagNext]_diagVars => DiagInv'  BY CollectStep
<1> QED BY <1>1, CollectInit, PTL DEF DiagSpec

\* ProcessRunner::run() never loses output and its result says how the child ended,
\* whatever the sizes of pipes, cap and output, whenever the deadline passes, as long as the
\* child can be waited for; where it cannot, what is claimed is what ResultFaithful says.
THEOREM ResultsAlwaysFaithful == DiagSpec => []ResultFaithful
<1>1. ASSUME ProcInv PROVE OutputComplete
  <2>1. ASSUME parent.pc = "returned", ~parent.capped, NEW s \in Streams
        PROVE  /\ child.state = "reaped" => result.captured[s] = Sent(s)
               /\ result.captured[s] <= Sent(s)
    <3>1. /\ result.captured[s] + pipe[s] = Sent(s) /\ (child.state = "reaped" => pipe[s] = 0)
          /\ result.captured[s] \in Nat /\ pipe[s] \in Nat
      BY <1>1, <2>1 DEF ProcInv, Conserved, ProcTypeOK, ResultRecords
    <3> QED BY <3>1
  <2> QED BY <2>1 DEF OutputComplete
<1>2. ASSUME ProcInv PROVE ResultExplainsChild
  <2>1. SUFFICES ASSUME parent.pc = "returned", result.started
                 PROVE  ResultExplainsChild
    BY DEF ResultExplainsChild
  <2>2. /\ child.state \in {"reaped", "lost"}
        /\ child.state = "reaped" => result.status = child.status
        /\ child.state = "lost" => result.status = Exited(0)
    BY <1>2, <2>1 DEF ProcInv, InStep, WaitStatus
  <2>3. /\ Exited(0).kind = "exit"
        /\ result.status = Exited(0) => ExitCode = 0 /\ result.status.kind = "exit"
    BY DEF Exited, ExitCode
  <2>4. Ok => ExitCode = 0 /\ (child.state = "reaped" => child.status = Exited(0))
    BY <2>2, <2>3 DEF Ok
  <2>5. result.status.kind = "signal" => child.state = "reaped"
    BY <2>2, <2>3
  <2> QED BY <1>2, <2>2, <2>4, <2>5 DEF ProcInv, SignalsExplained, ResultExplainsChild
<1>3. DiagInv => ResultFaithful  BY <1>1, <1>2 DEF DiagInv, ResultFaithful
<1> QED BY <1>3, DiagnosticsInvariant, PTL

\* Nothing is reported as measured that no finished command measured.
THEOREM DiagnosticsAlwaysHonest == DiagSpec => []DiagnosticsHonest
<1>1. DiagInv => DiagnosticsHonest  BY DEF DiagInv, Collected
<1> QED BY <1>1, DiagnosticsInvariant, PTL
=============================================================================
