-------------------------- MODULE TestRunnerProofs --------------------------
(***************************************************************************)
(* Theorems about TestRunner::run(), for any number of tests, workers,     *)
(* attempts and cancelling threads, any kinds of tests and any outcomes.   *)
(*                                                                         *)
(* The inductive invariant is built in four layers, each proved from the   *)
(* ones below it: who works on which test; who is published to a           *)
(* cancellation; how far the bodies are; what the results say.             *)
(***************************************************************************)
EXTENDS TestRunner, FiniteSetTheorems, TLAPS

\* Worker w has a test in hand whose result is not in the results yet.
InHand(w) == wpc[w] \notin {"idle", "stop", "trip"}

\* Positions of a worker between ActiveRegistration and its destructor, and
\* those at which it waits for a body or is about to read its bundle.
Published == {"check", "inline", "await", "grace", "judge", "unregister"}
Waiting == {"inline", "await", "grace", "judge"}

\* No two workers are at the same test, and none is at one the queue still holds.
Assigned ==
  /\ TypeOK
  /\ exec \in [Workers -> Nat \X Nat]
  /\ \A w \in Workers : wpc[w] # "idle" => exec[w][1] < nextTest
  /\ \A w, v \in Workers :
       wpc[w] # "idle" /\ wpc[v] # "idle" /\ exec[w][1] = exec[v][1] => w = v

\* Who may hold activeMutex, which sources are published, and what a call of
\* requestCancellation() that has got that far has done about them.
Walked ==
  /\ \A c \in Cancellers : cpc[c] = "walk" <=> activeLock = c
  /\ \A c \in Cancellers : cpc[c] # "walk" => todo[c] = {}
  /\ \A c \in Cancellers : todo[c] \subseteq active
  /\ \A c \in Cancellers : cpc[c] # "ready" => runToken # "none"
  /\ \A e \in active : \E w \in Workers : exec[w] = e /\ wpc[w] \in Published
  /\ \A w \in Workers : wpc[w] \in Published => exec[w] \in active
  /\ \A c \in Cancellers : \A w \in Workers :
       cpc[c] \in {"walk", "returned"} /\ wpc[w] \in Waiting =>
         token[exec[w]] # "none" \/ exec[w] \in todo[c]

\* Execution <<t, n>> lies ahead: not queued yet, a later attempt, or the
\* current one before its body starts.
Ahead(t, n) ==
  \/ t >= nextTest
  \/ \E w \in Workers : /\ InHand(w) /\ t = exec[w][1]
                        /\ \/ n > exec[w][2]
                           \/ n = exec[w][2] /\ wpc[w] \in {"enter", "check"}

\* An execution that lies ahead is untouched.
Untouched ==
  \A t \in Tests, n \in 1..MaxAttempts :
    Ahead(t, n) => body[<<t, n>>] = "none" /\ token[<<t, n>>] # "deadline"

\* A reason other than the deadline comes from the run, a body that ended after
\* its cancellation says so, and a worker knows of a deadline that passed.
ReasonsKnown ==
  /\ runToken # "deadline"
  /\ \A e \in Executions : token[e] \notin {"none", "deadline"} => runToken # "none"
  /\ \A e \in Executions : body[e] = "done" /\ bundle[e].tainted => token[e] # "none"
  /\ \A w \in Workers : wpc[w] \in Waiting /\ token[exec[w]] = "deadline" => deadlineExceeded[w]

Paced == NoTornRead /\ NoForgottenThread /\ Untouched /\ ReasonsKnown

\* What verdict v on execution e rests on.
Untainted(e) == body[e] = "done" /\ ~bundle[e].tainted
Backed(e, v) ==
  /\ v.status \in {"Passed", "Failed", "Error"} => body[e] = "none" \/ Untainted(e)
  /\ v.status \in {"Passed", "Skipped"} =>
       \/ ~profile[e[1]].enabled \/ runToken # "none"
       \/ Untainted(e) /\ bundle[e].verdict.status = v.status

\* Every verdict is backed, by worker and in the results, and every earlier
\* attempt was offered to the repository.
Supported ==
  /\ \A w \in Workers : wpc[w] \in {"unregister", "judged"} => Backed(exec[w], verdict[w])
  /\ \A r \in results : Backed(<<r.test, r.attempt>>, r.verdict)
  /\ \A w \in Workers : InHand(w) => \A n \in 1..MaxAttempts :
       n < exec[w][2] => <<exec[w][1], n>> \in offered
  /\ HistoryComplete

\* Where each test taken from the queue has gone.
Traced ==
  /\ \A r \in results : r.test < nextTest /\ \A w \in Workers : InHand(w) => r.test # exec[w][1]
  /\ \A r, s \in results : r.test = s.test => r = s
  /\ stopScheduling \/ (\E w \in Workers : wpc[w] \in {"stop", "trip"}) =>
       FailFast /\ \E r \in results : IsFailure(r.verdict.status)
  /\ \A t \in Tests : t < nextTest =>
       \/ \E r \in results : r.test = t
       \/ t \in dropped
       \/ \E w \in Workers : InHand(w) /\ exec[w][1] = t
       \/ stopScheduling /\ \A n \in 1..MaxAttempts : body[<<t, n>>] = "none"

\* The exit code is set once, at the end.
Settled ==
  exitCode # -1 => /\ phase \notin {"begin", "running"} /\ nextTest > NumTests
                   /\ \A w \in Workers : wpc[w] = "idle"

RunInv == Assigned /\ Walked /\ Paced /\ Supported /\ Traced /\ Settled /\ ZeroMeansVerified

-----------------------------------------------------------------------------
(* Types                                                                   *)

\* There is at least one attempt.
LEMMA AttemptsPositive == MaxAttempts \in Nat /\ MaxAttempts >= 1
  BY RetryAssumption DEF MaxAttempts

\* An execution is a test and the number of an attempt.
LEMMA ExecutionPair ==
  /\ \A e \in Executions : e[1] \in Tests /\ e[2] \in 1..MaxAttempts /\ e = <<e[1], e[2]>>
  /\ \A t \in Tests, n \in 1..MaxAttempts : <<t, n>> \in Executions
  BY DEF Executions

\* Refinement by metadata yields a category.
LEMMA RefineType ==
  ASSUME NEW base \in Categories, NEW m \in Metadata PROVE Refine(base, m) \in Categories
<1>1. \A condition \in BOOLEAN, from \in Categories, candidate \in Categories :
         PromoteIf(condition, from, candidate) \in Categories
  BY DEF PromoteIf, Promote
<1> DEFINE known == PromoteIf(m.serverError, base, "ApplicationFailure")
           reached == PromoteIf(m.transport # "absent", known, m.transport)
           present == PromoteIf(m.missing, reached, "DependencyFailure")
<1>2. known \in Categories  BY <1>1 DEF Metadata, Categories
<1>3. reached \in Categories
  <2>1. CASE m.transport = "absent"  BY <2>1, <1>2 DEF PromoteIf
  <2>2. CASE m.transport # "absent"
    <3>1. m.transport \in Categories  BY <2>2 DEF Metadata, MessageCategories, Categories
    <3> QED BY <1>1, <1>2, <3>1
  <2> QED BY <2>1, <2>2
<1>4. present \in Categories  BY <1>1, <1>3 DEF Metadata, Categories
<1>5. PromoteIf(present = "Unknown" /\ m.hint # "absent", present, m.hint) \in Categories
  <2>1. CASE m.hint = "absent"  BY <2>1, <1>4 DEF PromoteIf
  <2>2. CASE m.hint # "absent"
    <3>1. m.hint \in Categories  BY <2>2 DEF Metadata, MessageCategories, Categories
    <3> QED BY <1>1, <1>4, <3>1
  <2> QED BY <2>1, <2>2
<1> QED BY <1>5 DEF Refine

\* The verdict on a finished body is a verdict, and unless a cancellation
\* overrides it, it has the status the body left.
LEMMA JudgeType ==
  ASSUME NEW v \in Verdicts, NEW m \in Metadata, NEW late \in BOOLEAN, NEW cancelled \in BOOLEAN
  PROVE  /\ Judge(v, m, late, cancelled) \in Verdicts
         /\ late => Judge(v, m, late, cancelled).status = "Timeout"
         /\ ~late /\ cancelled => Judge(v, m, late, cancelled).status = "Skipped"
         /\ ~late /\ ~cancelled => Judge(v, m, late, cancelled).status = v.status
<1> DEFINE o == Override(v, late, cancelled)
<1>1. /\ o \in Verdicts
      /\ late => o.status = "Timeout"
      /\ ~late /\ cancelled => o.status = "Skipped"
      /\ ~late /\ ~cancelled => o.status = v.status
  BY DEF Override, Verdict, Verdicts, Statuses, Categories
<1>2. Refine(o.category, m) \in Categories  BY <1>1, RefineType DEF Verdicts
<1> HIDE DEF o
<1>3. Judge(v, m, late, cancelled) =
        IF IsFailure(o.status) THEN [o EXCEPT !.category = Refine(o.category, m)] ELSE o
  BY DEF Judge, o
<1> QED BY <1>1, <1>2, <1>3 DEF Verdicts

\* Every way a body can end has a verdict.
LEMMA BodyVerdictType ==
  ASSUME NEW ending \in Endings, NEW inSetUp \in BOOLEAN
  PROVE  BodyVerdict(ending, inSetUp) \in Verdicts
<1>1. ending.category \in Categories
  <2>1. CASE ending \in [kind : {"returns", "SkipTest", "TestCancelled", "AssertionFailure",
                                 "bad_alloc", "other"}, category : {"None"}]
    BY <2>1 DEF Categories
  <2>2. CASE ending \in [kind : {"forge"}, category : ForgeCategories]
    BY <2>2 DEF ForgeCategories, Categories
  <2>3. CASE ending \in [kind : {"std"}, category : MessageCategories]
    BY <2>3 DEF MessageCategories, Categories
  <2> QED BY <2>1, <2>2, <2>3 DEF Endings
<1>2. \A status \in Statuses, category \in Categories : Verdict(status, category) \in Verdicts
  BY DEF Verdict, Verdicts
<1>3. {"None", "Timeout", "AssertionFailure", "ResourceFailure", "Unknown"} \subseteq Categories
  BY DEF Categories
<1>4. {"Passed", "Failed", "Skipped", "Error", "Timeout"} = Statuses
  BY DEF Statuses
<1>5. FromException(ending) \in Verdicts
  BY <1>1, <1>2, <1>3, <1>4 DEF FromException
<1>6. \A v \in Verdicts : [v EXCEPT !.status = "Error"] \in Verdicts
  BY DEF Verdicts, Statuses
<1> QED BY <1>2, <1>3, <1>4, <1>5, <1>6 DEF BodyVerdict

-----------------------------------------------------------------------------
(* The first layer: who works on which test                                *)

\* At first nobody works on anything.
LEMMA AssignedInitially == Init => Assigned
<1> SUFFICES ASSUME Init PROVE Assigned
  OBVIOUS
<1>1. NoVerdictYet \in Verdicts  BY DEF NoVerdictYet, Verdict, Verdicts, Statuses, Categories
<1>2. NoMetadata \in Metadata  BY DEF NoMetadata, Metadata
<1>3. EmptyBundle \in Bundles  BY <1>1, <1>2 DEF EmptyBundle, Bundles
<1>4. nextTest \in 1..(NumTests + 1) /\ exitCode \in {-1, 0, 1, 2, 4}
  BY NumTestsAssumption DEF Init
<1>5. /\ wpc \in [Workers -> WorkerStates] /\ verdict \in [Workers -> Verdicts]
      /\ bundle \in [Executions -> Bundles] /\ token \in [Executions -> Reasons]
      /\ deadlineExceeded \in [Workers -> BOOLEAN] /\ runToken \in Reasons
      /\ \A w \in Workers : wpc[w] = "idle"
  BY <1>1, <1>3 DEF Init, WorkerStates, Reasons
<1>6. TypeOK
  BY <1>4, <1>5 DEF Init, TypeOK
<1> QED BY <1>5, <1>6 DEF Init, Assigned

\* The steps of the thread in run() and in the destructor, and of the bodies,
\* move no worker.
LEMMA AssignedElsewhere ==
  ASSUME Assigned, TypeOK', UNCHANGED <<wpc, exec, nextTest>> PROVE Assigned'
  BY DEF Assigned

\* Types: the thread in run() and in the destructor.
LEMMA MainTypes == ASSUME TypeOK, MainStep PROVE TypeOK'
<1> USE DEF schedule, outcome, cancelling, bodies, reaper, local
<1>1. CASE BeginRun  BY <1>1 DEF BeginRun, TypeOK
<1>2. CASE Finish  BY <1>2 DEF Finish, TypeOK, ExitCode
<1>3. CASE Destroy  BY <1>3 DEF Destroy, TypeOK
<1>4. CASE Drained  BY <1>4 DEF Drained, TypeOK
<1>5. ASSUME NEW e \in Executions, ReapFinished(e) \/ ReapGivesUp(e) PROVE TypeOK'
  BY <1>5 DEF ReapFinished, ReapGivesUp, TypeOK
<1> QED BY <1>1, <1>2, <1>3, <1>4, <1>5 DEF MainStep

\* Types: the bodies.
LEMMA BodyTypes == ASSUME TypeOK, NEW e \in Executions, BodyEnds(e) PROVE TypeOK'
<1>1. ASSUME NEW o \in OutcomeType, EndsWith(e, o) PROVE TypeOK'
  <2>1. BodyVerdict(o.ending, o.inSetUp) \in Verdicts  BY BodyVerdictType DEF OutcomeType
  <2>2. [verdict |-> BodyVerdict(o.ending, o.inSetUp), metadata |-> o.metadata,
         tainted |-> token[e] # "none"] \in Bundles
    BY <2>1 DEF Bundles, OutcomeType
  <2> QED
    BY <1>1, <2>2 DEF EndsWith, TypeOK, schedule, outcome, cancelling, reaper, local
<1>2. [ending |-> [kind |-> "TestCancelled", category |-> "None"],
       inSetUp |-> FALSE, metadata |-> NoMetadata] \in OutcomeType
  BY DEF OutcomeType, Endings, NoMetadata, Metadata
<1> QED BY <1>1, <1>2, OutcomesAssumption DEF BodyEnds, ObservesCancellation

\* Types: requestCancellation().
LEMMA CancelTypes ==
  ASSUME TypeOK, NEW c \in Cancellers, RequestCancellation(c) \/ CancelStep(c) PROVE TypeOK'
<1> USE DEF schedule, outcome, bodies, reaper, local
<1>1. CASE RequestCancellation(c)  BY <1>1 DEF RequestCancellation, TypeOK, Cancel, Reasons
<1>2. CASE CancelAllActive(c)  BY <1>2 DEF CancelAllActive, TypeOK
<1>3. CASE CancelOne(c)  BY <1>3 DEF CancelOne, TypeOK, Cancel, Reasons
<1>4. CASE CancelReturns(c)  BY <1>4 DEF CancelReturns, TypeOK
<1> QED BY <1>1, <1>2, <1>3, <1>4 DEF CancelStep

\* Types and assignment: a worker.
LEMMA WorkerAssigned == ASSUME Assigned, NEW w \in Workers, WorkerStep(w) PROVE Assigned'
<1> USE DEF schedule, outcome, cancelling, bodies, reaper, local, Goto
<1> USE NumTestsAssumption, AttemptsPositive, ExecutionPair
<1>0. /\ \A s \in Statuses, c \in Categories : Verdict(s, c) \in Verdicts
      /\ NoVerdictYet \in Verdicts
      /\ {"Skipped", "Error", "Timeout"} \subseteq Statuses
      /\ {"None", "FrameworkError", "Timeout"} \subseteq Categories
  BY DEF Verdict, Verdicts, NoVerdictYet, Statuses, Categories
<1>1. CASE TakeTest(w)
  <2> USE <1>1 DEF TakeTest
  <2>0. nextTest \in Nat /\ nextTest \in Tests /\ nextTest' = nextTest + 1 /\ 1 \in 1..MaxAttempts
    BY DEF Assigned, TypeOK, Tests
  <2>1. nextTest' \in 1..(NumTests + 1)  BY DEF Assigned, TypeOK
  <2>2. CASE stopScheduling
    <3>1. TypeOK'  BY <2>1, <2>2 DEF Assigned, TypeOK
    <3>2. \A v \in Workers : wpc[v] # "idle" => exec[v][1] < nextTest'
      BY <2>0 DEF Assigned, TypeOK, Tests
    <3> QED BY <2>2, <3>1, <3>2 DEF Assigned
  <2>3. CASE ~stopScheduling
    <3>1. wpc' = [wpc EXCEPT ![w] = "enter"] /\ exec' = [exec EXCEPT ![w] = <<nextTest, 1>>]
      BY <2>3
    <3>2. <<nextTest, 1>> \in Executions /\ <<nextTest, 1>> \in Nat \X Nat  BY <2>0
    <3>3. TypeOK'
      BY <2>1, <3>1, <3>2 DEF Assigned, TypeOK, WorkerStates
    <3>4. exec' \in [Workers -> Nat \X Nat]  BY <3>1, <3>2 DEF Assigned
    <3>5. \A v \in Workers : wpc'[v] # "idle" => exec'[v][1] < nextTest'
      BY <2>0, <3>1 DEF Assigned, TypeOK, Tests
    <3>6. \A u, v \in Workers :
            wpc'[u] # "idle" /\ wpc'[v] # "idle" /\ exec'[u][1] = exec'[v][1] => u = v
      BY <2>0, <3>1 DEF Assigned, TypeOK, Tests
    <3> QED BY <3>3, <3>4, <3>5, <3>6 DEF Assigned
  <2> QED BY <2>2, <2>3
<1>2. CASE NotExecutable(w)
  BY <1>0, <1>2 DEF NotExecutable, Assigned, TypeOK, WorkerStates
<1>3. CASE FactoryThrows(w)
  BY <1>3 DEF FactoryThrows, Assigned, TypeOK, WorkerStates
<1>4. CASE Register(w)
  BY <1>4 DEF Register, Assigned, TypeOK, WorkerStates
<1>5. CASE LaunchBody(w)
  BY <1>5 DEF LaunchBody, Launch, Assigned, TypeOK, WorkerStates
<1>6. CASE NotRun(w)
  BY <1>0, <1>6 DEF NotRun, Assigned, TypeOK, WorkerStates
<1>7. CASE BodyReady(w)
  BY <1>7 DEF BodyReady, Assigned, TypeOK, WorkerStates
<1>8. CASE ForwardRunCancellation(w)
  BY <1>8 DEF ForwardRunCancellation, Assigned, TypeOK, Cancel
<1>9. CASE DeadlinePasses(w)
  BY <1>9 DEF DeadlinePasses, Assigned, TypeOK, WorkerStates, Cancel, Reasons
<1>10. CASE Abandon(w)
  BY <1>0, <1>10 DEF Abandon, Assigned, TypeOK, WorkerStates
<1>11. CASE JudgeBody(w)
  <2> DEFINE b == bundle[exec[w]]
             v == Judge(b.verdict, b.metadata, deadlineExceeded[w],
                        token[exec[w]] # "none" /\ ~deadlineExceeded[w])
  <2>1. b \in Bundles  BY <1>11 DEF JudgeBody, Assigned, TypeOK
  <2>2. v \in Verdicts
    <3>1. b.verdict \in Verdicts /\ b.metadata \in Metadata  BY <2>1 DEF Bundles
    <3>2. deadlineExceeded[w] \in BOOLEAN  BY DEF Assigned, TypeOK
    <3>3. (token[exec[w]] # "none" /\ ~deadlineExceeded[w]) \in BOOLEAN  OBVIOUS
    <3> QED BY <3>1, <3>2, <3>3, JudgeType
  <2>3. verdict' = [verdict EXCEPT ![w] = v]  BY <1>11 DEF JudgeBody
  <2> HIDE DEF v
  <2> QED BY <1>11, <2>2, <2>3 DEF JudgeBody, Assigned, TypeOK, WorkerStates
<1>12. CASE Unregister(w)
  BY <1>12 DEF Unregister, Withdraw, Assigned, TypeOK, WorkerStates
<1>13. CASE Retry(w)
  BY <1>0, <1>13 DEF Retry, Retries, NextAttempt, Save, Assigned, TypeOK, WorkerStates
<1>14. CASE HandleResult(w)
  <2>1. ResultOf(w) \in ResultType
    BY <1>14 DEF HandleResult, Conclude, ResultOf, ResultType, Assigned, TypeOK
  <2> HIDE DEF ResultOf
  <2> QED
    BY <1>0, <1>14, <2>1 DEF HandleResult, Conclude, Save, Assigned, TypeOK, WorkerStates
<1>15. CASE StopScheduling(w)
  BY <1>15 DEF StopScheduling, Assigned, TypeOK, WorkerStates
<1>16. CASE TripFailFast(w)
  BY <1>16 DEF TripFailFast, Assigned, TypeOK, WorkerStates, Cancel, Reasons
<1> QED
  BY <1>1, <1>2, <1>3, <1>4, <1>5, <1>6, <1>7, <1>8, <1>9, <1>10, <1>11, <1>12, <1>13, <1>14,
     <1>15, <1>16 DEF WorkerStep

\* The first layer holds always.
LEMMA AssignedStep == Assigned /\ [Next]_vars => Assigned'
<1> SUFFICES ASSUME Assigned, [Next]_vars PROVE Assigned'
  OBVIOUS
<1> TypeOK  BY DEF Assigned
<1>1. CASE MainStep
  <2>1. UNCHANGED <<wpc, exec, nextTest>>
    BY <1>1 DEF MainStep, BeginRun, Finish, Destroy, Drained, ReapFinished, ReapGivesUp, schedule,
                local
  <2> QED BY <1>1, <2>1, MainTypes, AssignedElsewhere
<1>2. ASSUME NEW w \in Workers, WorkerStep(w) PROVE Assigned'  BY <1>2, WorkerAssigned
<1>3. ASSUME NEW e \in Executions, BodyEnds(e) PROVE Assigned'
  <2>1. UNCHANGED <<wpc, exec, nextTest>>
    BY <1>3 DEF BodyEnds, ObservesCancellation, EndsWith, schedule, local
  <2> QED BY <1>3, <2>1, BodyTypes, AssignedElsewhere
<1>4. ASSUME NEW c \in Cancellers, RequestCancellation(c) \/ CancelStep(c) PROVE Assigned'
  <2>1. UNCHANGED <<wpc, exec, nextTest>>
    BY <1>4 DEF RequestCancellation, CancelStep, CancelAllActive, CancelOne, CancelReturns,
                schedule, local
  <2> QED BY <1>4, <2>1, CancelTypes, AssignedElsewhere
<1>5. CASE UNCHANGED vars
  BY <1>5 DEF Assigned, TypeOK, vars
<1> QED BY <1>1, <1>2, <1>3, <1>4, <1>5 DEF Next, Terminated

\* Types hold always; in particular no test is tried more than maxAttempts times.
THEOREM RunnerTypes == Spec => []TypeOK
<1>1. Assigned => TypeOK  BY DEF Assigned
<1> QED BY <1>1, AssignedInitially, AssignedStep, PTL DEF Spec

-----------------------------------------------------------------------------
(* The second layer: who is published to a cancellation                    *)

cancelState == <<runToken, active, activeLock, cpc, todo>>

\* A worker moves on without publishing or withdrawing its source.
LEMMA WalkedMoves ==
  ASSUME Assigned, Walked, NEW w \in Workers, NEW pc, Goto(w, pc),
         UNCHANGED <<cancelState, exec, token>>,
         wpc[w] \in Published <=> pc \in Published, pc \in Waiting => wpc[w] \in Waiting
  PROVE  Walked'
  BY DEF Assigned, TypeOK, Walked, Goto, Published, Waiting, cancelState

\* A source that is cancelled stays cancelled, so nothing is missed.
LEMMA WalkedCancelled ==
  ASSUME Assigned, Walked, NEW e \in Executions, NEW reason, reason # "none",
         token' = [token EXCEPT ![e] = Cancel(@, reason)], UNCHANGED <<cancelState, exec>>,
         \A v \in Workers : /\ wpc[v] \in Published <=> wpc'[v] \in Published
                            /\ wpc'[v] \in Waiting => wpc[v] \in Waiting
  PROVE  Walked'
<1>1. \A d \in Executions : token[d] # "none" => token'[d] # "none"
  BY DEF Assigned, TypeOK, Cancel
<1>2. \A v \in Workers : wpc[v] \in Published => exec[v] \in Executions
  BY DEF Assigned, TypeOK, Published
<1>3. \A v \in Workers : wpc[v] \in Waiting => wpc[v] \in Published
  BY DEF Waiting, Published
<1> QED BY <1>1, <1>2, <1>3 DEF Walked, cancelState

\* Every step of a worker keeps the second layer: a body starts only while the
\* run is not cancelled, and a source is withdrawn only while nobody walks.
LEMMA WorkerWalked ==
  ASSUME Assigned, Walked, NEW w \in Workers, WorkerStep(w) PROVE Walked'
<1> USE DEF schedule, outcome, cancelling, bodies, reaper, local, cancelState
<1>1. CASE TakeTest(w)
  <2>1. CASE stopScheduling  BY <1>1, <2>1 DEF TakeTest, Walked
  <2>2. CASE ~stopScheduling
    <3>1. wpc' = [wpc EXCEPT ![w] = "enter"] /\ wpc[w] = "idle"
      BY <1>1, <2>2 DEF TakeTest, Goto
    <3>2. \A v \in Workers : v # w => exec'[v] = exec[v] /\ wpc'[v] = wpc[v]
      BY <1>1, <2>2, <3>1 DEF TakeTest, Assigned, TypeOK
    <3>3. wpc[w] \notin Published /\ wpc'[w] \notin Published /\ wpc'[w] \notin Waiting
      BY <3>1 DEF Published, Waiting, Assigned, TypeOK
    <3>4. UNCHANGED <<cancelState, token>>  BY <1>1 DEF TakeTest
    <3> QED BY <3>2, <3>3, <3>4 DEF Walked
  <2> QED BY <2>1, <2>2
<1>2. CASE NotExecutable(w)  BY <1>2, WalkedMoves DEF NotExecutable, Published, Waiting
<1>3. CASE FactoryThrows(w)  BY <1>3, WalkedMoves DEF FactoryThrows, Published, Waiting
<1>4. CASE Register(w)
  <2>1. /\ wpc' = [wpc EXCEPT ![w] = "check"] /\ wpc[w] = "enter" /\ active' = active \cup {exec[w]}
        /\ UNCHANGED <<exec, token, runToken, activeLock, cpc, todo>>
    BY <1>4 DEF Register, Goto
  <2>2. \A v \in Workers : v # w => wpc'[v] = wpc[v]  BY <2>1 DEF Assigned, TypeOK
  <2>3. wpc[w] \notin Published /\ wpc'[w] \in Published /\ wpc'[w] \notin Waiting
    BY <2>1 DEF Published, Waiting, Assigned, TypeOK
  <2> QED BY <2>1, <2>2, <2>3 DEF Walked
<1>5. CASE LaunchBody(w)
  <2>1. /\ wpc' = [wpc EXCEPT ![w] = IF Profile(w).bounded THEN "await" ELSE "inline"]
        /\ wpc[w] = "check" /\ runToken = "none" /\ UNCHANGED <<exec, token, cancelState>>
    BY <1>5 DEF LaunchBody, Launch, Goto
  <2>2. \A v \in Workers : v # w => wpc'[v] = wpc[v]  BY <2>1 DEF Assigned, TypeOK
  <2>3. wpc[w] \in Published /\ wpc'[w] \in Published
    BY <2>1 DEF Published, Assigned, TypeOK
  <2>4. \A c \in Cancellers : cpc[c] \notin {"walk", "returned"}  BY <2>1 DEF Walked
  <2> QED BY <2>1, <2>2, <2>3, <2>4 DEF Walked
<1>6. CASE NotRun(w)  BY <1>6, WalkedMoves DEF NotRun, Published, Waiting
<1>7. CASE BodyReady(w)  BY <1>7, WalkedMoves DEF BodyReady, Published, Waiting
<1>8. CASE ForwardRunCancellation(w)
  <2>1. exec[w] \in Executions  BY <1>8 DEF ForwardRunCancellation, Assigned, TypeOK
  <2> QED BY <1>8, <2>1, WalkedCancelled DEF ForwardRunCancellation
<1>9. CASE DeadlinePasses(w)
  <2>1. exec[w] \in Executions  BY <1>9 DEF DeadlinePasses, Assigned, TypeOK
  <2>2. wpc[w] = "await" /\ wpc' = [wpc EXCEPT ![w] = "grace"]
    BY <1>9 DEF DeadlinePasses, Goto
  <2>3. \A v \in Workers : /\ wpc[v] \in Published <=> wpc'[v] \in Published
                           /\ wpc'[v] \in Waiting => wpc[v] \in Waiting
    BY <2>2 DEF Assigned, TypeOK, Published, Waiting
  <2> QED BY <1>9, <2>1, <2>3, WalkedCancelled DEF DeadlinePasses
<1>10. CASE Abandon(w)  BY <1>10, WalkedMoves DEF Abandon, Published, Waiting
<1>11. CASE JudgeBody(w)  BY <1>11, WalkedMoves DEF JudgeBody, Published, Waiting
<1>12. CASE Unregister(w)
  <2>1. /\ wpc' = [wpc EXCEPT ![w] = "judged"] /\ wpc[w] = "unregister" /\ activeLock = "free"
        /\ active' = active \ {exec[w]} /\ UNCHANGED <<exec, token, runToken, activeLock, cpc, todo>>
    BY <1>12 DEF Unregister, Withdraw, Goto
  <2>2. \A v \in Workers : v # w => wpc'[v] = wpc[v]  BY <2>1 DEF Assigned, TypeOK
  <2>3. wpc[w] \in Published /\ wpc'[w] \notin Published /\ wpc'[w] \notin Waiting
    BY <2>1 DEF Published, Waiting, Assigned, TypeOK
  <2>4. \A c \in Cancellers : cpc[c] # "walk" /\ todo[c] = {}
    BY <2>1, CancellersAssumption DEF Walked
  <2>5. \A v \in Workers : v # w /\ wpc[v] \in Published => exec[v] # exec[w]
    BY <2>1 DEF Assigned, Published
  <2> QED BY <2>1, <2>2, <2>3, <2>4, <2>5 DEF Walked
<1>13. CASE Retry(w)
  <2>1. wpc' = [wpc EXCEPT ![w] = "enter"] /\ wpc[w] = "judged" /\ UNCHANGED <<token, cancelState>>
    BY <1>13 DEF Retry, NextAttempt, Goto
  <2>2. \A v \in Workers : v # w => wpc'[v] = wpc[v] /\ exec'[v] = exec[v]
    BY <1>13, <2>1 DEF Retry, NextAttempt, Assigned, TypeOK
  <2>3. wpc[w] \notin Published /\ wpc'[w] \notin Published /\ wpc'[w] \notin Waiting
    BY <2>1 DEF Published, Waiting, Assigned, TypeOK
  <2> QED BY <2>1, <2>2, <2>3 DEF Walked
<1>14. CASE HandleResult(w)
  BY <1>14, WalkedMoves DEF HandleResult, Conclude, Published, Waiting
<1>15. CASE StopScheduling(w)  BY <1>15, WalkedMoves DEF StopScheduling, Published, Waiting
<1>16. CASE TripFailFast(w)
  <2>1. /\ wpc' = [wpc EXCEPT ![w] = "idle"] /\ wpc[w] = "trip" /\ runToken' # "none"
        /\ UNCHANGED <<exec, token, active, activeLock, cpc, todo>>
    BY <1>16 DEF TripFailFast, Goto, Cancel
  <2>2. \A v \in Workers : v # w => wpc'[v] = wpc[v]  BY <2>1 DEF Assigned, TypeOK
  <2>3. wpc[w] \notin Published /\ wpc'[w] \notin Published /\ wpc'[w] \notin Waiting
    BY <2>1 DEF Published, Waiting, Assigned, TypeOK
  <2> QED BY <2>1, <2>2, <2>3 DEF Walked
<1> QED
  BY <1>1, <1>2, <1>3, <1>4, <1>5, <1>6, <1>7, <1>8, <1>9, <1>10, <1>11, <1>12, <1>13, <1>14,
     <1>15, <1>16 DEF WorkerStep

\* requestCancellation() cancels the run's source first, then walks what is
\* published under the lock it holds until it has walked it all.
LEMMA CancelWalked ==
  ASSUME Assigned, Walked, NEW c \in Cancellers, RequestCancellation(c) \/ CancelStep(c)
  PROVE  Walked'
<1> USE DEF schedule, outcome, bodies, reaper, local
<1>1. CASE RequestCancellation(c)
  <2>1. /\ cpc' = [cpc EXCEPT ![c] = "lock"] /\ cpc[c] = "ready" /\ runToken' # "none"
        /\ UNCHANGED <<wpc, exec, token, active, activeLock, todo>>
    BY <1>1 DEF RequestCancellation, Cancel
  <2>2. cpc'[c] = "lock" /\ \A d \in Cancellers : d # c => cpc'[d] = cpc[d]
    BY <2>1 DEF Assigned, TypeOK
  <2> QED BY <2>1, <2>2 DEF Walked
<1>2. CASE CancelAllActive(c)
  <2>1. /\ cpc' = [cpc EXCEPT ![c] = "walk"] /\ cpc[c] = "lock" /\ activeLock = "free"
        /\ activeLock' = c /\ todo' = [todo EXCEPT ![c] = active]
        /\ UNCHANGED <<wpc, exec, token, active, runToken>>
    BY <1>2 DEF CancelAllActive
  <2>2. /\ cpc'[c] = "walk" /\ todo'[c] = active
        /\ \A d \in Cancellers : d # c => cpc'[d] = cpc[d] /\ todo'[d] = todo[d]
    BY <2>1 DEF Assigned, TypeOK
  <2>3. \A d \in Cancellers : cpc[d] # "walk"  BY <2>1, CancellersAssumption DEF Walked
  <2>4. \A w \in Workers : wpc[w] \in Waiting => exec[w] \in active
    BY DEF Walked, Waiting, Published
  <2> QED BY <2>1, <2>2, <2>3, <2>4 DEF Walked
<1>3. CASE CancelOne(c)
  <2>1. PICK e \in todo[c] : /\ token' = [token EXCEPT ![e] = Cancel(@, "signal")]
                             /\ todo' = [todo EXCEPT ![c] = @ \ {e}]
    BY <1>3 DEF CancelOne
  <2>2. cpc[c] = "walk" /\ UNCHANGED <<wpc, exec, active, runToken, activeLock, cpc>>
    BY <1>3 DEF CancelOne
  <2>3. e \in Executions  BY <2>1 DEF Assigned, TypeOK
  <2>4. token'[e] # "none" /\ \A d \in Executions : token[d] # "none" => token'[d] # "none"
    BY <2>1, <2>3 DEF Assigned, TypeOK, Cancel
  <2>5. todo'[c] = todo[c] \ {e} /\ \A d \in Cancellers : d # c => todo'[d] = todo[d]
    BY <2>1 DEF Assigned, TypeOK
  <2>6. \A w \in Workers : wpc[w] \in Waiting => exec[w] \in Executions
    BY DEF Assigned, TypeOK, Waiting
  <2> QED BY <2>2, <2>4, <2>5, <2>6 DEF Walked
<1>4. CASE CancelReturns(c)
  <2>1. /\ cpc' = [cpc EXCEPT ![c] = "returned"] /\ cpc[c] = "walk" /\ todo[c] = {}
        /\ activeLock' = "free" /\ UNCHANGED <<wpc, exec, token, active, runToken, todo>>
    BY <1>4 DEF CancelReturns
  <2>2. cpc'[c] = "returned" /\ \A d \in Cancellers : d # c => cpc'[d] = cpc[d]
    BY <2>1 DEF Assigned, TypeOK
  <2>3. \A d \in Cancellers : d # c => cpc[d] # "walk"  BY <2>1 DEF Walked
  <2> QED BY <2>1, <2>2, <2>3, CancellersAssumption DEF Walked
<1> QED BY <1>1, <1>2, <1>3, <1>4 DEF CancelStep

\* Steps of run(), of the destructor and of the bodies concern no source.
LEMMA WalkedElsewhere ==
  ASSUME Walked, UNCHANGED <<cancelState, wpc, exec, token>> PROVE Walked'
  BY DEF Walked, cancelState

\* The second layer holds always.
LEMMA WalkedStep == Assigned /\ Walked /\ [Next]_vars => Walked'
<1> SUFFICES ASSUME Assigned, Walked, [Next]_vars PROVE Walked'
  OBVIOUS
<1>1. CASE MainStep
  BY <1>1, WalkedElsewhere DEF MainStep, BeginRun, Finish, Destroy, Drained, ReapFinished,
     ReapGivesUp, cancelling, local, cancelState
<1>2. ASSUME NEW w \in Workers, WorkerStep(w) PROVE Walked'  BY <1>2, WorkerWalked
<1>3. ASSUME NEW e \in Executions, BodyEnds(e) PROVE Walked'
  BY <1>3, WalkedElsewhere DEF BodyEnds, ObservesCancellation, EndsWith, cancelling, local,
     cancelState
<1>4. ASSUME NEW c \in Cancellers, RequestCancellation(c) \/ CancelStep(c) PROVE Walked'
  BY <1>4, CancelWalked
<1>5. CASE UNCHANGED vars  BY <1>5, WalkedElsewhere DEF vars, cancelState
<1> QED BY <1>1, <1>2, <1>3, <1>4, <1>5 DEF Next, Terminated

\* It holds initially.
LEMMA WalkedInitially == Init => Walked
  BY CancellersAssumption DEF Init, Walked, Published, Waiting

-----------------------------------------------------------------------------
(* The third layer: how far the bodies are                                 *)

\* An execution whose body may have started does not lie ahead.
LEMMA NotAhead ==
  ASSUME Assigned, NEW w \in Workers, InHand(w), wpc[w] \notin {"enter", "check"}
  PROVE  ~Ahead(exec[w][1], exec[w][2])
<1>1. /\ exec[w][1] \in Nat /\ exec[w][2] \in Nat /\ nextTest \in Nat /\ exec[w][1] < nextTest
  BY NumTestsAssumption DEF Assigned, TypeOK, InHand
<1>2. \A v \in Workers : InHand(v) /\ exec[v][1] = exec[w][1] => v = w
  BY DEF Assigned, InHand
<1> QED BY <1>1, <1>2 DEF Ahead

\* Nothing comes to lie ahead when a worker moves on with its execution.
LEMMA AheadMoves ==
  ASSUME Assigned, NEW w \in Workers, NEW pc, Goto(w, pc), UNCHANGED <<nextTest, exec>>,
         pc \in {"idle", "stop", "trip"} \/ InHand(w),
         pc \in {"enter", "check"} => wpc[w] \in {"enter", "check"},
         NEW t \in Tests, NEW n \in 1..MaxAttempts, Ahead(t, n)'
  PROVE  Ahead(t, n)
<1>1. wpc'[w] = pc /\ \A v \in Workers : v # w => wpc'[v] = wpc[v]
  BY DEF Assigned, TypeOK, Goto
<1> QED BY <1>1 DEF Ahead, InHand

\* A worker moves on and touches neither bodies nor sources.
LEMMA PacedMoves ==
  ASSUME Assigned, Paced, NEW w \in Workers, NEW pc, Goto(w, pc),
         UNCHANGED <<nextTest, exec, token, body, bundle, orphans, stuck>>,
         runToken # "none" => runToken' # "none", runToken' # "deadline",
         \A v \in Workers : wpc'[v] \in Waiting => deadlineExceeded'[v] = deadlineExceeded[v],
         pc \in Waiting => wpc[w] \in Waiting,
         pc = "judge" => body[exec[w]] = "done",
         wpc[w] \in {"inline", "await", "grace"} /\ pc \notin {"inline", "await", "grace"}
           => body[exec[w]] # "running",
         pc \in {"idle", "stop", "trip"} \/ InHand(w),
         pc \in {"enter", "check"} => wpc[w] \in {"enter", "check"}
  PROVE  Paced'
<1>1. wpc'[w] = pc /\ \A v \in Workers : v # w => wpc'[v] = wpc[v]
  BY DEF Assigned, TypeOK, Goto
<1>2. NoTornRead'  BY <1>1 DEF Paced, NoTornRead
<1>3. NoForgottenThread'  BY <1>1 DEF Paced, NoForgottenThread
<1>4. Untouched'
  <2> SUFFICES ASSUME NEW t \in Tests, NEW n \in 1..MaxAttempts, Ahead(t, n)'
               PROVE  body[<<t, n>>] = "none" /\ token[<<t, n>>] # "deadline"
    BY DEF Untouched
  <2>1. Ahead(t, n)  BY AheadMoves
  <2> QED BY <2>1 DEF Paced, Untouched
<1>5. ReasonsKnown'  BY <1>1 DEF Paced, ReasonsKnown
<1> QED BY <1>2, <1>3, <1>4, <1>5 DEF Paced

\* Every step of a worker keeps the third layer.
LEMMA WorkerPaced ==
  ASSUME Assigned, Assigned', Paced, NEW w \in Workers, WorkerStep(w) PROVE Paced'
<1> USE DEF schedule, outcome, cancelling, bodies, reaper, local
<1>1. CASE TakeTest(w)
  <2>1. CASE stopScheduling
    <3>1. /\ nextTest' = nextTest + 1 /\ nextTest \in Nat
          /\ UNCHANGED <<wpc, exec, token, body, bundle, orphans, stuck, runToken, deadlineExceeded>>
      BY <1>1, <2>1, NumTestsAssumption DEF TakeTest, Assigned, TypeOK
    <3>2. \A t \in Tests, n \in 1..MaxAttempts : Ahead(t, n)' => Ahead(t, n)
      BY <3>1 DEF Ahead, InHand, Tests
    <3>3. Untouched'  BY <3>1, <3>2 DEF Paced, Untouched
    <3> QED BY <3>1, <3>3 DEF Paced, NoTornRead, NoForgottenThread, ReasonsKnown
  <2>2. CASE ~stopScheduling
    <3>1. /\ nextTest' = nextTest + 1 /\ nextTest \in Nat /\ wpc[w] = "idle"
          /\ UNCHANGED <<token, body, bundle, orphans, stuck, runToken, deadlineExceeded>>
      BY <1>1, <2>2, NumTestsAssumption DEF TakeTest, Assigned, TypeOK
    <3>2. /\ wpc'[w] = "enter" /\ exec'[w] = <<nextTest, 1>>
          /\ \A v \in Workers : v # w => wpc'[v] = wpc[v] /\ exec'[v] = exec[v]
      BY <1>1, <2>2 DEF TakeTest, Goto, Assigned, TypeOK
    <3>3. \A t \in Tests, n \in 1..MaxAttempts : Ahead(t, n)' => Ahead(t, n)
      BY <3>1, <3>2 DEF Ahead, InHand, Tests
    <3>4. Untouched'  BY <3>1, <3>3 DEF Paced, Untouched
    <3>5. NoTornRead'  BY <3>1, <3>2 DEF Paced, NoTornRead
    <3>6. NoForgottenThread'  BY <3>1, <3>2 DEF Paced, NoForgottenThread
    <3>7. ReasonsKnown'  BY <3>1, <3>2 DEF Paced, ReasonsKnown, Waiting
    <3> QED BY <3>4, <3>5, <3>6, <3>7 DEF Paced
  <2> QED BY <2>1, <2>2
<1>2. CASE NotExecutable(w)  BY <1>2, PacedMoves DEF NotExecutable, Waiting, InHand, Paced, ReasonsKnown
<1>3. CASE FactoryThrows(w)  BY <1>3, PacedMoves DEF FactoryThrows, Waiting, InHand, Paced, ReasonsKnown
<1>4. CASE Register(w)  BY <1>4, PacedMoves DEF Register, Waiting, InHand, Paced, ReasonsKnown
<1>5. CASE LaunchBody(w)
  <2> DEFINE e == exec[w]
  <2>1. /\ body' = [body EXCEPT ![e] = "running"] /\ wpc[w] = "check"
        /\ UNCHANGED <<nextTest, exec, token, bundle, orphans, stuck, runToken, deadlineExceeded>>
    BY <1>5 DEF LaunchBody, Launch
  <2>2. /\ wpc'[w] \in {"inline", "await"}
        /\ \A v \in Workers : v # w => wpc'[v] = wpc[v]
    BY <1>5 DEF LaunchBody, Launch, Goto, Assigned, TypeOK
  <2>3. e \in Executions /\ e = <<e[1], e[2]>> /\ e[1] \in Tests /\ e[2] \in 1..MaxAttempts
    BY <2>1, ExecutionPair DEF Assigned, TypeOK
  <2>4. \A v \in Workers : v # w /\ wpc[v] # "idle" => exec[v] # e
    BY <2>1 DEF Assigned
  <2>5. body'[e] = "running" /\ \A d \in Executions : d # e => body'[d] = body[d]
    BY <2>1, <2>3 DEF Assigned, TypeOK
  <2>6. Ahead(e[1], e[2])  BY <2>1 DEF Ahead, InHand
  <2>7. body[e] = "none" /\ token[e] # "deadline"  BY <2>3, <2>6 DEF Paced, Untouched
  <2>8. ASSUME NEW t \in Tests, NEW n \in 1..MaxAttempts, Ahead(t, n)'
        PROVE  t # e[1] \/ n # e[2]
    <3>1. e[1] < nextTest' /\ e[1] \in Nat /\ nextTest' \in Nat /\ e[2] \in Nat
      BY <2>1, NumTestsAssumption DEF Assigned, TypeOK
    <3>2. \A v \in Workers : v # w /\ InHand(v)' => exec'[v][1] # e[1]
      BY <2>1, <2>2 DEF Assigned, InHand
    <3>3. ~(e[1] >= nextTest')  BY <3>1
    <3> QED BY <2>1, <2>2, <2>8, <3>1, <3>2, <3>3 DEF Ahead
  <2>9. NoTornRead'  BY <2>1, <2>2, <2>4, <2>5 DEF Paced, NoTornRead, Assigned, TypeOK
  <2>10. NoForgottenThread'  BY <2>1, <2>2, <2>5 DEF Paced, NoForgottenThread
  <2>11. Untouched'
    <3> SUFFICES ASSUME NEW t \in Tests, NEW n \in 1..MaxAttempts, Ahead(t, n)'
                 PROVE  body'[<<t, n>>] = "none" /\ token'[<<t, n>>] # "deadline"
      BY DEF Untouched
    <3>1. Ahead(t, n)  BY <2>1, <2>2 DEF Ahead, InHand
    <3>2. <<t, n>> # e /\ <<t, n>> \in Executions  BY <2>8, ExecutionPair
    <3> QED BY <2>1, <2>5, <3>1, <3>2 DEF Paced, Untouched
  <2>12. ReasonsKnown'  BY <2>1, <2>2, <2>5, <2>7 DEF Paced, ReasonsKnown, Waiting
  <2> QED BY <2>9, <2>10, <2>11, <2>12 DEF Paced
<1>6. CASE NotRun(w)  BY <1>6, PacedMoves DEF NotRun, Waiting, InHand, Paced, ReasonsKnown
<1>7. CASE BodyReady(w)  BY <1>7, PacedMoves DEF BodyReady, Waiting, InHand, Paced, ReasonsKnown
<1>8. CASE ForwardRunCancellation(w)
  <2> DEFINE e == exec[w]
  <2>1. /\ token' = [token EXCEPT ![e] = Cancel(@, runToken)] /\ wpc[w] = "await"
        /\ token[e] = "none" /\ runToken # "none"
        /\ UNCHANGED <<nextTest, wpc, exec, body, bundle, orphans, stuck, runToken, deadlineExceeded>>
    BY <1>8 DEF ForwardRunCancellation
  <2>2. e \in Executions /\ e = <<e[1], e[2]>> /\ e[1] \in Tests /\ e[2] \in 1..MaxAttempts
    BY <2>1, ExecutionPair DEF Assigned, TypeOK
  <2>3. ~Ahead(e[1], e[2])  BY <2>1, NotAhead DEF InHand
  <2>4. token'[e] = runToken /\ \A d \in Executions : d # e => token'[d] = token[d]
    BY <2>1, <2>2 DEF Assigned, TypeOK, Cancel
  <2>5. NoTornRead' /\ NoForgottenThread'  BY <2>1 DEF Paced, NoTornRead, NoForgottenThread
  <2>6. Untouched'
    <3> SUFFICES ASSUME NEW t \in Tests, NEW n \in 1..MaxAttempts, Ahead(t, n)'
                 PROVE  body'[<<t, n>>] = "none" /\ token'[<<t, n>>] # "deadline"
      BY DEF Untouched
    <3>1. Ahead(t, n)  BY <2>1 DEF Ahead, InHand
    <3>2. <<t, n>> # e /\ <<t, n>> \in Executions  BY <2>2, <2>3, <3>1, ExecutionPair
    <3> QED BY <2>1, <2>4, <3>1, <3>2 DEF Paced, Untouched
  <2>7. ReasonsKnown'
    BY <2>1, <2>4 DEF Paced, ReasonsKnown, Waiting, Assigned, TypeOK
  <2> QED BY <2>5, <2>6, <2>7 DEF Paced
<1>9. CASE DeadlinePasses(w)
  <2> DEFINE e == exec[w]
  <2>1. /\ token' = [token EXCEPT ![e] = Cancel(@, "deadline")] /\ wpc[w] = "await"
        /\ deadlineExceeded' = [deadlineExceeded EXCEPT ![w] = TRUE]
        /\ UNCHANGED <<nextTest, exec, body, bundle, orphans, stuck, runToken>>
    BY <1>9 DEF DeadlinePasses
  <2>2. e \in Executions /\ e = <<e[1], e[2]>> /\ e[1] \in Tests /\ e[2] \in 1..MaxAttempts
    BY <2>1, ExecutionPair DEF Assigned, TypeOK
  <2>3. wpc'[w] = "grace" /\ \A v \in Workers : v # w => wpc'[v] = wpc[v]
    BY <1>9 DEF DeadlinePasses, Goto, Assigned, TypeOK
  <2>4. /\ token'[e] # "none" /\ token'[e] \in {token[e], "deadline"}
        /\ \A d \in Executions : d # e => token'[d] = token[d]
    BY <2>1, <2>2 DEF Assigned, TypeOK, Cancel
  <2>5. /\ deadlineExceeded'[w] = TRUE
        /\ \A v \in Workers : v # w => deadlineExceeded'[v] = deadlineExceeded[v]
    BY <2>1 DEF Assigned, TypeOK
  <2>6. ~Ahead(e[1], e[2])  BY <2>1, NotAhead DEF InHand
  <2>7. \A v \in Workers : v # w /\ wpc[v] # "idle" => exec[v] # e /\ exec[v] \in Executions
    BY <2>1 DEF Assigned, TypeOK
  <2>8. NoTornRead'  BY <2>1, <2>3 DEF Paced, NoTornRead
  <2>9. NoForgottenThread'  BY <2>1, <2>3 DEF Paced, NoForgottenThread
  <2>10. Untouched'
    <3> SUFFICES ASSUME NEW t \in Tests, NEW n \in 1..MaxAttempts, Ahead(t, n)'
                 PROVE  body'[<<t, n>>] = "none" /\ token'[<<t, n>>] # "deadline"
      BY DEF Untouched
    <3>1. Ahead(t, n)  BY <2>1, <2>3 DEF Ahead, InHand
    <3>2. <<t, n>> # e /\ <<t, n>> \in Executions  BY <2>2, <2>6, <3>1, ExecutionPair
    <3> QED BY <2>1, <2>4, <3>1, <3>2 DEF Paced, Untouched
  <2>11. ReasonsKnown'
    BY <2>1, <2>3, <2>4, <2>5, <2>7 DEF Paced, ReasonsKnown, Waiting
  <2> QED BY <2>8, <2>9, <2>10, <2>11 DEF Paced
<1>10. CASE Abandon(w)
  <2>1. /\ wpc[w] = "grace" /\ orphans' = orphans \cup {exec[w]}
        /\ UNCHANGED <<nextTest, exec, token, body, bundle, stuck, runToken, deadlineExceeded>>
    BY <1>10 DEF Abandon
  <2>2. wpc'[w] = "unregister" /\ \A v \in Workers : v # w => wpc'[v] = wpc[v]
    BY <1>10 DEF Abandon, Goto, Assigned, TypeOK
  <2>3. NoTornRead'  BY <2>1, <2>2 DEF Paced, NoTornRead
  <2>4. NoForgottenThread'  BY <2>1, <2>2 DEF Paced, NoForgottenThread
  <2>5. \A t \in Tests, n \in 1..MaxAttempts : Ahead(t, n)' => Ahead(t, n)
    BY <2>1, <2>2 DEF Ahead, InHand
  <2>6. Untouched'  BY <2>1, <2>5 DEF Paced, Untouched
  <2>7. ReasonsKnown'  BY <2>1, <2>2 DEF Paced, ReasonsKnown, Waiting
  <2> QED BY <2>3, <2>4, <2>6, <2>7 DEF Paced
<1>11. CASE JudgeBody(w)
  BY <1>11, PacedMoves DEF JudgeBody, Waiting, InHand, Paced, ReasonsKnown
<1>12. CASE Unregister(w)
  <2>1. \A v \in Workers : wpc'[v] \in Waiting => deadlineExceeded'[v] = deadlineExceeded[v]
    BY <1>12 DEF Unregister, Withdraw, Goto, Waiting, Assigned, TypeOK
  <2> QED BY <1>12, <2>1, PacedMoves DEF Unregister, Withdraw, Waiting, InHand, Paced, ReasonsKnown
<1>13. CASE Retry(w)
  <2>1. /\ wpc[w] = "judged"
        /\ UNCHANGED <<nextTest, token, body, bundle, orphans, stuck, runToken, deadlineExceeded>>
    BY <1>13 DEF Retry
  <2>2. /\ wpc'[w] = "enter" /\ exec'[w] = <<exec[w][1], exec[w][2] + 1>>
        /\ \A v \in Workers : v # w => wpc'[v] = wpc[v] /\ exec'[v] = exec[v]
    BY <1>13 DEF Retry, NextAttempt, Goto, Assigned, TypeOK
  <2>3. exec[w][2] \in Nat  BY DEF Assigned
  <2>4. NoTornRead'  BY <2>1, <2>2 DEF Paced, NoTornRead
  <2>5. NoForgottenThread'  BY <2>1, <2>2 DEF Paced, NoForgottenThread
  <2>6. \A t \in Tests, n \in 1..MaxAttempts : Ahead(t, n)' => Ahead(t, n)
    BY <2>1, <2>2, <2>3 DEF Ahead, InHand
  <2>7. Untouched'  BY <2>1, <2>6 DEF Paced, Untouched
  <2>8. ReasonsKnown'  BY <2>1, <2>2 DEF Paced, ReasonsKnown, Waiting
  <2> QED BY <2>4, <2>5, <2>7, <2>8 DEF Paced
<1>14. CASE HandleResult(w)
  BY <1>14, PacedMoves DEF HandleResult, Conclude, Waiting, InHand, Paced, ReasonsKnown
<1>15. CASE StopScheduling(w)
  BY <1>15, PacedMoves DEF StopScheduling, Waiting, InHand, Paced, ReasonsKnown
<1>16. CASE TripFailFast(w)
  BY <1>16, PacedMoves DEF TripFailFast, Cancel, Waiting, InHand, Paced, ReasonsKnown
<1> QED
  BY <1>1, <1>2, <1>3, <1>4, <1>5, <1>6, <1>7, <1>8, <1>9, <1>10, <1>11, <1>12, <1>13, <1>14,
     <1>15, <1>16 DEF WorkerStep

workerState == <<wpc, exec, nextTest, deadlineExceeded>>

\* While no worker moves, the same executions lie ahead.
LEMMA AheadElsewhere ==
  ASSUME UNCHANGED workerState
  PROVE  \A t \in Tests, n \in 1..MaxAttempts : Ahead(t, n)' <=> Ahead(t, n)
  BY DEF Ahead, InHand, workerState

\* The reaper forgets a body only once it has ended, or reports it.
LEMMA MainPaced == ASSUME Paced, MainStep \/ UNCHANGED vars PROVE Paced'
<1>1. /\ UNCHANGED <<workerState, token, body, bundle, runToken>>
      /\ \A e \in Executions : body[e] = "running" /\ e \in orphans \cup stuck =>
           e \in orphans' \cup stuck'
  BY DEF MainStep, BeginRun, Finish, Destroy, Drained, ReapFinished, ReapGivesUp, vars,
         schedule, local, bodies, reaper, workerState
<1>2. NoForgottenThread'  BY <1>1 DEF Paced, NoForgottenThread, workerState
<1>3. Untouched'  BY <1>1, AheadElsewhere DEF Paced, Untouched
<1> QED BY <1>1, <1>2, <1>3 DEF Paced, NoTornRead, ReasonsKnown, workerState

\* A body ends after it has started, and notes whether it was cancelled.
LEMMA BodyPaced ==
  ASSUME Assigned, Paced, NEW e \in Executions, BodyEnds(e) PROVE Paced'
<1>1. /\ body[e] = "running" /\ body' = [body EXCEPT ![e] = "done"]
      /\ UNCHANGED <<workerState, token, orphans, stuck, runToken>>
  BY DEF BodyEnds, ObservesCancellation, EndsWith, schedule, local, reaper, workerState
<1>2. body'[e] = "done" /\ \A d \in Executions : d # e => body'[d] = body[d]
  BY <1>1 DEF Assigned, TypeOK
<1>3. /\ bundle'[e].tainted <=> token[e] # "none"
      /\ \A d \in Executions : d # e => bundle'[d] = bundle[d]
  <2>1. PICK o : EndsWith(e, o)  BY DEF BodyEnds, ObservesCancellation
  <2>2. bundle' = [bundle EXCEPT ![e] =
          [verdict |-> BodyVerdict(o.ending, o.inSetUp), metadata |-> o.metadata,
           tainted |-> token[e] # "none"]]
    BY <2>1 DEF EndsWith
  <2> QED BY <2>2 DEF Assigned, TypeOK
<1>4. \A w \in Workers : wpc[w] = "judge" => exec[w] \in Executions  BY DEF Assigned, TypeOK
<1>5. NoTornRead'  BY <1>1, <1>2, <1>4 DEF Paced, NoTornRead, workerState
<1>6. NoForgottenThread'  BY <1>1, <1>2 DEF Paced, NoForgottenThread, workerState
<1>7. Untouched'
  <2> SUFFICES ASSUME NEW t \in Tests, NEW n \in 1..MaxAttempts, Ahead(t, n)'
               PROVE  body'[<<t, n>>] = "none" /\ token'[<<t, n>>] # "deadline"
    BY DEF Untouched
  <2>1. Ahead(t, n)  BY <1>1, AheadElsewhere
  <2>2. body[<<t, n>>] = "none" /\ token[<<t, n>>] # "deadline"  BY <2>1 DEF Paced, Untouched
  <2>3. <<t, n>> \in Executions  BY ExecutionPair
  <2> QED BY <1>1, <1>2, <2>2, <2>3
<1>8. ReasonsKnown'  BY <1>1, <1>2, <1>3 DEF Paced, ReasonsKnown, workerState
<1> QED BY <1>5, <1>6, <1>7, <1>8 DEF Paced

\* requestCancellation() cancels a test's source only after the run's.
LEMMA CancelPaced ==
  ASSUME Assigned, Walked, Paced, NEW c \in Cancellers, RequestCancellation(c) \/ CancelStep(c)
  PROVE  Paced'
<1>1. /\ UNCHANGED <<workerState, body, bundle, orphans, stuck>>
      /\ runToken' # "deadline"
      /\ runToken # "none" => runToken' # "none"
  BY DEF RequestCancellation, CancelStep, CancelAllActive, CancelOne, CancelReturns, Cancel,
         schedule, local, bodies, reaper, workerState, Paced, ReasonsKnown
<1>2. \A d \in Executions : \/ token'[d] = token[d]
                            \/ token[d] = "none" /\ token'[d] = "signal" /\ runToken' # "none"
  <2>1. CASE CancelOne(c)
    <3>1. runToken' # "none"  BY <2>1 DEF CancelOne, Walked
    <3>2. PICK e \in todo[c] : token' = [token EXCEPT ![e] = Cancel(@, "signal")]
      BY <2>1 DEF CancelOne
    <3>3. e \in Executions  BY <3>2 DEF Assigned, TypeOK
    <3> QED BY <3>1, <3>2, <3>3 DEF Cancel, Assigned, TypeOK
  <2>2. CASE ~CancelOne(c)
    BY <2>2 DEF RequestCancellation, CancelStep, CancelAllActive, CancelReturns
  <2> QED BY <2>1, <2>2
<1>3. \A w \in Workers : wpc[w] \in Waiting => exec[w] \in Executions
  BY DEF Assigned, TypeOK, Waiting
<1>4. NoTornRead' /\ NoForgottenThread'
  BY <1>1 DEF Paced, NoTornRead, NoForgottenThread, workerState
<1>5. Untouched'
  <2> SUFFICES ASSUME NEW t \in Tests, NEW n \in 1..MaxAttempts, Ahead(t, n)'
               PROVE  body'[<<t, n>>] = "none" /\ token'[<<t, n>>] # "deadline"
    BY DEF Untouched
  <2>1. Ahead(t, n)  BY <1>1, AheadElsewhere
  <2>2. body[<<t, n>>] = "none" /\ token[<<t, n>>] # "deadline"  BY <2>1 DEF Paced, Untouched
  <2>3. <<t, n>> \in Executions  BY ExecutionPair
  <2> QED BY <1>1, <1>2, <2>2, <2>3
<1>6. ReasonsKnown'  BY <1>1, <1>2, <1>3 DEF Paced, ReasonsKnown, workerState
<1> QED BY <1>4, <1>5, <1>6 DEF Paced

\* The third layer holds always.
LEMMA PacedStep == Assigned /\ Assigned' /\ Walked /\ Paced /\ [Next]_vars => Paced'
<1> SUFFICES ASSUME Assigned, Assigned', Walked, Paced, [Next]_vars PROVE Paced'
  OBVIOUS
<1>1. CASE MainStep \/ UNCHANGED vars  BY <1>1, MainPaced
<1>2. ASSUME NEW w \in Workers, WorkerStep(w) PROVE Paced'  BY <1>2, WorkerPaced
<1>3. ASSUME NEW e \in Executions, BodyEnds(e) PROVE Paced'  BY <1>3, BodyPaced
<1>4. ASSUME NEW c \in Cancellers, RequestCancellation(c) \/ CancelStep(c) PROVE Paced'
  BY <1>4, CancelPaced
<1> QED BY <1>1, <1>2, <1>3, <1>4 DEF Next, Terminated

\* It holds initially.
LEMMA PacedInitially == Init => Paced
<1> SUFFICES ASSUME Init PROVE Paced
  OBVIOUS
<1>1. NoTornRead /\ NoForgottenThread  BY DEF Init, NoTornRead, NoForgottenThread
<1>2. Untouched  BY ExecutionPair DEF Init, Untouched
<1>3. ReasonsKnown  BY DEF Init, ReasonsKnown, Waiting
<1> QED BY <1>1, <1>2, <1>3 DEF Paced

\* A cancellation at any moment walks live sources only, misses no body that a
\* worker waits for, and wakes nobody to a bundle that is still written, for any
\* number of workers, cancellers and attempts.
THEOREM CancellationAlwaysSafe == Spec => []CancellationSafe
<1>1. Assigned /\ Walked /\ Paced => CancellationSafe
  <2> SUFFICES ASSUME Assigned, Walked, Paced PROVE CancellationSafe
    OBVIOUS
  <2>1. WalkedSourcesAlive  BY DEF Walked, Published, WalkedSourcesAlive
  <2>2. CancellationReachesActive
    BY DEF Walked, Waiting, CancellationReachesActive, Returned
  <2> QED BY <2>1, <2>2 DEF Paced, CancellationSafe
<1> QED
  BY <1>1, AssignedInitially, AssignedStep, WalkedInitially, WalkedStep, PacedInitially, PacedStep,
     PTL DEF Spec

-----------------------------------------------------------------------------
(* The fourth layer: where each test has gone                              *)

\* Worker w moves on and keeps the test it had, if any.
LEMMA TracedMoves ==
  ASSUME Assigned, Traced, NEW w \in Workers, NEW pc, Goto(w, pc),
         UNCHANGED <<nextTest, results, dropped, stopScheduling>>,
         \A v \in Workers : exec'[v][1] = exec[v][1],
         InHand(w) <=> pc \notin {"idle", "stop", "trip"},
         pc \in {"stop", "trip"} => wpc[w] \in {"stop", "trip"},
         \A t \in Tests : \/ InHand(w) /\ exec[w][1] = t
                          \/ \A n \in 1..MaxAttempts : body'[<<t, n>>] = body[<<t, n>>]
  PROVE  Traced'
<1>1. wpc'[w] = pc /\ \A v \in Workers : v # w => wpc'[v] = wpc[v]
  BY DEF Assigned, TypeOK, Goto
<1>2. \A v \in Workers : InHand(v)' <=> InHand(v)  BY <1>1 DEF InHand
<1>3. (\E v \in Workers : wpc'[v] \in {"stop", "trip"}) =>
        \E v \in Workers : wpc[v] \in {"stop", "trip"}
  BY <1>1
<1> QED BY <1>2, <1>3 DEF Traced

\* Every step of a worker keeps track of the tests: the one it takes is new, the
\* one it ends has a result or was dropped, and fail-fast follows a failure.
LEMMA WorkerTraced ==
  ASSUME Assigned, Assigned', Paced, Traced, NEW w \in Workers, WorkerStep(w) PROVE Traced'
<1> USE DEF schedule, outcome, cancelling, bodies, reaper, local
<1>1. CASE TakeTest(w)
  <2>0. /\ nextTest' = nextTest + 1 /\ nextTest \in Nat /\ wpc[w] = "idle"
        /\ \A r \in results : r.test \in Nat
        /\ UNCHANGED <<results, dropped, stopScheduling, body>>
    BY <1>1, NumTestsAssumption DEF TakeTest, Assigned, TypeOK, ResultType, Tests
  <2>1. \A v \in Workers : wpc[v] # "idle" => exec[v][1] \in Nat /\ exec[v][1] < nextTest
    BY DEF Assigned, TypeOK
  <2>2. \A t \in Tests : t < nextTest' => t < nextTest \/ t = nextTest
    BY <2>0 DEF Tests
  <2>3. CASE stopScheduling
    <3>1. UNCHANGED <<wpc, exec>>  BY <1>1, <2>3 DEF TakeTest
    <3>2. \A r \in results : r.test < nextTest'  BY <2>0 DEF Traced
    <3>3. \A t \in Tests, n \in 1..MaxAttempts : t = nextTest => body[<<t, n>>] = "none"
      BY <2>0 DEF Paced, Untouched, Ahead, Tests
    <3>4. \A t \in Tests : t < nextTest' =>
             \/ \E r \in results' : r.test = t
             \/ t \in dropped'
             \/ \E v \in Workers : InHand(v)' /\ exec'[v][1] = t
             \/ stopScheduling' /\ \A n \in 1..MaxAttempts : body'[<<t, n>>] = "none"
      BY <2>0, <2>2, <2>3, <3>1, <3>3 DEF Traced, InHand
    <3> QED BY <2>0, <3>1, <3>2, <3>4 DEF Traced, InHand
  <2>4. CASE ~stopScheduling
    <3>1. /\ wpc'[w] = "enter" /\ exec'[w] = <<nextTest, 1>>
          /\ \A v \in Workers : v # w => wpc'[v] = wpc[v] /\ exec'[v] = exec[v]
      BY <1>1, <2>4 DEF TakeTest, Goto, Assigned, TypeOK
    <3>2. \A r \in results : /\ r.test < nextTest'
                             /\ \A v \in Workers : InHand(v)' => r.test # exec'[v][1]
      BY <2>0, <3>1 DEF Traced, InHand
    <3>3. stopScheduling' \/ (\E v \in Workers : wpc'[v] \in {"stop", "trip"}) =>
            FailFast /\ \E r \in results' : IsFailure(r.verdict.status)
      BY <2>0, <3>1 DEF Traced
    <3>4. InHand(w)' /\ exec'[w][1] = nextTest  BY <3>1 DEF InHand
    <3>5. \A v \in Workers : InHand(v) => InHand(v)' /\ exec'[v] = exec[v]
      BY <2>0, <3>1 DEF InHand
    <3>6. \A t \in Tests : t < nextTest' =>
             \/ \E r \in results' : r.test = t
             \/ t \in dropped'
             \/ \E v \in Workers : InHand(v)' /\ exec'[v][1] = t
             \/ stopScheduling' /\ \A n \in 1..MaxAttempts : body'[<<t, n>>] = "none"
      BY <2>0, <2>2, <2>4, <3>4, <3>5 DEF Traced
    <3> QED BY <2>0, <3>2, <3>3, <3>6 DEF Traced
  <2> QED BY <2>3, <2>4
<1>2. CASE NotExecutable(w)  BY <1>2, TracedMoves DEF NotExecutable, InHand
<1>3. CASE FactoryThrows(w)
  <2>1. /\ wpc[w] = "enter" /\ dropped' = dropped \cup {exec[w][1]}
        /\ UNCHANGED <<nextTest, exec, results, stopScheduling, body>>
    BY <1>3 DEF FactoryThrows
  <2>2. wpc'[w] = "idle" /\ \A v \in Workers : v # w => wpc'[v] = wpc[v]
    BY <1>3 DEF FactoryThrows, Goto, Assigned, TypeOK
  <2>3. \A v \in Workers : InHand(v)' <=> InHand(v) /\ v # w  BY <2>2 DEF InHand
  <2>4. \A v \in Workers : wpc'[v] \in {"stop", "trip"} => wpc[v] \in {"stop", "trip"}
    BY <2>2
  <2> QED BY <2>1, <2>3, <2>4 DEF Traced
<1>4. CASE Register(w)  BY <1>4, TracedMoves DEF Register, InHand
<1>5. CASE LaunchBody(w)
  <2>1. body' = [body EXCEPT ![exec[w]] = "running"] /\ exec[w] \in Executions
    BY <1>5 DEF LaunchBody, Launch, Assigned, TypeOK
  <2>2. \A t \in Tests : t # exec[w][1] =>
           \A n \in 1..MaxAttempts : body'[<<t, n>>] = body[<<t, n>>]
    BY <2>1, ExecutionPair DEF Assigned, TypeOK
  <2>3. InHand(w)  BY <1>5 DEF LaunchBody, Launch, InHand
  <2> QED BY <1>5, <2>2, <2>3, TracedMoves DEF LaunchBody, Launch
<1>6. CASE NotRun(w)  BY <1>6, TracedMoves DEF NotRun, InHand
<1>7. CASE BodyReady(w)  BY <1>7, TracedMoves DEF BodyReady, InHand
<1>8. CASE ForwardRunCancellation(w)
  BY <1>8 DEF ForwardRunCancellation, Traced, InHand
<1>9. CASE DeadlinePasses(w)  BY <1>9, TracedMoves DEF DeadlinePasses, InHand
<1>10. CASE Abandon(w)  BY <1>10, TracedMoves DEF Abandon, InHand
<1>11. CASE JudgeBody(w)  BY <1>11, TracedMoves DEF JudgeBody, InHand
<1>12. CASE Unregister(w)  BY <1>12, TracedMoves DEF Unregister, Withdraw, InHand
<1>13. CASE Retry(w)
  <2>1. \A v \in Workers : exec'[v][1] = exec[v][1]
    BY <1>13 DEF Retry, NextAttempt, Assigned
  <2> QED BY <1>13, <2>1, TracedMoves DEF Retry, NextAttempt, InHand
<1>14. CASE HandleResult(w)
  <2> DEFINE q == ResultOf(w)
  <2>1. /\ wpc[w] = "judged" /\ results' = results \cup {q}
        /\ UNCHANGED <<nextTest, exec, dropped, stopScheduling, body>>
    BY <1>14 DEF HandleResult, Conclude
  <2>2. /\ q.test = exec[w][1] /\ q.verdict = verdict[w]
    BY DEF ResultOf
  <2>3. /\ wpc'[w] = IF FailFast /\ IsFailure(verdict[w].status) THEN "stop" ELSE "idle"
        /\ \A v \in Workers : v # w => wpc'[v] = wpc[v]
    BY <1>14 DEF HandleResult, Conclude, Goto, Assigned, TypeOK
  <2>4. \A v \in Workers : InHand(v)' <=> InHand(v) /\ v # w  BY <2>3 DEF InHand
  <2>5. InHand(w) /\ exec[w][1] < nextTest  BY <2>1 DEF InHand, Assigned
  <2>6. \A v \in Workers : InHand(v)' => exec[v][1] # exec[w][1]
    BY <2>4, <2>5 DEF Assigned, InHand
  <2> HIDE DEF q
  <2>7. \A r \in results' : r.test < nextTest' /\ \A v \in Workers : InHand(v)' => r.test # exec'[v][1]
    BY <2>1, <2>2, <2>4, <2>5, <2>6 DEF Traced
  <2>8. \A r, s \in results' : r.test = s.test => r = s
    BY <2>1, <2>2, <2>5 DEF Traced
  <2>9. stopScheduling' \/ (\E v \in Workers : wpc'[v] \in {"stop", "trip"}) =>
          FailFast /\ \E r \in results' : IsFailure(r.verdict.status)
    BY <2>1, <2>2, <2>3 DEF Traced
  <2>10. \A t \in Tests : t < nextTest' =>
           \/ \E r \in results' : r.test = t
           \/ t \in dropped'
           \/ \E v \in Workers : InHand(v)' /\ exec'[v][1] = t
           \/ stopScheduling' /\ \A n \in 1..MaxAttempts : body'[<<t, n>>] = "none"
    BY <2>1, <2>2, <2>4 DEF Traced
  <2> QED BY <2>7, <2>8, <2>9, <2>10 DEF Traced
<1>15. CASE StopScheduling(w)
  <2>1. /\ wpc[w] = "stop" /\ stopScheduling' = TRUE
        /\ UNCHANGED <<nextTest, exec, results, dropped, body>>
    BY <1>15 DEF StopScheduling
  <2>2. wpc'[w] = "trip" /\ \A v \in Workers : v # w => wpc'[v] = wpc[v]
    BY <1>15 DEF StopScheduling, Goto, Assigned, TypeOK
  <2>3. \A v \in Workers : InHand(v)' <=> InHand(v)  BY <2>1, <2>2 DEF InHand
  <2>4. FailFast /\ \E r \in results : IsFailure(r.verdict.status)  BY <2>1 DEF Traced
  <2> QED BY <2>1, <2>3, <2>4 DEF Traced
<1>16. CASE TripFailFast(w)  BY <1>16, TracedMoves DEF TripFailFast, InHand
<1> QED
  BY <1>1, <1>2, <1>3, <1>4, <1>5, <1>6, <1>7, <1>8, <1>9, <1>10, <1>11, <1>12, <1>13, <1>14,
     <1>15, <1>16 DEF WorkerStep

\* No other step moves a test; a body that ends had started.
LEMMA TracedElsewhere ==
  ASSUME Assigned, Traced, UNCHANGED <<workerState, results, dropped, stopScheduling>>,
         \A e \in Executions : body[e] = "none" => body'[e] = "none"
  PROVE  Traced'
<1>1. \A v \in Workers : InHand(v)' <=> InHand(v)  BY DEF InHand, workerState
<1>2. \A t \in Tests, n \in 1..MaxAttempts : body[<<t, n>>] = "none" => body'[<<t, n>>] = "none"
  BY ExecutionPair
<1> QED BY <1>1, <1>2 DEF Traced, workerState

\* The fourth layer holds always.
LEMMA TracedStep == Assigned /\ Assigned' /\ Paced /\ Traced /\ [Next]_vars => Traced'
<1> SUFFICES ASSUME Assigned, Assigned', Paced, Traced, [Next]_vars PROVE Traced'
  OBVIOUS
<1> USE DEF schedule, outcome, local, bodies, workerState
<1>1. CASE MainStep \/ UNCHANGED vars
  BY <1>1, TracedElsewhere DEF MainStep, BeginRun, Finish, Destroy, Drained, ReapFinished,
     ReapGivesUp, vars
<1>2. ASSUME NEW w \in Workers, WorkerStep(w) PROVE Traced'  BY <1>2, WorkerTraced
<1>3. ASSUME NEW e \in Executions, BodyEnds(e) PROVE Traced'
  <2>1. /\ body[e] = "running" /\ body' = [body EXCEPT ![e] = "done"]
        /\ UNCHANGED <<workerState, results, dropped, stopScheduling>>
    BY <1>3 DEF BodyEnds, ObservesCancellation, EndsWith
  <2>2. \A d \in Executions : body[d] = "none" => body'[d] = "none"
    BY <2>1 DEF Assigned, TypeOK
  <2> QED BY <2>1, <2>2, TracedElsewhere
<1>4. ASSUME NEW c \in Cancellers, RequestCancellation(c) \/ CancelStep(c) PROVE Traced'
  BY <1>4, TracedElsewhere DEF RequestCancellation, CancelStep, CancelAllActive, CancelOne,
     CancelReturns
<1> QED BY <1>1, <1>2, <1>3, <1>4 DEF Next, Terminated

\* It holds initially.
LEMMA TracedInitially == Init => Traced
  BY DEF Init, Traced, InHand, Tests

-----------------------------------------------------------------------------
(* The fifth layer: what the verdicts rest on                              *)

\* A verdict stays backed: a body that ended does not start again, and a run
\* that was cancelled stays cancelled.
LEMMA BackedKept ==
  ASSUME NEW e, NEW v, Backed(e, v), UNCHANGED profile,
         body[e] = "none" => body'[e] = "none",
         body[e] = "done" => body'[e] = "done" /\ bundle'[e] = bundle[e],
         runToken # "none" => runToken' # "none"
  PROVE  Backed(e, v)'
  BY DEF Backed, Untainted

\* Steps that touch no worker and no result.
LEMMA SupportedElsewhere ==
  ASSUME Assigned, Supported, UNCHANGED <<workerState, profile, verdict, results, offered>>,
         \A e \in Executions : /\ body[e] = "none" => body'[e] = "none"
                               /\ body[e] = "done" => body'[e] = "done" /\ bundle'[e] = bundle[e],
         runToken # "none" => runToken' # "none"
  PROVE  Supported'
<1>1. \A w \in Workers : wpc[w] \in {"unregister", "judged"} => exec[w] \in Executions
  BY DEF Assigned, TypeOK
<1>2. \A r \in results : <<r.test, r.attempt>> \in Executions
  BY ExecutionPair DEF Assigned, TypeOK, ResultType
<1>3. \A e \in Executions : \A v : Backed(e, v) => Backed(e, v)'  BY BackedKept
<1>4. \A w \in Workers : wpc'[w] \in {"unregister", "judged"} => Backed(exec[w], verdict[w])'
  BY <1>1, <1>3 DEF Supported, workerState
<1>5. \A r \in results : Backed(<<r.test, r.attempt>>, r.verdict)'
  BY <1>2, <1>3 DEF Supported
<1> QED BY <1>4, <1>5 DEF Supported, workerState, HistoryComplete, InHand

\* Worker w moves on; if it has reached a verdict, that one is backed.
LEMMA SupportedMoves ==
  ASSUME Assigned, Supported, NEW w \in Workers, NEW pc, Goto(w, pc),
         UNCHANGED <<exec, profile, results, offered, body, bundle>>,
         runToken # "none" => runToken' # "none",
         \A v \in Workers : v # w => verdict'[v] = verdict[v],
         pc \in {"unregister", "judged"} => Backed(exec[w], verdict'[w]),
         pc \in {"idle", "stop", "trip"} \/ InHand(w)
  PROVE  Supported'
<1>1. wpc'[w] = pc /\ \A v \in Workers : v # w => wpc'[v] = wpc[v]
  BY DEF Assigned, TypeOK, Goto
<1>2. \A e, v : Backed(e, v) => Backed(e, v)'  BY DEF Backed, Untainted
<1>3. \A v \in Workers : wpc'[v] \in {"unregister", "judged"} => Backed(exec[v], verdict'[v])
  BY <1>1 DEF Supported
<1>4. \A v \in Workers : wpc'[v] \in {"unregister", "judged"} => Backed(exec[v], verdict[v])'
  BY <1>3 DEF Backed, Untainted
<1>5. \A r \in results : Backed(<<r.test, r.attempt>>, r.verdict)'
  BY <1>2 DEF Supported
<1>6. \A v \in Workers : InHand(v)' => InHand(v)  BY <1>1 DEF InHand
<1> QED BY <1>4, <1>5, <1>6 DEF Supported, HistoryComplete

\* What a worker concludes from a body that has ended is backed.
LEMMA JudgedBacked ==
  ASSUME Assigned, Paced, NEW w \in Workers, JudgeBody(w) PROVE Backed(exec[w], verdict'[w])
<1> DEFINE e == exec[w]
           b == bundle[e]
           late == deadlineExceeded[w]
           cancelled == token[e] # "none" /\ ~late
           v == Judge(b.verdict, b.metadata, late, cancelled)
<1>1. e \in Executions /\ b \in Bundles /\ late \in BOOLEAN /\ wpc[w] = "judge"
  BY DEF JudgeBody, Assigned, TypeOK
<1>2. b.verdict \in Verdicts /\ b.metadata \in Metadata /\ cancelled \in BOOLEAN
  BY <1>1 DEF Bundles
<1>3. /\ late => v.status = "Timeout"
      /\ ~late /\ cancelled => v.status = "Skipped"
      /\ ~late /\ ~cancelled => v.status = b.verdict.status
  <2> HIDE DEF b, late, cancelled
  <2> QED BY <1>1, <1>2, JudgeType
<1>4. verdict'[w] = v  BY DEF JudgeBody, Assigned, TypeOK
<1>5. body[e] = "done"  BY <1>1 DEF Paced, NoTornRead
<1>6. token[e] = "none" => ~b.tainted  BY <1>1, <1>5 DEF Paced, ReasonsKnown
<1>7. ~late /\ cancelled => runToken # "none"
  BY <1>1 DEF Paced, ReasonsKnown, Waiting
<1> HIDE DEF v, late
<1>8. CASE late  BY <1>3, <1>4, <1>8 DEF Backed
<1>9. CASE ~late /\ cancelled  BY <1>3, <1>4, <1>7, <1>9 DEF Backed
<1>10. CASE ~late /\ ~cancelled
  <2>1. Untainted(e)  BY <1>5, <1>6, <1>10 DEF Untainted
  <2> QED BY <1>3, <1>4, <1>10, <2>1 DEF Backed
<1> QED BY <1>8, <1>9, <1>10

\* Every step of a worker keeps the fifth layer.
LEMMA WorkerSupported ==
  ASSUME Assigned, Assigned', Paced, Traced, Supported, NEW w \in Workers, WorkerStep(w)
  PROVE  Supported'
<1> USE DEF schedule, outcome, cancelling, bodies, reaper, local
<1>0. \A pc : Goto(w, pc) => wpc'[w] = pc /\ \A v \in Workers : v # w => wpc'[v] = wpc[v]
  BY DEF Assigned, TypeOK, Goto
<1>1. CASE TakeTest(w)
  <2>1. wpc[w] = "idle" /\ UNCHANGED <<profile, results, offered, body, bundle, verdict, runToken>>
    BY <1>1 DEF TakeTest
  <2>2. \A e, v : Backed(e, v) => Backed(e, v)'  BY <2>1 DEF Backed, Untainted
  <2>3. CASE stopScheduling
    <3>1. UNCHANGED <<wpc, exec>>  BY <1>1, <2>3 DEF TakeTest
    <3> QED BY <2>1, <3>1 DEF Supported, HistoryComplete, InHand, Backed, Untainted
  <2>4. CASE ~stopScheduling
    <3>1. /\ wpc'[w] = "enter" /\ exec'[w] = <<nextTest, 1>>
          /\ \A v \in Workers : v # w => wpc'[v] = wpc[v] /\ exec'[v] = exec[v]
      BY <1>1, <2>4 DEF TakeTest, Goto, Assigned, TypeOK
    <3>2. \A v \in Workers : wpc'[v] \in {"unregister", "judged"} => Backed(exec[v], verdict[v])'
      BY <2>1, <3>1 DEF Supported, Backed, Untainted
    <3>3. \A v \in Workers : v # w /\ InHand(v)' => InHand(v) /\ exec'[v] = exec[v]
      BY <3>1 DEF InHand
    <3>4. \A v \in Workers : InHand(v)' => \A n \in 1..MaxAttempts :
             n < exec'[v][2] => <<exec'[v][1], n>> \in offered
      BY <3>1, <3>3, AttemptsPositive DEF Supported
    <3> QED BY <2>1, <2>2, <3>2, <3>4 DEF Supported, HistoryComplete
  <2> QED BY <2>3, <2>4
<1>2. CASE NotExecutable(w)
  <2>1. exec[w] \in Executions /\ wpc[w] = "enter"
    BY <1>2 DEF NotExecutable, Assigned, TypeOK
  <2>2. Ahead(exec[w][1], exec[w][2])  BY <2>1 DEF Ahead, InHand
  <2>3. body[exec[w]] = "none"  BY <2>1, <2>2, ExecutionPair DEF Paced, Untouched
  <2>4. Backed(exec[w], verdict'[w])
    BY <1>2, <2>3 DEF NotExecutable, Backed, Verdict, Profile, Assigned, TypeOK
  <2>5. \A v \in Workers : v # w => verdict'[v] = verdict[v]
    BY <1>2 DEF NotExecutable, Assigned, TypeOK
  <2> QED BY <1>2, <2>4, <2>5, SupportedMoves DEF NotExecutable, InHand
<1>3. CASE FactoryThrows(w)  BY <1>3, SupportedMoves DEF FactoryThrows
<1>4. CASE Register(w)  BY <1>4, SupportedMoves DEF Register, InHand
<1>5. CASE LaunchBody(w)
  <2>1. /\ body' = [body EXCEPT ![exec[w]] = "running"] /\ exec[w] \in Executions /\ wpc[w] = "check"
        /\ UNCHANGED <<exec, profile, results, offered, verdict, runToken, bundle>>
    BY <1>5 DEF LaunchBody, Launch, Assigned, TypeOK
  <2>2. /\ wpc'[w] \in {"await", "inline"} /\ \A v \in Workers : v # w => wpc'[v] = wpc[v]
    BY <1>5, <1>0 DEF LaunchBody, Launch
  <2>3. \A e \in Executions : e # exec[w] => body'[e] = body[e]  BY <2>1 DEF Assigned, TypeOK
  <2>4. \A e \in Executions : \A v : e # exec[w] /\ Backed(e, v) => Backed(e, v)'
    BY <2>1, <2>3 DEF Backed, Untainted
  <2>5. \A v \in Workers : wpc'[v] \in {"unregister", "judged"} =>
           v # w /\ exec[v] \in Executions /\ exec[v] # exec[w]
    BY <2>1, <2>2 DEF Assigned, TypeOK
  <2>6. \A v \in Workers : wpc'[v] \in {"unregister", "judged"} => Backed(exec[v], verdict[v])'
    BY <2>1, <2>2, <2>4, <2>5 DEF Supported
  <2>7. \A r \in results : <<r.test, r.attempt>> \in Executions /\ <<r.test, r.attempt>> # exec[w]
    <3> TAKE r \in results
    <3>1. r.test \in Tests /\ r.attempt \in 1..MaxAttempts  BY DEF Assigned, TypeOK, ResultType
    <3>2. r.test # exec[w][1]  BY <2>1 DEF Traced, InHand
    <3>3. <<r.test, r.attempt>>[1] = r.test  OBVIOUS
    <3> QED BY <3>1, <3>2, <3>3, ExecutionPair
  <2>8. \A v \in Workers : InHand(v)' <=> InHand(v)  BY <2>1, <2>2 DEF InHand
  <2> QED BY <2>1, <2>4, <2>6, <2>7, <2>8 DEF Supported, HistoryComplete
<1>6. CASE NotRun(w)
  <2>1. Backed(exec[w], verdict'[w])
    BY <1>6 DEF NotRun, Backed, Verdict, Assigned, TypeOK
  <2>2. \A v \in Workers : v # w => verdict'[v] = verdict[v]
    BY <1>6 DEF NotRun, Assigned, TypeOK
  <2> QED BY <1>6, <2>1, <2>2, SupportedMoves DEF NotRun, InHand
<1>7. CASE BodyReady(w)  BY <1>7, SupportedMoves DEF BodyReady, InHand
<1>8. CASE ForwardRunCancellation(w)
  BY <1>8, SupportedElsewhere DEF ForwardRunCancellation, workerState
<1>9. CASE DeadlinePasses(w)  BY <1>9, SupportedMoves DEF DeadlinePasses, InHand
<1>10. CASE Abandon(w)
  <2>1. Backed(exec[w], verdict'[w])
    BY <1>10 DEF Abandon, Backed, Verdict, Assigned, TypeOK
  <2>2. \A v \in Workers : v # w => verdict'[v] = verdict[v]
    BY <1>10 DEF Abandon, Assigned, TypeOK
  <2> QED BY <1>10, <2>1, <2>2, SupportedMoves DEF Abandon, InHand
<1>11. CASE JudgeBody(w)
  <2>1. \A v \in Workers : v # w => verdict'[v] = verdict[v]
    BY <1>11 DEF JudgeBody, Assigned, TypeOK
  <2> QED BY <1>11, <2>1, JudgedBacked, SupportedMoves DEF JudgeBody, InHand
<1>12. CASE Unregister(w)
  <2>1. Backed(exec[w], verdict'[w])
    BY <1>12 DEF Unregister, Withdraw, Supported
  <2> QED BY <1>12, <2>1, SupportedMoves DEF Unregister, Withdraw, InHand
<1>13. CASE Retry(w)
  <2>1. /\ wpc[w] = "judged" /\ offered' = offered \cup {exec[w]}
        /\ UNCHANGED <<profile, results, body, bundle, runToken>>
    BY <1>13 DEF Retry, Save
  <2>2. /\ wpc'[w] = "enter" /\ exec'[w] = <<exec[w][1], exec[w][2] + 1>>
        /\ \A v \in Workers : v # w => wpc'[v] = wpc[v] /\ exec'[v] = exec[v] /\ verdict'[v] = verdict[v]
    BY <1>13 DEF Retry, NextAttempt, Goto, Assigned, TypeOK
  <2>3. exec[w] \in Executions /\ exec[w] = <<exec[w][1], exec[w][2]>> /\ exec[w][2] \in Nat
    BY <2>1, ExecutionPair DEF Assigned, TypeOK
  <2>4. \A e, v : Backed(e, v) => Backed(e, v)'  BY <2>1 DEF Backed, Untainted
  <2>5. \A v \in Workers : wpc'[v] \in {"unregister", "judged"} => Backed(exec[v], verdict[v])'
    BY <2>1, <2>2 DEF Supported, Backed, Untainted
  <2>6. \A v \in Workers : v # w /\ InHand(v)' => InHand(v)  BY <2>2 DEF InHand
  <2>7. \A n \in 1..MaxAttempts : n < exec'[w][2] => <<exec'[w][1], n>> \in offered'
    <3> SUFFICES ASSUME NEW n \in 1..MaxAttempts, n < exec[w][2] + 1
                 PROVE  <<exec[w][1], n>> \in offered'
      BY <2>2
    <3>1. CASE n = exec[w][2]  BY <2>1, <2>3, <3>1
    <3>2. CASE n < exec[w][2]  BY <2>1, <3>2 DEF Supported, InHand
    <3> QED BY <2>3, <3>1, <3>2
  <2> QED BY <2>1, <2>2, <2>4, <2>5, <2>6, <2>7 DEF Supported, HistoryComplete
<1>14. CASE HandleResult(w)
  <2> DEFINE q == ResultOf(w)
  <2>1. /\ wpc[w] = "judged" /\ results' = results \cup {q} /\ offered' = offered \cup {exec[w]}
        /\ UNCHANGED <<exec, profile, body, bundle, runToken>>
    BY <1>14 DEF HandleResult, Conclude, Save
  <2>2. q.test = exec[w][1] /\ q.attempt = exec[w][2] /\ q.verdict = verdict[w]
    BY DEF ResultOf
  <2>3. /\ wpc'[w] \in {"stop", "idle"}
        /\ \A v \in Workers : v # w => wpc'[v] = wpc[v] /\ verdict'[v] = verdict[v]
    BY <1>14, <1>0 DEF HandleResult, Conclude, Assigned, TypeOK
  <2>4. /\ exec[w] \in Executions /\ exec[w] = <<exec[w][1], exec[w][2]>>
        /\ exec[w][2] \in 1..MaxAttempts
    BY <2>1, ExecutionPair DEF Assigned, TypeOK
  <2> HIDE DEF q
  <2>5. \A e, v : Backed(e, v) => Backed(e, v)'  BY <2>1 DEF Backed, Untainted
  <2>6. \A v \in Workers : wpc'[v] \in {"unregister", "judged"} => Backed(exec[v], verdict[v])'
    BY <2>1, <2>3 DEF Supported, Backed, Untainted
  <2>7. Backed(<<q.test, q.attempt>>, q.verdict)  BY <2>1, <2>2, <2>4 DEF Supported
  <2>8. \A r \in results' : Backed(<<r.test, r.attempt>>, r.verdict)'
    BY <2>1, <2>5, <2>7 DEF Supported
  <2>9. \A v \in Workers : InHand(v)' => InHand(v)  BY <2>1, <2>3 DEF InHand
  <2>10. \A n \in 1..q.attempt : <<q.test, n>> \in offered'
    <3> SUFFICES ASSUME NEW n \in 1..exec[w][2] PROVE <<exec[w][1], n>> \in offered'
      BY <2>2
    <3>1. n \in 1..MaxAttempts  BY <2>4, AttemptsPositive
    <3>2. CASE n = exec[w][2]  BY <2>1, <2>4, <3>2
    <3>3. CASE n < exec[w][2]  BY <2>1, <3>1, <3>3 DEF Supported, InHand
    <3> QED BY <2>4, <3>2, <3>3
  <2>11. HistoryComplete'  BY <2>1, <2>10 DEF Supported, HistoryComplete
  <2> QED BY <2>1, <2>6, <2>8, <2>9, <2>11 DEF Supported
<1>15. CASE StopScheduling(w)  BY <1>15, SupportedMoves DEF StopScheduling
<1>16. CASE TripFailFast(w)  BY <1>16, SupportedMoves DEF TripFailFast, Cancel
<1> QED
  BY <1>1, <1>2, <1>3, <1>4, <1>5, <1>6, <1>7, <1>8, <1>9, <1>10, <1>11, <1>12, <1>13, <1>14,
     <1>15, <1>16 DEF WorkerStep

\* The fifth layer holds always.
LEMMA SupportedStep ==
  Assigned /\ Assigned' /\ Paced /\ Traced /\ Supported /\ [Next]_vars => Supported'
<1> SUFFICES ASSUME Assigned, Assigned', Paced, Traced, Supported, [Next]_vars PROVE Supported'
  OBVIOUS
<1> USE DEF schedule, outcome, local, bodies, workerState
<1>1. CASE MainStep \/ UNCHANGED vars
  BY <1>1, SupportedElsewhere DEF MainStep, BeginRun, Finish, Destroy, Drained, ReapFinished,
     ReapGivesUp, vars
<1>2. ASSUME NEW w \in Workers, WorkerStep(w) PROVE Supported'  BY <1>2, WorkerSupported
<1>3. ASSUME NEW e \in Executions, BodyEnds(e) PROVE Supported'
  <2>1. PICK o : EndsWith(e, o)  BY <1>3 DEF BodyEnds, ObservesCancellation
  <2>2. \A d \in Executions : /\ body[d] = "none" => body'[d] = "none"
                              /\ body[d] = "done" => body'[d] = "done" /\ bundle'[d] = bundle[d]
    BY <2>1 DEF EndsWith, Assigned, TypeOK
  <2> QED BY <2>1, <2>2, SupportedElsewhere DEF EndsWith
<1>4. ASSUME NEW c \in Cancellers, RequestCancellation(c) \/ CancelStep(c) PROVE Supported'
  BY <1>4, SupportedElsewhere DEF RequestCancellation, CancelStep, CancelAllActive, CancelOne,
     CancelReturns, Cancel
<1> QED BY <1>1, <1>2, <1>3, <1>4 DEF Next, Terminated

\* It holds initially.
LEMMA SupportedInitially == Init => Supported
  BY DEF Init, Supported, InHand, HistoryComplete

-----------------------------------------------------------------------------
(* The end of the run                                                      *)

\* Once there is an exit code, no worker takes a step.
LEMMA SettledStep == Assigned /\ Settled /\ [Next]_vars => Settled'
<1> SUFFICES ASSUME Assigned, Settled, [Next]_vars PROVE Settled'
  OBVIOUS
<1> USE DEF schedule, outcome, local
<1>1. CASE MainStep \/ UNCHANGED vars
  BY <1>1 DEF Settled, MainStep, BeginRun, Finish, Destroy, Drained, ReapFinished, ReapGivesUp,
     vars
<1>2. ASSUME NEW w \in Workers, WorkerStep(w) PROVE Settled'
  <2>1. exitCode' = exitCode
    BY <1>2 DEF WorkerStep, TakeTest, NotExecutable, FactoryThrows, Register, LaunchBody, Launch,
       NotRun, BodyReady, ForwardRunCancellation, DeadlinePasses, Abandon, JudgeBody, Unregister,
       Withdraw, Retry, HandleResult, Conclude, StopScheduling, TripFailFast
  <2>2. exitCode = -1
    BY <1>2 DEF Settled, WorkerStep, TakeTest, NotExecutable, FactoryThrows, Register, LaunchBody,
       Launch, NotRun, BodyReady, ForwardRunCancellation, DeadlinePasses, Abandon, JudgeBody,
       Unregister, Withdraw, Retry, HandleResult, Conclude, StopScheduling, TripFailFast
  <2> QED BY <2>1, <2>2 DEF Settled
<1>3. ASSUME NEW e \in Executions, BodyEnds(e) PROVE Settled'
  BY <1>3 DEF Settled, BodyEnds, ObservesCancellation, EndsWith
<1>4. ASSUME NEW c \in Cancellers, RequestCancellation(c) \/ CancelStep(c) PROVE Settled'
  BY <1>4 DEF Settled, RequestCancellation, CancelStep, CancelAllActive, CancelOne, CancelReturns
<1> QED BY <1>1, <1>2, <1>3, <1>4 DEF Next, Terminated

\* The code is 0 only for a run that was not cancelled and has no failure.
LEMMA ZeroExit ==
  ASSUME NEW verdicts, NEW cancelled \in BOOLEAN, ExitCode(verdicts, cancelled) = 0
  PROVE  ~cancelled /\ \A v \in verdicts : ~IsFailure(v.status)
  BY DEF ExitCode

\* What 0 stands for, when the code is computed and from then on.
LEMMA ZeroStep ==
  /\ Assigned /\ Traced /\ Supported /\ Settled /\ ZeroMeansVerified /\ [Next]_vars
  => ZeroMeansVerified'
<1> SUFFICES ASSUME Assigned, Traced, Supported, Settled, ZeroMeansVerified, [Next]_vars,
                    exitCode' = 0
             PROVE  ZeroMeansVerified'
  BY DEF ZeroMeansVerified
<1> USE DEF schedule, outcome, local, bodies
<1>1. CASE Finish
  <2>0. /\ exitCode' = ExitCode({r.verdict : r \in results}, runToken # "none")
        /\ nextTest > NumTests /\ \A w \in Workers : wpc[w] = "idle"
        /\ UNCHANGED <<profile, dropped, results, body, bundle>>
    BY <1>1 DEF Finish
  <2>1. /\ runToken = "none"
        /\ \A v \in {r.verdict : r \in results} : ~IsFailure(v.status)
    BY <2>0, ZeroExit
  <2>2. \A r \in results : ~IsFailure(r.verdict.status)  BY <2>1
  <2>3. \A r \in results : r.verdict.status \in {"Passed", "Skipped"}
    BY <2>2 DEF Assigned, TypeOK, ResultType, Verdicts, Statuses, IsFailure
  <2>4. ASSUME NEW t \in Tests, profile[t].enabled, t \notin dropped
        PROVE  \E r \in results : /\ r.test = t
                                  /\ body[<<t, r.attempt>>] = "done"
                                  /\ ~bundle[<<t, r.attempt>>].tainted
                                  /\ bundle[<<t, r.attempt>>].verdict.status = r.verdict.status
                                  /\ r.verdict.status \in {"Passed", "Skipped"}
    <3>1. t < nextTest  BY <2>0, NumTestsAssumption DEF Tests, Assigned, TypeOK
    <3>2. PICK r \in results : r.test = t
      BY <2>0, <2>2, <2>4, <3>1 DEF Traced, InHand
    <3>3. Backed(<<t, r.attempt>>, r.verdict)  BY <3>2 DEF Supported
    <3>4. <<t, r.attempt>>[1] = t  OBVIOUS
    <3> QED BY <2>1, <2>3, <2>4, <3>2, <3>3, <3>4 DEF Backed, Untainted
  <2> QED BY <2>0, <2>4 DEF ZeroMeansVerified
<1>2. CASE ~Finish
  <2>1. /\ exitCode = 0 /\ UNCHANGED <<profile, dropped, results>>
        /\ \A e \in Executions : body[e] = "done" => body'[e] = "done" /\ bundle'[e] = bundle[e]
    <3>1. ASSUME NEW w \in Workers, WorkerStep(w) PROVE FALSE
      <4>1. exitCode' = exitCode
        BY <3>1 DEF WorkerStep, TakeTest, NotExecutable, FactoryThrows, Register, LaunchBody,
           Launch, NotRun, BodyReady, ForwardRunCancellation, DeadlinePasses, Abandon, JudgeBody,
           Unregister, Withdraw, Retry, HandleResult, Conclude, StopScheduling, TripFailFast
      <4> QED
        BY <3>1, <4>1 DEF Settled, WorkerStep, TakeTest, NotExecutable, FactoryThrows, Register,
           LaunchBody, Launch, NotRun, BodyReady, ForwardRunCancellation, DeadlinePasses, Abandon,
           JudgeBody, Unregister, Withdraw, Retry, HandleResult, Conclude, StopScheduling,
           TripFailFast
    <3>2. CASE MainStep \/ UNCHANGED vars
      BY <1>2, <3>2 DEF MainStep, BeginRun, Destroy, Drained, ReapFinished, ReapGivesUp, vars
    <3>3. ASSUME NEW e \in Executions, BodyEnds(e)
          PROVE  /\ UNCHANGED <<exitCode, profile, dropped, results>>
                 /\ \A d \in Executions :
                      body[d] = "done" => body'[d] = "done" /\ bundle'[d] = bundle[d]
      <4>1. PICK o : EndsWith(e, o)  BY <3>3 DEF BodyEnds, ObservesCancellation
      <4> QED BY <4>1 DEF EndsWith, Assigned, TypeOK
    <3>4. ASSUME NEW c \in Cancellers, RequestCancellation(c) \/ CancelStep(c)
          PROVE  UNCHANGED <<exitCode, profile, dropped, results, body, bundle>>
      BY <3>4 DEF RequestCancellation, CancelStep, CancelAllActive, CancelOne, CancelReturns
    <3> QED BY <3>1, <3>2, <3>3, <3>4 DEF Next, Terminated
  <2>2. \A r \in results : <<r.test, r.attempt>> \in Executions
    BY ExecutionPair DEF Assigned, TypeOK, ResultType
  <2> SUFFICES ASSUME NEW t \in Tests, profile[t].enabled, t \notin dropped
               PROVE  \E r \in results : /\ r.test = t
                                         /\ body'[<<t, r.attempt>>] = "done"
                                         /\ ~bundle'[<<t, r.attempt>>].tainted
                                         /\ bundle'[<<t, r.attempt>>].verdict.status = r.verdict.status
                                         /\ r.verdict.status \in {"Passed", "Skipped"}
    BY <2>1 DEF ZeroMeansVerified
  <2>3. PICK r \in results : /\ r.test = t
                             /\ body[<<t, r.attempt>>] = "done"
                             /\ ~bundle[<<t, r.attempt>>].tainted
                             /\ bundle[<<t, r.attempt>>].verdict.status = r.verdict.status
                             /\ r.verdict.status \in {"Passed", "Skipped"}
    BY <2>1 DEF ZeroMeansVerified
  <2>4. <<t, r.attempt>> \in Executions  BY <2>2, <2>3
  <2> QED BY <2>1, <2>3, <2>4
<1> QED BY <1>1, <1>2

\* All layers together, always.
LEMMA RunAlways == Spec => []RunInv
<1>1. Init => RunInv
  BY AssignedInitially, WalkedInitially, PacedInitially, TracedInitially, SupportedInitially
     DEF RunInv, Init, Settled, ZeroMeansVerified
<1>2. RunInv /\ [Next]_vars => RunInv'
  BY AssignedStep, WalkedStep, PacedStep, TracedStep, SupportedStep, SettledStep, ZeroStep
     DEF RunInv
<1> QED BY <1>1, <1>2, PTL DEF Spec

\* A verdict that a test reached after its cancellation is never reported as the
\* test's own, however the deadline, the run's cancellation, the grace period
\* and the retries fall.
THEOREM LateVerdictsAlwaysDiscarded == Spec => []LateVerdictsDiscarded
<1>1. RunInv => LateVerdictsDiscarded
  BY DEF RunInv, Supported, Backed, Untainted, LateVerdictsDiscarded
<1> QED BY <1>1, RunAlways, PTL

\* Every selected test has exactly one result, or was dropped by its factory, or
\* was kept from starting by a failure that is reported.
THEOREM TestsAccountedFor == Spec => []EveryTestAccountedFor
<1>1. RunInv => EveryTestAccountedFor
  <2> SUFFICES ASSUME RunInv, exitCode # -1, NEW t \in Tests
               PROVE  LET mine == {r \in results : r.test = t}
                      IN \/ Cardinality(mine) = 1
                         \/ mine = {} /\ t \in dropped
                         \/ /\ mine = {} /\ FailFast
                            /\ \A n \in 1..MaxAttempts : body[<<t, n>>] = "none"
                            /\ \E r \in results : IsFailure(r.verdict.status)
    BY DEF EveryTestAccountedFor
  <2> DEFINE mine == {r \in results : r.test = t}
  <2>1. CASE mine # {}
    <3>1. PICK r \in mine : TRUE  BY <2>1
    <3>2. mine = {r}  BY <3>1 DEF RunInv, Traced
    <3>3. Cardinality(mine) = 1  BY <3>2, FS_Singleton
    <3> QED BY <3>3
  <2>2. CASE mine = {}
    <3>1. t < nextTest  BY NumTestsAssumption DEF RunInv, Settled, Assigned, TypeOK, Tests
    <3>2. \A w \in Workers : ~InHand(w)  BY DEF RunInv, Settled, InHand
    <3> QED BY <2>2, <3>1, <3>2 DEF RunInv, Traced
  <2> QED BY <2>1, <2>2
<1> QED BY <1>1, RunAlways, PTL

\* Exit code 0 means that every enabled test whose factory worked ran to its
\* end, uncancelled, and itself said it passed or had to be skipped.
THEOREM ZeroIsVerified == Spec => []ZeroMeansVerified
<1>1. RunInv => ZeroMeansVerified  BY DEF RunInv
<1> QED BY <1>1, RunAlways, PTL

\* Every attempt behind a result was offered to the repository, and every body
\* that still runs is waited for, on the reaper's list, or was reported.
THEOREM NothingIsForgotten == Spec => []NothingForgotten
<1>1. RunInv => NothingForgotten
  BY DEF RunInv, Supported, Paced, NothingForgotten
<1> QED BY <1>1, RunAlways, PTL
=============================================================================
