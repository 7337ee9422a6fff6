# TestForge in TLA+

A specification of TestForge, a C++20 test runner with a REST server, a history
database and generated tests. TLC checks the modules on small instances; TLAPS
proves their safety properties, all but one, for every value of the constants:
that the thread pool implements its abstract specification, and that the command
and the server implement the service's.

## The system

| Part | State | Operations | Hard part |
|---|---|---|---|
| `ThreadPool` | task queue, `pending_`, `stopping_`, `discardQueued_`, `joined_` | `submit`, `waitIdle`, `shutdown`, `shutdownNow` | condition variables notified after the unlock, two kinds of shutdown from several threads |
| `TestRunner`, `CancellationSource` | run's source, active tests, reaper, results | `run`, `runOne`, `requestCancellation`, destructor | bodies on helper threads that may outlive their worker; deadline, grace, fail-fast and Ctrl-C race each other |
| `FailureClassifier`, `TestResult` | none | exception to verdict, refinement by metadata, `exitCode` | ranking of contradictory evidence |
| `TestForgeService` | `runMutex_`, `running_`, `cancelMutex_`, `activeRunner_` | `run`, `requestCancellation` | a raw pointer shared between threads |
| CLI (`main`, `CommandLine`, `Commands`, `Interrupt`) | `gSignal`, watcher thread | `run`, `serve`, queries | a signal may arrive at any moment; options that widen a filter |
| `HttpServer`, `RestApiServer` | routes, listening socket, `inFlight`, pool | `start`, `stop`, `wait`, handlers | shutdown while connections are served |
| `SqliteResultRepository` | runs, results, events, schema version | `migrate`, `beginRun`, `saveResult`, `completeRun`, queries, `pruneOlderThan` | several processes on one file, one of which dies |
| `ProcessRunner`, diagnostics | a child, two pipes, a deadline | `run`, `collectForFailure` | exit, output, deadline and kill in any order |
| `HttpClient`, `Url`, `UrlPolicy` | one connection, a chain of redirects | `send` | servers that stall, cut, redirect |
| `ApiTestCase`, `SpecTestCase`, `Assertions` | metadata, soft scopes | requests, checks, `verify` | which failure a test ends with |
| `TestRegistry`, `TestSelector`, AI validation | registered tests | register, replace, select, validate | registration while a run is in progress |
| `Config`, `Environment` | settings | layering, narrowing, `validate` | five layers with their own ideas of a usable value |
| Reporting, `TestResult` statistics | files of a report directory | write each report, `report` | five renderings of one run that must agree, also when one fails |
| `Logger`, `Json`, `Clock`, `Ids` | | | text |

Calls go downward: CLI or REST handler, service, runner, pool. A handler runs
on a worker of the HTTP server's own pool. Cancellation goes the other way
round the call stack, from the watcher thread through `activeRunner_` to the
run's source and the sources of the active tests. A runner offers every result
to the repository and, for a failure, collects diagnostics through child
processes. Generated tests come from the AI provider over the HTTP client, pass
the validator and are registered beside the built-in ones.

What makes the parts correct: no task, result, wakeup, descriptor or thread is
lost; a bundle is never read while a body writes it; a pointer to a stack object
is never used after the object died; a cancelled or late verdict is never passed
off as the test's own; the exit code tells whether everything was verified; what
was acknowledged as stored survives; an incomplete answer or output is never
taken for a complete one; and every call returns.

## Modules

Concurrent core:

* **TaskLedger** is what a pool promises to the outside: a task is refused only
  once the pool is closed; an accepted task is started at most once and then
  finished, or dropped only after `shutdownNow()`; never more tasks run than
  there are workers; and once a shutdown call has joined, nothing is left over.
* **ThreadPool** has a program counter per worker and per caller. An action is
  what one thread does between two points where another may interfere: under
  `mutex_`, at a notification after the unlock, at a join. `workAvailable_` and
  `idle_` are represented by the threads that sleep on them; a sleeper may also
  wake spuriously. `KeepsLedger` states that it implements TaskLedger.
* **Verdicts** holds pure parts: `FromException`, `Refine`, `Override` and
  `ExitCode`. A message is represented by the category its first matching signal
  stands for.
* **TestRunner** extends Verdicts. An execution `<<t, n>>` is the n-th attempt
  at test t; it has a cancellation source, a body and a bundle. Workers go
  through `runOne()`: publish the source, look at the run's cancellation, start
  the body, wait in slices, cancel at the deadline, wait for the grace period,
  abandon or judge, withdraw the source, retry or conclude. Cancellers are
  threads in `requestCancellation()`, which walks the active sources one by one
  under `activeMutex`. The tests' behaviour is a `profile`: disabled or not,
  what the factory does, deadline or none, and whether the body ends by itself,
  once cancelled, or as it likes. **MCTestRunner** has the sets of profiles and
  outcomes.
* **TestForgeService** composes clients of `run()` and callers of
  `requestCancellation()`; the runner inside is reduced to tests left, verdicts
  so far and whether it was cancelled. **RunCommand** extends it with the main
  thread, the signal handler, the watcher and the exit code; **RunsEndpoint**
  with the handlers of `POST /api/runs`.

Server and storage:

* **HttpServer** has the acceptor, the connections, the workers (through the
  promises of TaskLedger), callers of `stop()` and of `wait()`. **RestServer**
  composes it with RunsEndpoint into `testforge serve`: a connection that carries
  `POST /api/runs` occupies its worker for as long as the service's mutex makes
  it wait. **HttpRequests** holds what one request decides: refusals while
  reading, routes, static files, statuses.
* **ResultRepository** has the committed file, at most one open transaction and
  the sessions that record a run each: open, read the version, migrate, begin,
  save every attempt, complete. Any write may fail and any session may die
  between two statements. `Pruner` is `db --prune`; `reader` is `loadRun()`, which
  reads under two locks. The queries are operators on the file.

External world:

* **ProcessRunner** has the loop of `run()`, the child from `fork()` to
  `waitpid()`, a helper the child may leave behind with the pipe open, and the
  clock. A dead child may also be waited for by somebody else, so that `waitpid()`
  fails. **Diagnostics** calls it for one command after the other and keeps what
  it concludes from each.
* **Url** has parsing, joining, escapes and `UrlPolicy` over URLs made of tokens,
  with bracketed IPv6 literals.
  **HttpClient** is one `send()` with its hops against a server that does as it
  likes. **HttpCallers** puts the API test case, the AI provider and a bare caller
  on top. Servers cut a reply anywhere, but the chunks they send are well formed:
  the error at HttpClient.cpp:542 does not occur.

Decisions:

* **SpecValidation** turns a document into a suite and validates it: names, methods,
  endpoints and headers in combination, and every limit of `validateOne()` on
  statuses, budgets, bodies, headers and assertions with the last value it permits
  and the first it does not;
  **Selection** is `TestSelector`; **TestCatalogue** interleaves registrations of
  suites with a run that selects and then creates tests by name.
* **Assertions** has checks, nested soft scopes and the evaluation of a generated
  test; **Reports** the statistics of a run, its way to JSON and back, the numbers
  each report shows and the files `ReportWriter` leaves when a reporter throws or
  a disk is full; **Settings** the layers of the configuration; **CommandLine** the parser,
  the filter it makes and the dispatch of `main()`; **Globs** the iterative
  matcher. **MCDecisions** evaluates these, `Url`, `HttpRequests` and `Verdicts`
  on bounded inputs and compares them with definitions that do not follow the
  code's steps.

Proofs are in **ThreadPoolProofs**, **TestRunnerProofs**, **ServiceProofs**
(service, command and server), **ResultRepositoryProofs**, **DiagnosticsProofs**,
**HttpCallersProofs**, **DecisionsProofs** (catalogue, validation, URLs, verdicts,
checks) and **CommandProofs** (settings, routes, globs, shards, the command line).

Definitions whose names begin with `Bug` are deliberately wrong versions of the
definition that follows them. They are not part of any specification: put in
place of the right version, each makes one property fail, which shows that the
property depends on that piece of code.

## Runs

| Run | Question | Properties |
|---|---|---|
| `pool` | Do the pool's counts, wakeups, promises and joins stay exact, does it implement TaskLedger, and does every future settle and every call return? | `WakeupsExact`, `OneOwnerPerPromise`, `JoinSafe`, `KeepsLedger`, `CallersReturn` |
| `runner` | With fail-fast and `requestCancellation()` racing two workers: is every cancellation delivered, every source alive when walked, every bundle complete when read, every late verdict discarded, every test accounted for? Does a run end whatever its bounded tests do, and a cancelled run whatever cooperative tests do? | `CancellationSafe`, `LateVerdictsDiscarded`, `EveryTestAccountedFor`, `RunsEnd` |
| `runner_retry` | With up to three attempts on the sequential path, and factories that return nothing or throw: is every attempt recorded and every thread known, and is exit code 0 honest? | `ZeroMeansVerified`, `NothingForgotten` |
| `run_command` | With a signal at any moment: does the process end with an honest exit code, and is a dead runner never used? | `CancelsLiveRunner`, `ExitCodeHonest`, `CommandExits` |
| `rest_server` | With two run requests, another request, a full server and a signal: do runs never overlap, is `runInProgress()` right, are descriptors counted and owned exactly, does `stop()` drain, does every connection and the process end? | `RunsExclusive`, `DescriptorsExact`, `StopDrains`, `ServerSettles` |
| `repository` | With two sessions, a prune, a reader and a fault or a crash: does what was acknowledged survive, is the file whole, do all views agree, and does every run outlive its database? | `HistoryFaithful`, `FileIsWhole`, `LoadIsComplete`, `RunOutlivesDatabase` |
| `diagnostics` | With children that write, flood, hang, ignore SIGTERM, leave a helper or are waited for by somebody else: is no output of a child that `run()` could wait for lost, does the result explain the child, is nothing unmeasured reported, and does the collection end? | `ResultFaithful`, `DiagnosticsHonest`, `CollectionEnds` |
| `http_client` | With servers that stall, cut, redirect and frame bodies in three ways: does every hop obey the policy, do credentials stay home, are bodies bounded and shortened by the client only with a mark, does the AI provider accept whole answers only, and only from the provider that was asked for, and does every call return? | `AnswersAreWhole`, `HopsAreSafe`, `BodiesBoundedAndFaithful`, `RequestEnds` |
| `catalogue` | With two registrations during a run: does every generated test that is executed pass the validator and go to the base URL, and does nothing of a replaced suite survive? | `OnlyAcceptedRuns`, `SupersededTestsGone` |
| `decisions` | Do classification, URLs, routes, globs, shards, the command line, validation, settings, soft checks and reports agree with their reference definitions? | `StrongestEvidenceWins`, `UrlsFaithful`, `RoutesDistinct`, `SelectionExact`, `CommandLineKept`, `ValidationSettles`, `SettingsLayered`, `NoVerdictLost`, `ReportsAgree` |

Two runs state what a document says and are violated by the code:

* `lost_interrupt` (`InterruptedNeverExitsZero`): README.md says "An interrupted run never exits `0`". If the
  watcher sees the signal before the runner is published, the request reaches
  nobody and is not repeated; all tests run and the process exits 0.
* `server_wait` (`WaitReturns`): HttpServer.hpp says that `wait()` "Blocks until stop() is called
  from another thread". `stop()` clears the flag and notifies without holding
  `stopMutex`; a thread that has tested the flag and does not sleep yet misses
  the only notification. (`testforge serve` polls `waitFor()` and is not
  affected; a program that embeds the server is.)

### Bounds

* `pool`: two workers, two callers, three tasks. Two workers and two callers are
  enough for every race between two of either kind; three tasks leave work in
  the queue while both workers are busy. Callers repeat their calls without
  limit; only submissions are bounded, by the number of tasks.
* `runner`: two workers, two tests, one canceller, no retries. Tests interact
  only through the run's source, the list of active tests, `stopScheduling` and
  the results, so two executions in any combination of manners meet every
  interleaving of a pair.
* `runner_retry`: one test with up to three attempts, so that two attempts can
  be orphaned beside a third. Retries of one test are sequential on one worker.
* `run_command`: three tests (before, during and after the request).
* `rest_server`: three connections for two workers and a cap of two, so that one
  queues or is refused while one run waits for the other.
* `repository`: two sessions, one test with two attempts, one fault or crash
  anywhere. A second fault meets states the first one already produces. A run is
  completed once each test has its final result; one that fail-fast cut short is
  not exercised.
* `diagnostics`: a pipe of one chunk, an output limit of one and children that
  write two, so that a child blocks, floods and leaves chunks at its exit. Commands
  have a timeout, as by default (4000 ms): a configuration that sets 0 lets a command
  that hangs hang its worker.
* `http_client`: two redirects (away and back), bodies of up to three units
  against a limit of one, two addresses.
* `catalogue`: two registrars and three registrations, so that one replaces what
  another has just put.
* `decisions`: inputs are drawn from sets that hold a value for each thing the
  code tells apart, and at a limit the last permitted value and the one past it.
  `IntHalf = 1024` stands for 2^31 (it must exceed 513, the first number of workers
  that is refused: `IntHalfAssumption`); numbers past it are among the inputs and are
  narrowed as the code does. Bodies open up to two nested scopes and fail up to
  four checks.

`decisions`, `diagnostics` and `repository` have a last state and do not check
for deadlock; the others do, with an explicit step for a program that has ended.

### Fairness

Threads are scheduled: weak fairness for each worker, for the thread in `run()`,
for a canceller inside a call, for the watcher, for the acceptor and for each
session. Time passes: a deadline or a grace period expires because the
corresponding step is fair. A task of the pool ends. A test body owes its end
only if it is finite, or cooperative and cancelled; a stubborn body owes nothing.
A child owes nothing except that it reaches `setpgid()` after `fork()` and dies
of SIGKILL; a remote server owes nothing; a client of the server is silent for at
most the receive timeout. Nobody has to call `requestCancellation()`, press Ctrl-C
or connect. Mutexes need no strong fairness, because each is requested finitely
often in these models.

## Proofs

The theorems hold for any number of workers, callers, tasks, tests, attempts,
clients, cancellers, connections, sessions and registrars, and for any capacity
of a queue, a pipe or a response; those about decisions for suites, URLs, escaped
texts, layers of settings, patterns and command lines of any length and content,
as far as each theorem's assumptions say. Each invariant was checked with TLC before it
was proved.

Assumptions, each named in the module that declares the constant: sets of threads,
tests or connections that are counted are finite; markers (`NoTask`, `None`,
`"nobody"`, `"free"`) are not members of the sets they stand beside
(`CancellersAssumption`, `RepositoryAssumption` and others); numbers are naturals
or integers of the right kind, and positive where the code clamps them.

* **ThreadPoolProofs.** `PoolInv` consists of `TypeOK`, `PendingExact`,
  `OneOwnerPerPromise` and `JoinDiscipline` (a worker that has left did so
  stopping and with an empty queue; while one caller joins, the workers it has
  passed have left; after the join all have; one joiner at a time). None of the
  properties is inductive alone: that the queue is empty after the join needs
  that the workers leave only when it is, that needs the stop flags, and the
  exact count needs that no task is held twice. `WakeupsExact` and `JoinSafe`
  follow. `PoolKeepsLedger` is the refinement: the initial states map to initial
  states of TaskLedger and every step to a step of it or a stutter. It needs one
  more fact, `HoldsTask` (a worker that runs holds a task whose promise is
  pending), from which the number of running tasks is the number of workers at
  work and so never more than there are.
* **TestRunnerProofs.** The invariant has layers, each proved from those below.
  `Assigned`: no two workers have one test. `Walked`: who holds `activeMutex`,
  which sources are published, and that a cancellation which has got so far has
  cancelled every source a worker waits on or still has it on its list. `Paced`:
  how far a body is for each position of its worker, that an execution ahead is
  untouched, and where each reason comes from. `Supported`: what every verdict
  rests on. `Traced`: where each test taken from the queue has gone. These give
  `CancellationSafe`, `LateVerdictsDiscarded`, `EveryTestAccountedFor`,
  `ZeroMeansVerified` and `NothingForgotten`. The middle layers are needed because
  a verdict is judged from a token and a bundle that other threads write: that
  they say what they say of *this* attempt has to be carried along.
* **ServiceProofs.** `ServiceInv` ties each shared variable of the service to
  the positions of the threads: who holds `runMutex_`, whose runner is published,
  who holds `cancelMutex_` while using it, when the flag is set. Exclusive runs
  with the right flag and live runners follow. Every step of the command is a step
  of the service (`CommandUsesService`), and so is every step of the server or it
  leaves the service alone (`ServerUsesService`): runs are exclusive in all three.
  With `RunFacts` (a test is skipped only after a cancellation, and no verdict is
  added once there is a result) and `ExitFacts` (what each exit code says of the
  result) exit codes are honest. For the server, `ServerInv`: the acceptor holds one
  connection while it decides (`OneAccepted`), the queue holds the queued ones once
  (`QueueExact`), the count is the cardinality of what is held (`InFlightExact`), and
  what one stage of `stop()` leaves behind is still so at the later ones
  (`StagesKept`). The assumptions on the main thread are cited only by the theorems
  about the program it belongs to.
* **ResultRepositoryProofs.** The properties speak of the committed file, but a
  commit replaces it by the view of a transaction. `Transactions` says what that
  view is at each stage of each writer, `Identified` who writes for which run, and
  `Accounted` what a completed row stands for. `FileIsWhole`, `AcknowledgedSurvives`
  and the action property `LoadIsComplete` follow. For the other half of
  `HistoryFaithful`, that all views agree, `Tallied` says what the totals of a run
  were counted from (`AttemptsTold`, `FinalsTold`, `TotalsTold`); the folds of the
  queries are sums over finite sets (`AddsUp`, `SumOfClasses`, `StatisticsSum`), and
  the pages of the listing contain every run once.
* **DiagnosticsProofs.** `Conserved` is a balance: while nothing was dropped, what
  was captured and what waits in a pipe add up to what was written, and a closed
  pipe is empty. With `InStep`, `StatusKnown` and `SignalsExplained` it gives
  `ResultFaithful`; `Collected` ties each stage of the collection to what was
  measured.
* **HttpCallersProofs.** `ClientInv`: a URL that is connected to was not refused;
  credentials still held belong to the origin of the URL at hand (origins compose
  along redirects); no more was read than was sent. `AnswerKept`: no answer while
  the call that brings it is under way. `HopsAreSafe`, `BodiesBoundedAndFaithful`
  (both action properties) and `AnswersAreWhole` follow.
* **DecisionsProofs.** `VersionsUnique`: a version belongs to one registration,
  under way or ended. What a registration adds therefore is nothing that another
  one has removed, and `SupersededTestsGone` is inductive with it. `OnlyStaying`: what
  is in the registry or on its way there passes the validator (`Welcome`), because a
  second validation changes nothing (`ValidationStable`); with `UrlFaithful` its
  request stays below the base. Loops over suites, texts and evidence are functions
  on numbers and are dealt with by induction on their index. `BodyInv` carries a body
  with its scopes: `Stands` balances what failed against what was thrown, held, logged
  or never seen, `Honest` says of a body that verifies each scope last and catches
  nothing that none of its failures is gone.
* **CommandProofs.** Each layer of the settings passes on what it was given or
  replaces it. The glob loop keeps its `Goal`: what is left of the
  pattern means what is left of the text, or will when the last star takes more.
  `Searching` carries it forward for a text without a star, `Looking` backward for
  every text (`GlobSound`), and `Rank` bounds the turns. The parser is run on two lines
  side by side (`Beside`, `Together`), which gives that shards divide a run
  (`ShardedRun`) and that both ways to write a value are one. `Taken` counts what each
  turn does with its arguments, those that an option ate (`Eaten`) and the others
  (`Fresh`), from which `LineIsKept` follows for every line a shell hands over
  (`PlainLine`: a word has a text, and only long options carry a value).

Only model-checked:

* liveness (`CallersReturn`, `RunsEnd`, `CommandExits`, `ServerSettles`,
  `RunOutlivesDatabase`, `CollectionEnds`, `RequestEnds`), which rests on fairness;
* `ReportsAgree`: statistics and listings sort and filter with library operators
  (`SortSeq`, `SelectSeq`) that the prover cannot look into;
* the two runs that are violated.

## Notes on the code

Observations made while modelling, without a run of their own.

Where a comment or document says otherwise:

* The failure of an attempt that is being retried is forgotten when the retry is
  cancelled (TestRunner.cpp:735), although docs/design-decisions.md says that a
  failure outranks an interruption. The same code flags that test as a flaky
  candidate, which TestResult.hpp describes as "passed on a retry".
* A fail-fast trip cancels only the run's source; a test without a deadline runs
  on the worker itself and nobody forwards the cancellation to it, although the
  comment at TestRunner.cpp:528 says that the trip reaches running tests.
* A factory that throws leaves no result (TestRunner.cpp:516), and a run on the
  pool can exit 0; Status.hpp says that every execution has one status. On the
  sequential path the same exception leaves `Commands::run()` while the watcher is
  joinable, and the process aborts instead of returning 3.
* Two requests can pass the `runInProgress()` check together, and the second then
  queues although a comment says "409 rather than queueing"; `ExitCode` is 1 for a
  configuration error although TestResult.hpp lists it under 2.
* Two processes that open a new database together both read version 0 outside the
  transaction; the second one's migration fails on the primary key and its session
  goes on without persistence, although Database.cpp:40 says "Wait rather than
  fail when another connection holds the write lock".
* TestRegistry.hpp calls the registry fully thread-safe, but registering a suite is
  `removeSuite()` and then one insertion per test: a run that meets the window
  reports "test is registered but its factory produced nothing".
* The flat metadata describe "the *latest* exchange" (ApiTestCase.cpp:57), but
  `transport_error` of an earlier exchange is never removed.
* A connection that ends before the announced length is treated like one without a
  length (HttpClient.cpp:556); the comment there claims only the latter. The short
  body carries no mark. The AI provider rejects it because it does not parse as the
  document that was asked for; an API test cannot tell.
* Assertions.hpp:131-132 says that the failures of a soft scope are raised
  "automatically at scope exit if the scope is left normally"; the destructor only
  logs them (Assertions.cpp:80-83), and failures recorded after `verify()` are lost
  silently. `NoVerdictLost` counts both kinds, and promises that none is lost only to
  a body which verifies each scope last and catches nothing.
* A JSON-field assertion on a body that is not JSON throws and hides the verdicts
  already collected, under a comment "Collect every verdict" (SpecTestCase.cpp:146).
* `--tag=` with nothing after it removes the filter and `--shards abc` runs
  everything, although CommandLine.cpp:295 warns of silently widened filters.
* CommandLine.cpp:314 refuses as a value only what begins with two dashes: `--tag -h`
  takes `-h` for the tag and asks for no help.
* IPv6 literals are parsed without their brackets and `authority()` does not put
  them back: with the default port `[::1]` is written as `::1`, which is read as the
  host `:` and the port 1. With any other port the URL survives a round trip
  (`Unmistakable` in MCDecisions).
* The seed of a shuffle is never reported (TestSelector.hpp:78).

Other properties of the code a reader may not expect: when `waitpid()` fails (the
child was waited for elsewhere, or SIGCHLD was ignored when the program started),
`ProcessRunner::run()` leaves its loop without a last read, keeps a wait status of 0
and so reports an exit with zero (Process.cpp:386-412), and the diagnostics believe
it; a star in a text that meets a star of the pattern is compared as a character, so
that `*` does not match `*a` (StringUtils.cpp:185); numbers are narrowed from 64 bits
to `int` before they are checked, so 2^32 + n is taken for n: the workers of the
configuration, the numbers of the command line (`--shards 4294967297` is one shard,
CommandLine.cpp:112) and the statuses of a generated test (TestSpec.cpp:228, 238); `POST /api/runs` does not apply `excludeSuitesByDefault`, and neither does a
command line with an exclusion; each redirect hop has a fresh deadline and
`getaddrinfo` none; default headers go to every hop; the HTTP server passes a
body that was cut short to its handler; a rejected test still occupies its name in
a suite; `loadRun()` of a run with retries counts the superseded attempts;
`kill(-pid)` before the child's `setpgid()` reaches nobody and is repeated after the
grace; a helper that ignores SIGTERM survives when its parent obeys it. The database
has no column for the reason of a cancellation, so `report` on an interrupted run
says PASS where the run itself said INCOMPLETE; retried attempts are rows like
others, so `report` on a run in which a flaky test passed counts its failures and
may say FAIL. A report file that was cut short by a full disk still replaces its
`latest` alias (ReportWriter.cpp:83).

## Not modelled

Text: messages, layout of reports, JSON, headers and log lines character by
character. Measured time: how long things take, timestamps. Observers, which only add
output. Reading `/proc`. `waitFor()` and `remaining()` of a token, which only
influence test bodies. The commands that only print. The Python sidecar, the
sample service and the dashboard, which are separate programs. Data races on
plain fields do not occur in the modelled code: shared fields are atomic or
guarded.

## Plan

1. Logger captures and sinks replaced while threads log.
2. Malformed chunks of a server in HttpClient, and runs that fail-fast cut short in
   ResultRepository.
3. The statistics of Reports without the library's sorting operators, so that
   `ReportsAgree` can be proved.
