------------------------------ MODULE Reports -------------------------------
(***************************************************************************)
(* What is told about a finished run: RunStatistics, the JSON document and *)
(* the run that is read back from it, the reporters, the files that        *)
(* ReportWriter leaves behind, and `testforge report`.                     *)
(*                                                                         *)
(* A rendered report is represented by the numbers and the entries it      *)
(* shows; layout, colours, logs and diagnostics are left out.  A JSON      *)
(* document is a function from its keys to values with a type.             *)
(***************************************************************************)
EXTENDS Verdicts, Integers, Sequences, SequencesExt

Result(suite, name, verdict, duration, attempt) ==
  [id |-> <<suite, name>>, suite |-> suite, name |-> name, status |-> verdict.status,
   category |-> verdict.category, duration |-> duration, attempt |-> attempt,
   flaky |-> attempt > 1 /\ ~IsFailure(verdict.status)]

VerdictsOf(run) == {Verdict(run.results[i].status, run.results[i].category) : i \in DOMAIN run.results}

\* TestRun::exitCode().
RunExitCode(run) == ExitCode(VerdictsOf(run), run.reason # "")

-----------------------------------------------------------------------------
(* RunStatistics                                                           *)

CountOf(results, statuses) == Len(SelectSeq(results, LAMBDA r : r.status \in statuses))

\* Mutant: the rank is rounded down.
BugPercentile(sorted, percent) ==
  IF sorted = <<>> THEN 0
  ELSE LET rank == (percent * Len(sorted)) \div 100
       IN sorted[IF rank = 0 THEN 1 ELSE Min({rank, Len(sorted)})]

\* Nearest rank: the smallest observed value that `percent` of them do not exceed.
Percentile(sorted, percent) ==
  IF sorted = <<>> THEN 0
  ELSE LET rank == (percent * Len(sorted) + 99) \div 100
       IN sorted[IF rank = 0 THEN 1 ELSE Min({rank, Len(sorted)})]

Compute(results) ==
  LET durations == [i \in DOMAIN results |-> results[i].duration]
      sorted == SortSeq(durations, LAMBDA a, b : a < b)
      sum == FoldLeft(LAMBDA n, d : n + d, 0, durations)
      longest == FoldLeft(LAMBDA n, d : IF d > n THEN d ELSE n, 0, durations)
      slowest == {i \in DOMAIN results : longest > 0 /\ durations[i] = longest}
  IN [total |-> Len(results), passed |-> CountOf(results, {"Passed"}),
      failed |-> CountOf(results, {"Failed"}), skipped |-> CountOf(results, {"Skipped"}),
      errors |-> CountOf(results, {"Error"}), timeouts |-> CountOf(results, {"Timeout"}),
      categories |-> [c \in {results[i].category : i \in DOMAIN results} \ {"None"} |->
                        Len(SelectSeq(results, LAMBDA r : r.category = c))],
      sum |-> sum,
      average |-> IF results = <<>> THEN 0 ELSE sum \div Len(results),
      median |-> Percentile(sorted, 50), p95 |-> Percentile(sorted, 95), max |-> longest,
      slowest |-> IF slowest = {} THEN "" ELSE results[Min(slowest)].name]

-----------------------------------------------------------------------------
(* JSON                                                                    *)

Str(s) == [type |-> "string", value |-> s]
Num(n) == [type |-> "number", value |-> n]
Bool(b) == [type |-> "bool", value |-> b]

\* toString() of a status and of a category, and the way back, which fails for
\* any other text.
Spelled(word) ==
  CASE word = "Passed" -> "PASSED" [] word = "Failed" -> "FAILED" [] word = "Skipped" -> "SKIPPED"
    [] word = "Error" -> "ERROR" [] word = "Timeout" -> "TIMEOUT" [] word = "None" -> "NONE"
    [] word = "AssertionFailure" -> "ASSERTION_FAILURE" [] word = "NetworkFailure" -> "NETWORK_FAILURE"
    [] word = "EnvironmentFailure" -> "ENVIRONMENT_FAILURE" [] word = "ResourceFailure" -> "RESOURCE_FAILURE"
    [] word = "ApplicationFailure" -> "APPLICATION_FAILURE" [] word = "DependencyFailure" -> "DEPENDENCY_FAILURE"
    [] word = "ConfigurationFailure" -> "CONFIGURATION_FAILURE" [] word = "FrameworkError" -> "FRAMEWORK_ERROR"
    [] OTHER -> "UNKNOWN"

FromString(words, text, default) ==
  IF \E w \in words : Spelled(w) = text THEN CHOOSE w \in words : Spelled(w) = text ELSE default

\* A member of the document if it has the type, else what the reader starts from.
Member(doc, key, type, default) ==
  IF key \in DOMAIN doc /\ doc[key].type = type THEN doc[key].value ELSE default

ResultToJson(r) ==
  [test_id |-> Str(r.id), suite_name |-> Str(r.suite), test_name |-> Str(r.name),
   status |-> Str(Spelled(r.status)), failure_category |-> Str(Spelled(r.category)),
   duration_ms |-> Num(r.duration), attempt |-> Num(r.attempt), flaky_candidate |-> Bool(r.flaky)]

\* TestResult::fromJson(): an unknown status or category leaves the default, and
\* a missing id is computed from the names.
ResultFromJsonAs(doc, default) ==
  LET suite == Member(doc, "suite_name", "string", "")
      name == Member(doc, "test_name", "string", "")
      id == Member(doc, "test_id", "string", <<>>)
  IN [id |-> IF id = <<>> THEN <<suite, name>> ELSE id, suite |-> suite, name |-> name,
      status |-> FromString(Statuses, Member(doc, "status", "string", ""), default),
      category |-> FromString(Categories, Member(doc, "failure_category", "string", ""), "Unknown"),
      duration |-> Member(doc, "duration_ms", "number", 0),
      attempt |-> Member(doc, "attempt", "number", 1),
      flaky |-> Member(doc, "flaky_candidate", "bool", FALSE)]

\* Mutant: a result starts out as passed.
BugResultFromJson(doc) == ResultFromJsonAs(doc, "Passed")

ResultFromJson(doc) == ResultFromJsonAs(doc, "Error")

\* TestRun::toJson(), with toSummaryJson() and the statistics.
RunToJson(run) ==
  [run_id |-> Str(run.id), cancellation_reason |-> Str(run.reason),
   statistics |-> [type |-> "object", value |-> Compute(run.results)],
   results |-> [type |-> "array", value |-> [i \in DOMAIN run.results |-> ResultToJson(run.results[i])]]]

RunFromJson(doc) ==
  LET items == Member(doc, "results", "array", <<>>)
  IN [id |-> Member(doc, "run_id", "string", ""),
      reason |-> Member(doc, "cancellation_reason", "string", ""),
      results |-> [i \in DOMAIN items |-> ResultFromJson(items[i])]]

-----------------------------------------------------------------------------
(* Reporters                                                               *)

Element(status) ==
  CASE status = "Failed" -> "failure"
    [] status \in {"Error", "Timeout"} -> "error"
    [] status = "Skipped" -> "skipped"
    [] OTHER -> "none"

SuiteName(r) == IF r.suite = "" THEN "default" ELSE r.suite

\* JUnitReporter::render(): one element per suite, with counts of its own.
JUnit(run) ==
  LET stats == Compute(run.results)
      inSuite(s) == SelectSeq(run.results, LAMBDA r : SuiteName(r) = s)
      elements(s, kind) == Len(SelectSeq(inSuite(s), LAMBDA r : Element(r.status) = kind))
  IN [tests |-> stats.total, failures |-> stats.failed, errors |-> stats.errors + stats.timeouts,
      skipped |-> stats.skipped,
      suites |-> [s \in {SuiteName(run.results[i]) : i \in DOMAIN run.results} |->
                    [tests |-> Len(inSuite(s)), failures |-> elements(s, "failure"),
                     errors |-> elements(s, "error"), skipped |-> elements(s, "skipped"),
                     cases |-> [i \in DOMAIN inSuite(s) |-> inSuite(s)[i].name]]]]

Failures(run) == SelectSeq(run.results, LAMBDA r : IsFailure(r.status))

\* Mutant: the entry that is not shown is not counted either.
BugRest(failures, limit) ==
  IF Len(failures) > limit THEN Len(failures) - limit - 1 ELSE 0

\* "... and n more".
Rest(failures, limit) ==
  IF Len(failures) > limit THEN Len(failures) - limit ELSE 0

\* ConsoleReporter::render(), with verbose failures.
Console(run, limit) ==
  LET stats == Compute(run.results)
      code == RunExitCode(run)
  IN [stats |-> stats,
      shown |-> SubSeq(Failures(run), 1, Min({limit, Len(Failures(run))})),
      more |-> Rest(Failures(run), limit),
      flaky |-> SelectSeq(run.results, LAMBDA r : r.flaky),
      result |-> CASE code = 4 -> "INCOMPLETE" [] code = 0 -> "PASS" [] code = 1 -> "FAIL" [] OTHER -> "ERROR",
      attention |-> IF code = 1 THEN stats.failed + stats.errors + stats.timeouts ELSE 0]

\* HtmlReporter::render(): cards, all failures, all results.
Html(run) == [stats |-> Compute(run.results), failures |-> Failures(run), rows |-> run.results]

-----------------------------------------------------------------------------
(* Files                                                                   *)

\* ReportWriter::write().  `fate` says of each reporter whether its file is
\* whole, was not opened, could not be written to its end, or was never
\* rendered because the reporter threw; `copied` which aliases could be
\* replaced.  A file that was opened exists, whole or not.
WriteReports(reporters, directory, fate, copied, latest) ==
  LET written == {k \in reporters : fate[k] = "whole"}
      exists == {k \in reporters : fate[k] \in {"whole", "short"}}
  IN IF reporters = {} \/ directory # "ready" THEN [written |-> {}, latest |-> latest]
     ELSE [written |-> written,
           latest |-> [k \in DOMAIN latest |->
                         IF written # {} /\ k \in exists \cap copied THEN fate[k] ELSE latest[k]]]

\* What the database gives back of a run: the attempts that were retried are
\* rows like the others, and no column holds the reason a run was cut short.
Stored(run, retried) == [run EXCEPT !.reason = "", !.results = retried \o run.results]

\* Commands::report() on a database that has the runs `history`, newest first;
\* `asked` is an id, "" or "latest".
ReportCommand(history, asked, format) ==
  LET id == IF asked \notin {"", "latest"} THEN asked
            ELSE IF history = <<>> THEN "" ELSE history[1].run.id
      found == SelectSeq(history, LAMBDA entry : entry.run.id = id)
      run == RunFromJson(RunToJson(Stored(found[1].run, found[1].retried)))
  IN IF found = <<>> THEN [exit |-> 2] ELSE
     CASE format = "console" -> [exit |-> 0, report |-> Console(run, 25)]
       [] format = "json" -> [exit |-> 0, report |-> RunToJson(run)]
       [] format = "html" -> [exit |-> 0, report |-> Html(run)]
       [] format = "junit" -> [exit |-> 0, report |-> JUnit(run)]
       [] OTHER -> [exit |-> 2]
=============================================================================
