------------------------------ MODULE Verdicts ------------------------------
(***************************************************************************)
(* The verdict of one test execution and of a run, as pure operators: what *)
(* FailureClassifier makes of an exception and of the metadata a test left *)
(* behind, how runOne() overrides a verdict that a cancellation has made   *)
(* untrustworthy, and the exit code of a run.                              *)
(*                                                                         *)
(* Texts are abstracted to what the code reads out of them: a message is   *)
(* the category its first matching signal stands for ("Unknown" if none).  *)
(***************************************************************************)
EXTENDS Naturals, FiniteSets

Statuses == {"Passed", "Failed", "Skipped", "Error", "Timeout"}

IsFailure(status) == status \in {"Failed", "Error", "Timeout"}

Categories == {"None", "AssertionFailure", "Timeout", "NetworkFailure",
               "EnvironmentFailure", "ResourceFailure", "ApplicationFailure",
               "DependencyFailure", "ConfigurationFailure", "FrameworkError",
               "Unknown"}

\* What fromMessage() can return: the categories of kMessageSignals, or Unknown.
MessageCategories == {"NetworkFailure", "Timeout", "DependencyFailure",
                      "EnvironmentFailure", "ResourceFailure",
                      "ApplicationFailure", "Unknown"}

Verdict(status, category) == [status |-> status, category |-> category]

Verdicts == [status : Statuses, category : Categories]

-----------------------------------------------------------------------------
(* Exceptions                                                              *)

\* The categories of the exception classes of Exceptions.hpp that have no cast
\* of their own in fromException().
ForgeCategories == {"ConfigurationFailure", "EnvironmentFailure",
                    "DependencyFailure", "NetworkFailure", "ResourceFailure",
                    "FrameworkError"}

\* How a body can end.  "forge" is any TestForgeError that none of the three
\* casts before it catches, "std" any other std::exception.
Endings == [kind : {"returns", "SkipTest", "TestCancelled", "AssertionFailure",
                    "bad_alloc", "other"}, category : {"None"}]
           \cup [kind : {"forge"}, category : ForgeCategories]
           \cup [kind : {"std"}, category : MessageCategories]

FromException(ending) ==
  CASE ending.kind = "SkipTest" -> Verdict("Skipped", "None")
    [] ending.kind = "TestCancelled" -> Verdict("Timeout", "Timeout")
    [] ending.kind = "AssertionFailure" -> Verdict("Failed", "AssertionFailure")
    [] ending.kind = "forge" ->
         Verdict(IF ending.category = "Timeout" THEN "Timeout" ELSE "Error", ending.category)
    [] ending.kind = "std" -> Verdict("Error", ending.category)
    [] ending.kind = "bad_alloc" -> Verdict("Error", "ResourceFailure")
    [] OTHER -> Verdict("Error", "Unknown")

\* executeBody(): an assertion that fails during setUp is an error, not a
\* failure of the code under test.
BodyVerdict(ending, inSetUp) ==
  IF ending.kind = "returns" THEN Verdict("Passed", "None")
  ELSE LET v == FromException(ending)
       IN IF inSetUp /\ v.status = "Failed" THEN [v EXCEPT !.status = "Error"] ELSE v

-----------------------------------------------------------------------------
(* Refinement by metadata                                                  *)

Specificity(category) ==
  CASE category = "None" -> 0
    [] category = "Unknown" -> 1
    [] category = "AssertionFailure" -> 2
    [] category \in {"FrameworkError", "ConfigurationFailure", "Timeout"} -> 4
    [] OTHER -> 3

\* Mutant: a candidate as specific as the diagnosis replaces it.
BugPromoteEqual(from, candidate) ==
  IF Specificity(candidate) >= Specificity(from) THEN candidate ELSE from

Promote(from, candidate) ==
  IF Specificity(candidate) > Specificity(from) THEN candidate ELSE from

\* The metadata keys refine() reads: a 5xx http_status, the message categories
\* of transport_error and error_hint ("absent" when not a string), and a
\* nonempty missing_dependency.
Metadata == [serverError : BOOLEAN,
             transport : MessageCategories \cup {"absent"},
             missing : BOOLEAN,
             hint : MessageCategories \cup {"absent"}]

NoMetadata == [serverError |-> FALSE, transport |-> "absent",
               missing |-> FALSE, hint |-> "absent"]

PromoteIf(condition, from, candidate) ==
  IF condition THEN Promote(from, candidate) ELSE from

Refine(base, metadata) ==
  LET known == PromoteIf(metadata.serverError, base, "ApplicationFailure")
      reached == PromoteIf(metadata.transport # "absent", known, metadata.transport)
      present == PromoteIf(metadata.missing, reached, "DependencyFailure")
  IN PromoteIf(present = "Unknown" /\ metadata.hint # "absent", present, metadata.hint)

IsRetryable(category) == category \in {"NetworkFailure", "Timeout", "ResourceFailure"}

-----------------------------------------------------------------------------
(* Cancellation and the exit code                                          *)

\* Mutant: a body that finished during the grace period keeps its verdict.
BugOverrideGrace(v, deadlineExceeded, cancelledByRun) ==
  IF cancelledByRun THEN Verdict("Skipped", "None") ELSE v

Override(v, deadlineExceeded, cancelledByRun) ==
  IF deadlineExceeded THEN Verdict("Timeout", "Timeout")
  ELSE IF cancelledByRun THEN Verdict("Skipped", "None") ELSE v

\* The end of runOne() for a body that has finished.
Judge(v, metadata, deadlineExceeded, cancelledByRun) ==
  LET o == Override(v, deadlineExceeded, cancelledByRun)
  IN IF IsFailure(o.status) THEN [o EXCEPT !.category = Refine(o.category, metadata)]
     ELSE o

\* TestRun::exitCode() of the verdicts of a run.
ExitCode(verdicts, cancelled) ==
  IF \E v \in verdicts : v.category = "FrameworkError" THEN 2
  ELSE IF \E v \in verdicts : IsFailure(v.status) THEN 1
  ELSE IF cancelled THEN 4 ELSE 0
=============================================================================
