----------------------------- MODULE Assertions -----------------------------
(***************************************************************************)
(* Checks and soft-assertion scopes on the thread that runs a test         *)
(* (Assertions.cpp), and the checks of a generated test (SpecTestCase.cpp).*)
(*                                                                         *)
(* scopes are the scope objects alive, outermost first; active is the      *)
(* thread-local stack of pointers to them, as places in scopes.  Which     *)
(* block a handler stands in is a choice of the test's author.             *)
(***************************************************************************)
EXTENDS Integers, Sequences, SequencesExt

NewScope == [failures |-> 0, verified |-> FALSE, thrown |-> 0]

\* failed: checks that failed.  thrown, logged, unseen: where their failures
\* went.  ended: how the body ended.  careful: verify() was the last thing that
\* happened to each scope that was left.  caught: a handler of the body caught one.
NewThread == [scopes |-> <<>>, active |-> <<>>, failed |-> 0, thrown |-> 0, logged |-> 0,
              unseen |-> 0, ended |-> "running", careful |-> TRUE, caught |-> FALSE]

Escapes == -1           \* no handler in the body catches the exception

\* Mutant: only verify() takes a scope from the stack.
BugDestroyStacked(thread) ==
  LET scope == Last(thread.scopes)
  IN [thread EXCEPT !.scopes = Front(@),
        !.logged = IF scope.verified THEN @ ELSE @ + scope.failures,
        !.unseen = IF scope.verified THEN @ + scope.failures - scope.thrown ELSE @]

\* ~SoftAssertionScope(): logs what nobody verified, and does not throw.
Destroy(thread) ==
  LET place == Len(thread.scopes)
      scope == Last(thread.scopes)
  IN [thread EXCEPT !.scopes = Front(@),
        !.active = IF @ # <<>> /\ Last(@) = place THEN Front(@) ELSE @,
        !.logged = IF scope.verified THEN @ ELSE @ + scope.failures,
        !.unseen = IF scope.verified THEN @ + scope.failures - scope.thrown ELSE @]

\* A block ends as it should.
Leave(thread) == [Destroy(thread) EXCEPT !.careful = @ /\ Last(thread.scopes).verified]

\* An exception leaves the blocks inside the handler's.
Throw(thread, handler) ==
  LET depth == IF handler = Escapes THEN 0 ELSE handler
      left[n \in depth..Len(thread.scopes)] ==
        IF n = Len(thread.scopes) THEN thread ELSE Destroy(left[n + 1])
  IN IF handler = Escapes THEN [left[depth] EXCEPT !.ended = "failed"]
     ELSE [left[depth] EXCEPT !.caught = TRUE]

Record(thread) ==
  LET place == Last(thread.active)
  IN [thread EXCEPT !.scopes[place].failures = @ + 1,
                    !.careful = @ /\ ~thread.scopes[place].verified]

\* AssertionEngine::report()
Report(thread, succeeded, handler) ==
  LET counted == [thread EXCEPT !.failed = @ + 1]
  IN IF succeeded THEN thread
     ELSE IF thread.active # <<>> THEN Record(counted)
     ELSE Throw([counted EXCEPT !.thrown = @ + 1], handler)

\* fail() throws even when a scope has recorded the failure: it counts twice.
Fail(thread, handler) ==
  IF thread.active = <<>> THEN Report(thread, FALSE, handler)
  ELSE LET recorded == Report(thread, FALSE, handler)
       IN Throw([recorded EXCEPT !.failed = @ + 1, !.thrown = @ + 1], handler)

Open(thread) ==
  [thread EXCEPT !.scopes = Append(@, NewScope), !.active = Append(@, Len(thread.scopes) + 1)]

\* verify() throws once, for everything recorded until then.
Verify(thread, place, handler) ==
  LET scope == thread.scopes[place]
      verified == [thread EXCEPT !.scopes[place].verified = TRUE]
      popped == [verified EXCEPT !.scopes[place].thrown = scope.failures,
                   !.active = IF @ # <<>> /\ Last(@) = place THEN Front(@) ELSE @,
                   !.thrown = @ + scope.failures]
  IN IF scope.verified \/ scope.failures = 0 THEN verified ELSE Throw(popped, handler)

Return(thread) == [thread EXCEPT !.ended = "passed"]

-----------------------------------------------------------------------------
(* The checks of a generated test                                          *)

\* The helpers of namespace assertions that evaluate() calls, as conditions.
StatusCode(actual, expected) == actual = expected
StatusCodeIn(actual, allowed) == actual \in allowed
ResponseTime(actual, budget) == actual <= budget
ContainsSubstring(texts, needle) == needle \in texts
JsonHasField(fields, target) == target \in DOMAIN fields
JsonFieldEquals(fields, target, expected) == target \in DOMAIN fields /\ fields[target] = expected

\* evaluate(); a header that is absent equals "".
Evaluate(assertion, response) ==
  LET expected == assertion.expected
      target == assertion.target
  IN CASE assertion.kind = "status_code" -> StatusCode(response.status, expected)
       [] assertion.kind = "status_code_in" -> StatusCodeIn(response.status, expected)
       [] assertion.kind = "response_time_under_ms" -> ResponseTime(response.elapsed, expected)
       [] assertion.kind = "body_contains" -> ContainsSubstring(response.texts, expected)
       [] assertion.kind = "body_not_contains" -> ~ContainsSubstring(response.texts, expected)
       [] assertion.kind = "json_field_exists" -> JsonHasField(response.fields, target)
       [] assertion.kind = "json_field_equals" -> JsonFieldEquals(response.fields, target, expected)
       [] assertion.kind = "header_exists" -> target \in DOMAIN response.headers
       [] assertion.kind = "header_equals" ->
            expected = IF target \in DOMAIN response.headers THEN response.headers[target] ELSE ""

\* A body that is neither empty nor JSON is an exception.
NeedsDocument(assertion) == assertion.kind \in {"json_field_exists", "json_field_equals"}

StatusAccepted(spec, response) ==
  IF spec.acceptable # {} THEN StatusCodeIn(response.status, spec.acceptable)
  ELSE StatusCode(response.status, spec.status)

\* Mutant: the scope is left without verify().
BugExecuteUnverified(spec, response) ==
  Return(Leave(Report(Open(NewThread), StatusAccepted(spec, response), Escapes)))

\* SpecTestCase::execute() after a response has arrived.
ExecuteSpec(spec, response) ==
  LET status == Report(Open(NewThread), StatusAccepted(spec, response), Escapes)
      latency == Report(status, spec.budget > 0 => ResponseTime(response.elapsed, spec.budget), Escapes)
      after[i \in 0..Len(spec.assertions)] ==
        IF i = 0 THEN latency
        ELSE IF after[i - 1].ended # "running" THEN after[i - 1]
        ELSE IF NeedsDocument(spec.assertions[i]) /\ response.json = "invalid"
          THEN Throw([after[i - 1] EXCEPT !.failed = @ + 1, !.thrown = @ + 1], Escapes)
        ELSE Report(after[i - 1], Evaluate(spec.assertions[i], response), Escapes)
      checked == after[Len(spec.assertions)]
      verified == IF checked.ended = "running" THEN Verify(checked, 1, Escapes) ELSE checked
  IN IF verified.ended = "running" THEN Return(Leave(verified)) ELSE verified
=============================================================================
