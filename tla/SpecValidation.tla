--------------------------- MODULE SpecValidation ---------------------------
(***************************************************************************)
(* How a document that describes tests, written by a person or by a model, *)
(* becomes a suite (TestSpec.cpp) and which of its tests are accepted      *)
(* (SpecValidator.cpp).  Texts are drawn from small sets that hold a value *)
(* for each thing the code tells apart.                                    *)
(***************************************************************************)
EXTENDS Url, FiniteSets

CONSTANT MaxGeneratedTests      \* ai.max_generated_tests

ASSUME GeneratedAssumption == MaxGeneratedTests \in Int

-----------------------------------------------------------------------------
(* Documents                                                               *)

\* Empty stands for a field that is missing or not a string, ".." for every name
\* that is too long or has a character it may not have.  t1 and T1 differ in case
\* only.
Names == {"t1", "T1", "t2", "..", Empty}
Methods == {"GET", "POST", "TRACE"}

\* An endpoint is a reference together with what else is wrong with it.
Endpoint(kind, path, flaw) == [reference |-> Reference(kind, NoText, path), flaw |-> flaw]

Elsewhere == [NoText EXCEPT !.scheme = "http", !.authority = <<"b">>, !.path = <<"x">>]

Endpoints == { Endpoint("rooted", <<"users">>, "none"),
               Endpoint("rooted", <<"..", "x">>, "none"),
               Endpoint("rooted", <<"users">>, "control"),
               Endpoint("rooted", <<"users">>, "tooLong"),
               Endpoint("rooted", <<"b">>, "doubleSlash"),
               Endpoint("rooted", <<"file:">>, "scheme"),
               Endpoint("rooted", <<"@b">>, "at"),
               Endpoint("relative", <<"users">>, "none"),
               [Endpoint("absolute", <<>>, "none") EXCEPT !.reference.text = Elsewhere],
               Endpoint("missing", <<>>, "none") }

AssertionKinds == {"status_code", "status_code_in", "response_time_under_ms",
                   "body_contains", "body_not_contains", "json_field_exists",
                   "json_field_equals", "header_exists", "header_equals"}

\* fits: the expected value has the form that the kind asks for.  flaw: what is
\* wrong with the target.
Assertion(kind, target, fits) == [kind |-> kind, target |-> target, fits |-> fits, flaw |-> "none"]

\* What is wrong with the name or the value of a header.
Header(name, flaw) == [name |-> name, flaw |-> flaw]

\* A test with what it need not say left out: no acceptable statuses is {}, no
\* budget 0, no body 0 bytes.  A status is the int that fromJson() made of it.
PlainSpec(name, method, endpoint) ==
  [name |-> name, method |-> method, endpoint |-> endpoint, status |-> 200, acceptable |-> {},
   budget |-> 0, headers |-> <<>>, bodyBytes |-> 0, assertions |-> <<>>, tags |-> {}]

NeedsTarget(kind) ==
  kind \in {"json_field_exists", "json_field_equals", "header_exists", "header_equals"}

\* SpecAssertion::fromJson()
AssertionParses(assertion) ==
  /\ assertion.kind \in AssertionKinds
  /\ NeedsTarget(assertion.kind) => assertion.target # Empty

\* TestSpec::fromJson()
SpecParses(item) ==
  /\ item.name # Empty
  /\ item.endpoint.reference.kind # "missing"
  /\ \A i \in DOMAIN item.assertions : AssertionParses(item.assertions[i])

\* TestSpecSuite::fromJson(): one test that does not parse spoils the document.
SuiteParses(document) ==
  /\ document.suite # Empty
  /\ document.tests # <<>>
  /\ \A i \in DOMAIN document.tests : SpecParses(document.tests[i])

-----------------------------------------------------------------------------
(* Validation                                                              *)

AllowedMethods == {"GET", "POST", "PUT", "PATCH", "DELETE", "HEAD", "OPTIONS"}

ForbiddenHeaders == {"authorization", "cookie", "set-cookie", "proxy-authorization", "host",
                     "x-forwarded-for", "x-forwarded-host", "x-real-ip", "content-length",
                     "transfer-encoding", "connection", "upgrade"}

StatusCodes == 100..599
MaxBudget == 600000
MaxHeaders == 16
MaxBodyBytes == 65536
MaxAssertions == 20

LowerName(name) == CASE name = "T1" -> "t1" [] name = "Cookie" -> "cookie" [] OTHER -> name

IsSafeName(name) == name \notin {Empty, ".."}

IsSafeEndpoint(endpoint) ==
  /\ endpoint.reference.kind = "rooted"
  /\ endpoint.flaw = "none"
  /\ \A i \in DOMAIN endpoint.reference.path : endpoint.reference.path[i] # ".."

\* The endpoint is resolved against the base and held against the policy.
IsPermitted(endpoint, base, policy) ==
  \E resolved \in {JoinUrl(base, endpoint.reference)} \ {NoText} :
    \E url \in {ParseUrl(resolved)} \ {NoUrl} : ~Reject(policy, url)

\* A flaw is a control character, or a value of more than 1024 bytes.
AreSafeHeaders(headers) ==
  /\ Len(headers) <= MaxHeaders
  /\ \A i \in DOMAIN headers : headers[i].flaw = "none" /\ LowerName(headers[i].name) \notin ForbiddenHeaders

\* A flaw is a control character, or a target of more than 200 bytes.
AreSafeAssertions(assertions) ==
  /\ Len(assertions) <= MaxAssertions
  /\ \A i \in DOMAIN assertions :
       /\ assertions[i].flaw = "none"
       /\ assertions[i].kind \in {"response_time_under_ms", "status_code_in"} => assertions[i].fits

\* validateOne() finds nothing fatal.  A GET with a body is only remarked on.
IsValid(spec, base, policy) ==
  /\ IsSafeName(spec.name)
  /\ spec.method \in AllowedMethods
  /\ IsSafeEndpoint(spec.endpoint) /\ IsPermitted(spec.endpoint, base, policy)
  /\ {spec.status} \cup spec.acceptable \subseteq StatusCodes
  /\ spec.budget \in 0..MaxBudget
  /\ AreSafeHeaders(spec.headers)
  /\ spec.bodyBytes <= MaxBodyBytes
  /\ AreSafeAssertions(spec.assertions)

KeptTests(suite) ==
  LET limit == IF MaxGeneratedTests < 1 THEN 1 ELSE MaxGeneratedTests
  IN IF Len(suite.tests) > limit THEN SubSeq(suite.tests, 1, limit) ELSE suite.tests

\* Mutant: of two tests with one name the later one is kept too.
BugAcceptedTwins(tests, base, policy) ==
  SelectSeq(tests, LAMBDA t : IsValid(t, base, policy))

\* Mutant: the tests are kept as they came.
BugAcceptedAll(tests, base, policy) == tests

\* A name counts as taken even by a test that was itself rejected.
AcceptedTests(tests, base, policy) ==
  LET fresh(i) == \A j \in 1..(i - 1) : LowerName(tests[j].name) # LowerName(tests[i].name)
      kept == {i \in DOMAIN tests : fresh(i) /\ IsValid(tests[i], base, policy)}
      upTo[i \in 0..Len(tests)] ==
        IF i = 0 THEN <<>> ELSE IF i \in kept THEN Append(upTo[i - 1], tests[i]) ELSE upTo[i - 1]
  IN upTo[Len(tests)]

\* validate(): the report, and the suite reduced to what was accepted.
Validate(suite, base, policy) ==
  LET accepted == IF IsSafeName(suite.suite) THEN AcceptedTests(KeptTests(suite), base, policy) ELSE <<>>
  IN [valid |-> accepted # <<>>, accepted |-> Len(accepted),
      rejected |-> Len(suite.tests) - Len(accepted),
      suite |-> [suite EXCEPT !.tests = accepted]]

\* generateTests() and loadSpecFile(): the base's host, and the configured ones.
TargetPolicy(base, allowedTargetHosts) ==
  LET policy == RestrictedTo(base)
  IN [policy EXCEPT !.hosts = @ \cup allowedTargetHosts]

-----------------------------------------------------------------------------
(* The built-in provider (MockAiProvider.cpp)                              *)

MockSpec(name, method, path, status, bodyBytes, assertions) ==
  [PlainSpec(name, method, Endpoint("rooted", path, "none")) EXCEPT
     !.status = status, !.bodyBytes = bodyBytes, !.assertions = assertions, !.tags = {"generated", "mock"}]

\* The first noun of the list that the requirement mentions.
KnownResources == <<"users", "items", "orders", "products", "accounts", "sessions">>

GuessResource(mentions) ==
  LET known == {i \in DOMAIN KnownResources : KnownResources[i] \in mentions}
  IN IF known = {} THEN "items" ELSE KnownResources[CHOOSE i \in known : \A j \in known : i <= j]

WithBudget(spec, budget) == [spec EXCEPT !.budget = budget]

ListTest(resource) ==
  WithBudget(MockSpec("list", "GET", <<resource>>, 200, 0, <<Assertion("response_time_under_ms", Empty, TRUE)>>), 2000)
MissingTest(resource) == MockSpec("missing", "GET", <<resource, "999999">>, 404, 0, <<>>)
CreateTest(resource) ==
  MockSpec("create", "POST", <<resource>>, 201, 84, <<Assertion("json_field_exists", "id", TRUE)>>)
MissingFieldTest(resource) == MockSpec("missingField", "POST", <<resource>>, 400, 25, <<>>)
MalformedTest(resource) == MockSpec("malformed", "POST", <<resource>>, 400, 43, <<>>)
DuplicateTest(resource) == MockSpec("duplicate", "POST", <<resource>>, 409, 99, <<>>)

\* The rules are keyed off the words of the requirement.
MockTests(resource, mentions) ==
  <<ListTest(resource), MissingTest(resource)>>
  \o (IF "create" \in mentions THEN <<CreateTest(resource), MissingFieldTest(resource)>> ELSE <<>>)
  \o (IF "validation" \in mentions THEN <<MalformedTest(resource)>> ELSE <<>>)
  \o (IF "unique" \in mentions THEN <<DuplicateTest(resource)>> ELSE <<>>)

MockSuite(suite, mentions, maxTests) ==
  LET tests == MockTests(GuessResource(mentions), mentions)
      limit == IF maxTests < 1 THEN 1 ELSE maxTests
  IN [suite |-> IF suite = Empty THEN "generated" ELSE suite,
      tests |-> IF Len(tests) > limit THEN SubSeq(tests, 1, limit) ELSE tests]
=============================================================================
