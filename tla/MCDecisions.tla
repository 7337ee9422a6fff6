---------------------------- MODULE MCDecisions -----------------------------
(***************************************************************************)
(* The decisions that need no other thread, over bounded inputs: each      *)
(* initial state is one input of one of them, and the steps are those of a  *)
(* test's body that opens, checks and leaves soft-assertion scopes.  Each   *)
(* decision is held against a definition of what it should be that does    *)
(* not follow the steps of the code.                                       *)
(***************************************************************************)
EXTENDS Verdicts, SpecValidation, CommandLine, Globs, Assertions, HttpRequests, Reports

CONSTANT MaxChecks      \* failed checks of a body

VARIABLE item

Is(topic) == item.topic = topic

-----------------------------------------------------------------------------
(* Inputs                                                                  *)

VerdictItem ==
  \E ending \in Endings, inSetUp \in BOOLEAN, metadata \in Metadata, why \in {"neither", "deadline", "cancelled"} :
    /\ inSetUp => ending.kind # "returns"
    /\ item = [topic |-> "verdict", ending |-> ending, inSetUp |-> inSetUp, metadata |-> metadata,
               deadline |-> why = "deadline", cancelled |-> why = "cancelled"]

Hosts == {<<"api">>, <<"API">>, <<"b">>, <<"127.0.0.1">>, <<"10.0.0.256">>, <<Empty>>}

\* Names and IPv4 addresses, and ::1 between brackets.
UrlTexts ==
  LET texts(bracketed, hosts) ==
        [scheme : {"http", "https", "ftp", "b@d"}, bracketed : {bracketed}, authority : hosts,
         port : {Empty, "80", "443", "8000", "0", "65536", "x"}, path : {<<>>, <<"v1">>}, query : {Empty, "q"}]
  IN texts(FALSE, Hosts) \cup texts(TRUE, {<<Empty, Empty, "1">>})

UrlItems ==
  [topic : {"url"}, base : UrlTexts,
   reference : { Reference(kind, Elsewhere, further) :
                   kind \in {"rooted", "relative", "absolute"}, further \in {<<>>, <<"users">>, <<"..", "x">>} }]

Characters == {"a", "%", "+", " ", "^", "2", "5"}

EscapeItems == [topic : {"escape"}, text : BoundedSeq(Characters, 4)]

RequestItems ==
  [topic : {"request"}, method : {"GET", "HEAD", "POST", "DELETE"},
   path : BoundedSeq({"api", "runs", "results", "..", "index.html"}, 4)]

TestPool == {[suite |-> "api", name |-> "t1", tags |-> {"api"}, enabled |-> TRUE],
             [suite |-> "api", name |-> "t2", tags |-> {"api", "slow"}, enabled |-> TRUE],
             [suite |-> "failures", name |-> "t1", tags |-> {"failures"}, enabled |-> TRUE],
             [suite |-> "api", name |-> "t3", tags |-> {"api"}, enabled |-> FALSE]}

Extras == {<<>>, <<Word(<<"t1">>)>>, <<LongWith("tag", <<"slow", "failures">>)>>,
           <<Long("exclude-tag"), Word(<<"slow">>)>>, <<Long("include-disabled")>>}

\* How many shards a line asks for, and the numbers of those that there are.
ShardNumbers == [count \in {"2", "4294967297"} |-> IF count = "2" THEN {"0", "1"} ELSE {"0"}]

SelectionItems ==
  [topic : {"selection"}, hash : [TestPool -> 0..3], extra : Extras, without : TestPool, shards : DOMAIN ShardNumbers]

GlobItems ==
  [topic : {"glob"}, pattern : BoundedSeq({"a", "b", "*", "?"}, 4),
   text : BoundedSeq({"a", "b"}, 4) \cup BoundedSeq({"a", "*"}, 3)]

LinePool == {Word(<<"run">>), Word(<<"db">>), Word(<<"t1">>), Long("tag"), LongWith("tag", <<"slow">>),
             LongWith("tag", <<>>), Long("shuffle"), Long("bogus"), Long("help"), Short("-h"), DashDash}

LineItems == [topic : {"line"}, line : BoundedSeq(LinePool, 4)]

Home == [NoText EXCEPT !.scheme = "http", !.authority = <<"api">>, !.path = <<"v1">>]

\* As many of one thing as the validator permits and one more, and flaws.
HeaderLists ==
  {[i \in 1..n |-> Header("accept", "none")] : n \in {16, 17}}
    \cup {<<Header("accept", "none"), Header("accept", flaw)>> : flaw \in {"control", "tooLong"}}

AssertionLists ==
  {[i \in 1..n |-> Assertion("status_code", Empty, TRUE)] : n \in {20, 21}}
    \cup {<<[Assertion("body_contains", "id", TRUE) EXCEPT !.flaw = flaw]>> : flaw \in {"control", "tooLong"}}
    \cup {<<Assertion(kind, Empty, FALSE)>> : kind \in {"status_code", "status_code_in", "response_time_under_ms"}}

PlainGet == PlainSpec("t1", "GET", Endpoint("rooted", <<"users">>, "none"))

\* Names, methods, endpoints and headers in all combinations, and one limit at a time.
SpecPool ==
  { [PlainSpec(name, method, endpoint) EXCEPT !.headers = headers] :
      name \in {"t1", "T1", ".."}, method \in {"GET", "TRACE"}, headers \in {<<>>, <<Header("Cookie", "none")>>},
      endpoint \in {e \in Endpoints : e.flaw = "none" /\ e.reference.kind # "missing"} }
  \cup {[PlainGet EXCEPT !.status = status] : status \in {99, 100, 599, 600}}
  \cup {[PlainGet EXCEPT !.acceptable = {200, status}] : status \in {99, 100, 599, 600}}
  \cup {[PlainGet EXCEPT !.budget = budget] : budget \in {-1, 600000, 600001}}
  \cup {[PlainGet EXCEPT !.bodyBytes = bytes] : bytes \in {65536, 65537}}
  \cup {[PlainGet EXCEPT !.headers = headers] : headers \in HeaderLists}
  \cup {[PlainGet EXCEPT !.assertions = assertions] : assertions \in AssertionLists}

SuiteItem ==
  \E first \in SpecPool, second \in SpecPool :
    item = [topic |-> "suite", suite |-> [suite |-> "gen", tests |-> <<first, second>>]]

MockItem ==
  \E mentions \in SUBSET {"create", "validation", "unique", "orders"}, max \in 0..3 :
    item = [topic |-> "mock", suite |-> MockSuite(Empty, mentions, max)]

SettingValues(key) ==
  CASE key \in {"workers", "timeout"} ->
         {Absent, Text("x"), Number(-1), Number(0), Number(8), Number(513), Number(2 * IntHalf + 8)}
    [] key \in {"failFast", "database"} -> {Absent, Text(Empty), Flag(TRUE), Flag(FALSE)}
    [] key = "level" -> {Absent, Text("loud"), Text("debug"), Text("error")}
    [] OTHER -> {Absent, Text(Empty), Text("a.db"), Text("b.db")}

\* A layer that sets one key at most.
Sets(key, given) == [k \in DOMAIN Default |-> IF k = key THEN given ELSE Absent]

TimeoutFlags == {Absent, Text("x"), Number(5)}
DbFlags == {Absent, Text("c.db"), Text(Empty)}

\* The options that set the level, and those that do not.
Flags ==
  [quiet : BOOLEAN, verbose : BOOLEAN, level : {Empty, "loud", "debug", "error"},
   timeout : {Absent}, db : {Absent}, noDb : {FALSE}]
  \cup [quiet : {FALSE}, verbose : {FALSE}, level : {Empty}, timeout : TimeoutFlags, db : DbFlags, noDb : BOOLEAN]

SettingItem ==
  \E key \in DOMAIN Default, flags \in Flags :
    \E f \in SettingValues(key), e \in SettingValues(key), d \in SettingValues(key) :
      item = [topic |-> "setting", file |-> Sets(key, f), environment |-> Sets(key, e), dotEnv |-> Sets(key, d),
              flags |-> flags]

ExpectedBy(kind) == CASE kind = "status_code" -> 200 [] kind = "response_time_under_ms" -> 1 [] OTHER -> "v"

SpecOf(acceptable, budget, kinds) ==
  [status |-> 200, acceptable |-> acceptable, budget |-> budget,
   assertions |-> [i \in DOMAIN kinds |-> [kind |-> kinds[i], target |-> "id", expected |-> ExpectedBy(kinds[i])]]]

ResponseOf(status, json, has, elapsed) ==
  [status |-> status, elapsed |-> elapsed, json |-> json, texts |-> IF has THEN {"v"} ELSE {},
   fields |-> IF has /\ json = "object" THEN [id |-> "v"] ELSE <<>>,
   headers |-> IF has THEN [id |-> "v"] ELSE <<>>]

ResponseItems ==
  [topic : {"response"},
   spec : { SpecOf(acceptable, budget, kinds) :
              acceptable \in {{}, {200, 500}}, budget \in {0, 1},
              kinds \in {<<>>, <<"json_field_exists">>, <<"status_code", "json_field_equals">>,
                         <<"header_equals", "header_exists">>, <<"body_contains", "response_time_under_ms">>} },
   response : { ResponseOf(status, json, has, elapsed) :
                  status \in {200, 500}, json \in {"object", "empty", "invalid"}, has \in BOOLEAN, elapsed \in 1..2 }]

ReportVerdicts == {Verdict("Passed", "None"), Verdict("Skipped", "None"), Verdict("Failed", "AssertionFailure"),
                   Verdict("Error", "FrameworkError"), Verdict("Timeout", "Timeout")}

Retried == {<<>>, <<Result("api", "t1", Verdict("Timeout", "Timeout"), 1, 1)>>}

ResultsOf(n, suites, verdicts, durations, retried) ==
  [i \in 1..n |-> Result(suites[i], <<"t1", "t2", "t3">>[i], verdicts[i], durations[i],
                         IF i = 1 THEN 1 + Len(retried) ELSE 1)]

ReportItem ==
  \E n \in 0..3, reason \in {"", "interrupted"}, retried \in Retried :
    \E verdicts \in [1..n -> ReportVerdicts], durations \in [1..n -> 0..1], suites \in [1..n -> {"", "api"}] :
      item = [topic |-> "report", retried |-> retried,
              run |-> [id |-> "r1", reason |-> reason,
                       results |-> ResultsOf(n, suites, verdicts, durations, retried)]]

TimingItem ==
  \E n \in 0..45, factor \in 1..8 :
    item = [topic |-> "timing", durations |-> [i \in 1..n |-> (i * factor) % 11]]

FileItems ==
  [topic : {"files"}, reporters : SUBSET {"json", "html", "xml"}, directory : {"unset", "denied", "ready"},
   fate : [{"json", "html", "xml"} -> {"whole", "short", "unopened", "threw"}], copied : SUBSET {"json", "html", "xml"}]

DecisionsInit ==
  \/ VerdictItem \/ item \in UrlItems \/ item \in EscapeItems \/ item \in RequestItems
  \/ item \in SelectionItems \/ item \in GlobItems \/ item \in LineItems
  \/ SuiteItem \/ MockItem \/ SettingItem \/ item \in ResponseItems
  \/ ReportItem \/ TimingItem \/ item \in FileItems
  \/ item = [topic |-> "body", thread |-> NewThread]

-----------------------------------------------------------------------------
(* A body                                                                  *)

Handlers(thread) == {Escapes} \cup 0..Len(thread.scopes)

Moves(thread) ==
  LET scopes == DOMAIN thread.scopes
      mayFail == thread.failed < MaxChecks
  IN (IF Len(thread.scopes) < 2 THEN {Open(thread)} ELSE {})
     \cup (IF scopes # {} THEN {Leave(thread)} ELSE {Return(thread)})
     \cup {Verify(thread, place, handler) : place \in scopes, handler \in Handlers(thread)}
     \cup (IF mayFail THEN {Report(thread, FALSE, handler) : handler \in Handlers(thread)} ELSE {})
     \cup (IF mayFail THEN {Fail(thread, handler) : handler \in Handlers(thread)} ELSE {})

BodyStep ==
  /\ Is("body") /\ item.thread.ended = "running"
  /\ \E thread \in Moves(item.thread) : item' = [item EXCEPT !.thread = thread]

DecisionsSpec == DecisionsInit /\ [][BodyStep]_item

-----------------------------------------------------------------------------
(* Verdicts                                                                *)

\* The evidence in the order in which refine() consults it.
Evidence(base, metadata) ==
  <<base>> \o (IF metadata.serverError THEN <<"ApplicationFailure">> ELSE <<>>)
           \o (IF metadata.transport # "absent" THEN <<metadata.transport>> ELSE <<>>)
           \o (IF metadata.missing THEN <<"DependencyFailure">> ELSE <<>>)

\* Of several pieces of evidence the most specific decides, and of equally
\* specific ones the earliest.
Strongest(evidence) ==
  LET rank(i) == Specificity(evidence[i])
  IN evidence[CHOOSE i \in DOMAIN evidence :
                /\ \A j \in DOMAIN evidence : rank(j) <= rank(i)
                /\ \A j \in 1..(i - 1) : rank(j) < rank(i)]

\* Whatever the order of its branches, refine() picks the strongest evidence and
\* asks the hint only if that leaves the failure unexplained; what is not a
\* failure has no category; and no metadata explains a timeout away.
StrongestEvidenceWins ==
  Is("verdict") =>
    LET body == BodyVerdict(item.ending, item.inSetUp)
        judged == Judge(body, item.metadata, item.deadline, item.cancelled)
        found == Strongest(Evidence(Override(body, item.deadline, item.cancelled).category, item.metadata))
    IN /\ IsFailure(judged.status) <=> judged.category # "None"
       /\ judged.status = "Timeout" => judged.category = "Timeout"
       /\ IsFailure(judged.status) =>
            judged.category = IF found = "Unknown" /\ item.metadata.hint # "absent"
                              THEN item.metadata.hint ELSE found

-----------------------------------------------------------------------------
(* URLs and requests                                                       *)

\* toString() writes the colons of an IPv6 address without brackets: what follows
\* the last of them is the port.
Unmistakable(url) == Len(url.host) = 1 \/ url.port \notin {0, DefaultPortFor(url.scheme)}

\* A URL that was parsed and written down again is the same URL, if its host is a
\* name or an IPv4 address or its port is not the default one ([::1] is written as
\* ::1 and read as the port 1 of the host ":").  Joining never leaves the origin
\* and the path of such a base, and the policy made from a base rejects another
\* host and accepts what was joined; what was escaped is restored.
UrlsFaithful ==
  /\ Is("url") =>
       LET url == ParseUrl(item.base)
           joined == JoinUrl(item.base, item.reference)
           target == ParseUrl(joined)
       IN url # NoUrl =>
            /\ Unmistakable(url) => ParseUrl(ToText(url)) = url
            /\ Unmistakable(url) /\ joined # NoText /\ item.reference.kind # "absolute" =>
                 /\ SameOrigin(url, target) /\ IsPrefix(url.path, target.path)
                 /\ url.scheme \in {"http", "https"} => ~Reject(RestrictedTo(item.base), target)
            /\ url.host # ParseUrl(Elsewhere).host => Reject(RestrictedTo(item.base), ParseUrl(Elsewhere))
  /\ Is("escape") => UrlDecode(UrlEncode(item.text)) = item.text

\* The segments of a path that a route was written for.
Concrete(route) == [i \in DOMAIN route.segments |->
                      IF route.segments[i] = Capture THEN "x" ELSE route.segments[i]]

Files == {<<"index.html">>, <<"..", "index.html">>, <<"api", "..", "..", "index.html">>}

\* Starting the server again changes no route; every route of the API is found
\* by its own path, none hides another; and a file is served only from below
\* the directory, with 405 kept for paths that another method has.
RoutesDistinct ==
  Is("request") =>
    LET answer == Unrouted(ApiTable, Files, item.method, item.path)
        other == \E i \in DOMAIN ApiRoutes : Len(ApiRoutes[i].segments) = Len(item.path)
                   /\ \A k \in DOMAIN item.path : ApiRoutes[i].segments[k] \in {Capture, item.path[k]}
    IN /\ RegisterRoutes(ApiTable) = ApiTable
       /\ \A i \in DOMAIN ApiRoutes :
            Match(ApiTable, ApiRoutes[i].method, Concrete(ApiRoutes[i])) = ApiRoutes[i]
       /\ answer = 200 => \A k \in DOMAIN item.path : item.path[k] # ".."
       /\ answer = 405 => other
       /\ Match(ApiTable, item.method, item.path) # NoRoute => other

-----------------------------------------------------------------------------
(* Selecting tests                                                         *)

RunLine(extra, count, index) ==
  <<Word(<<"run">>), LongWith("shards", <<count>>), Long("shard"), Word(<<index>>)>> \o extra

Selects(line, tests) == RunSelects(Parse(line), tests, {"failures"}, item.hash)

IsStarless(text) == \A i \in DOMAIN text : text[i] # "*"

\* The shards of a run divide what the run without shards selects, a number of
\* shards that no int holds being what is left of it (2^32 + 1 is one shard), and
\* a test that is removed moves no other.  globMatch() finds no match that is
\* none, and with its single point of return every match in a text without a star.
SelectionExact ==
  /\ Is("selection") =>
       LET all == Selects(<<Word(<<"run">>)>> \o item.extra, TestPool)
           shard(index) == Selects(RunLine(item.extra, item.shards, index), TestPool)
           fewer(index) == Selects(RunLine(item.extra, item.shards, index), TestPool \ {item.without})
           indices == ShardNumbers[item.shards]
       IN /\ UNION {shard(index) : index \in indices} = all
          /\ \A i, j \in indices : i # j => shard(i) \cap shard(j) = {}
          /\ \A index \in indices : fewer(index) = shard(index) \ {item.without}
  /\ Is("glob") =>
       /\ GlobMatch(item.pattern, item.text) => Means(item.pattern, item.text)
       /\ IsStarless(item.text) /\ Means(item.pattern, item.text) => GlobMatch(item.pattern, item.text)

\* The arguments before "--".
Before(line) ==
  LET dashes == {i \in DOMAIN line : line[i].kind = "dashdash"}
  IN IF dashes = {} THEN line ELSE SubSeq(line, 1, (CHOOSE i \in dashes : \A j \in dashes : i <= j) - 1)

\* The same line with the i-th option and its value in one argument.
Inlined(line, i) ==
  SubSeq(line, 1, i - 1) \o <<LongWith(line[i].name, line[i + 1].text)>> \o SubSeq(line, i + 2, Len(line))

\* An option that has its value in the argument behind it.
WantsValue(argument) == argument.kind = "long" /\ ~argument.inline /\ argument.name \notin FlagOptions

\* Short options that are taken for the value of the option in front of them.
Swallowed(line) == {i \in 2..Len(line) : line[i].kind = "short" /\ WantsValue(line[i - 1])}

LineKept(line) ==
  LET parsed == Parse(line)
      before == Before(line)
      values == Cardinality({v \in (DOMAIN parsed.options) \X (1..Len(line)) : v[2] <= Len(parsed.options[v[1]])})
      words == Cardinality({i \in DOMAIN before : before[i].kind = "word"})
      swallowed == Cardinality(Swallowed(before))
      inline == Cardinality({i \in DOMAIN before : before[i].inline})
      behind == Len(line) - Len(before) - (IF Len(before) < Len(line) THEN 1 ELSE 0)
      used == (IF parsed.command = "" THEN 0 ELSE 1) + (IF parsed.subcommand = <<>> THEN 0 ELSE 1)
              + values - inline + Len(parsed.positionals) - behind
  IN /\ MainDoes(parsed) \in Commands \ {"help"} =>
          DOMAIN parsed.options \subseteq KnownOptions(MainDoes(parsed)) \cup GlobalOptions
     /\ parsed.error \in {"none", "unknown command"} => used = words + swallowed
     /\ \A i \in 1..(Len(before) - 1) :
          WantsValue(before[i]) /\ before[i + 1].kind = "word" => Parse(Inlined(line, i)) = parsed

\* A line that is accepted loses no word: each is the command, its subcommand,
\* a value or a positional.  Beside words only a short option right behind an
\* option that wants a value is taken for one (--tag -h), never what begins with
\* two dashes.  Both ways to write a value mean the same.  A command runs only
\* with options it knows.
CommandLineKept == Is("line") => LineKept(item.line)

-----------------------------------------------------------------------------
(* Suites, settings and checks                                             *)

\* Validation settles in one pass, whether the host of the base alone is allowed
\* or others too: a suite that was accepted is accepted as it is, its names
\* differ by more than case, and every test is counted once.  What the built-in
\* provider writes is never rejected.
ValidationSettles ==
  /\ Is("suite") =>
       LET report == Validate(item.suite, Home, TargetPolicy(Home, {<<"b">>}))
           again == Validate(report.suite, Home, RestrictedTo(Home))
           tests == report.suite.tests
       IN /\ report.accepted + report.rejected = Len(item.suite.tests)
          /\ again.suite = report.suite /\ again.rejected = 0
          /\ \A i, j \in DOMAIN tests : i # j => LowerName(tests[i].name) # LowerName(tests[j].name)
  /\ Is("mock") => SuiteParses(item.suite) /\
       LET report == Validate(item.suite, Home, RestrictedTo(Home))
       IN report.valid /\ report.suite.tests = KeptTests(item.suite)

\* What a text of the environment or a value of the file is good for.
Usable(key, given) ==
  CASE key \in {"workers", "timeout"} -> given.type = "number"
    [] key \in {"failFast", "database"} -> given.type = "bool"
    [] key = "level" -> given.type = "text" /\ given.value \in Levels
    [] OTHER -> given.type = "text"

\* Each setting has the value of the highest layer that has a usable one:
\* command line, environment, file, default, where .env counts only for
\* variables that are not set, --quiet for more than --verbose and that for more
\* than --log-level.  Of a number of workers that no int holds the lower half is
\* left.  An accepted configuration is within its limits.
SettingsLayered ==
  Is("setting") =>
    LET built == BuildConfig(item.file, item.environment, item.dotEnv, item.flags)
        set(key) == IF item.environment[key] = Absent THEN item.dotEnv[key] ELSE item.environment[key]
        fromFlags(key) == CASE key = "level" -> IF item.flags.quiet THEN Text("error")
                                                ELSE IF item.flags.verbose THEN Text("debug")
                                                ELSE Text(item.flags.level)
                            [] key = "timeout" -> item.flags.timeout
                            [] key = "path" -> item.flags.db
                            [] key = "database" -> IF item.flags.noDb THEN Flag(FALSE)
                                                   ELSE IF item.flags.db # Absent THEN Flag(TRUE) ELSE Absent
                            [] OTHER -> Absent
        layers(key) == <<fromFlags(key), set(key), item.file[key]>>
        usable(key) == {i \in 1..3 : Usable(key, layers(key)[i])}
        given(key) == IF usable(key) = {} THEN Default[key]
                      ELSE layers(key)[CHOOSE i \in usable(key) : \A j \in usable(key) : i <= j].value
    IN ~built.error =>
         /\ \A key \in DOMAIN Default :
              built.config[key] = IF key = "workers" THEN Narrow(given(key)) ELSE given(key)
         /\ built.config.timeout >= 0 /\ EffectiveWorkers(built.config, 0) \in 1..512

\* Failures a live scope holds and nobody has heard of yet.
Held(thread) ==
  LET upTo[n \in 0..Len(thread.scopes)] ==
        IF n = 0 THEN 0 ELSE upTo[n - 1] + thread.scopes[n].failures - thread.scopes[n].thrown
  IN upTo[Len(thread.scopes)]

\* However scopes are nested, verified and unwound, the stack points to live
\* scopes only and is empty when the body ends, so no test records into the
\* scope of another.  A failed check is thrown, held by a live scope or lost: only
\* logged, or recorded after verify().  None is lost to a body that verifies each
\* scope before it leaves it, checks nothing in it afterwards and catches nothing:
\* it passes only if no check failed.  (Assertions.hpp:131-132 says that a scope
\* which is left normally raises its failures by itself; it only logs them.)
\* A generated test is such a body, and passes exactly when all it asserts holds.
NoVerdictLost ==
  /\ Is("body") =>
       LET thread == item.thread
       IN /\ \A i \in DOMAIN thread.active : thread.active[i] \in DOMAIN thread.scopes
          /\ thread.ended # "running" => thread.active = <<>>
          /\ thread.failed = thread.thrown + thread.logged + thread.unseen + Held(thread)
          /\ thread.careful /\ ~thread.caught /\ thread.ended = "passed" => thread.failed = 0
  /\ Is("response") =>
       LET spec == item.spec
           response == item.response
       IN ExecuteSpec(spec, response).ended = "passed" <=>
            /\ StatusAccepted(spec, response) /\ (spec.budget > 0 => response.elapsed <= spec.budget)
            /\ \A i \in DOMAIN spec.assertions : Evaluate(spec.assertions[i], response)

-----------------------------------------------------------------------------
(* Reports                                                                 *)

SumOver(f) == FoldFunction(+, 0, f)

\* The least duration that so many percent of all do not exceed.
LeastAbove(durations, percent) ==
  LET observed == {durations[i] : i \in DOMAIN durations}
      covers(d) == 100 * Cardinality({i \in DOMAIN durations : durations[i] <= d}) >= percent * Len(durations)
  IN IF observed = {} THEN 0 ELSE CHOOSE d \in observed : covers(d) /\ \A e \in observed : covers(e) => d <= e

\* Everything that tells of a run tells the same: the suites of the JUnit file
\* add up to its header and to the statistics, whatever the console leaves out
\* is counted, its last line is the exit code, and the run read back from its
\* JSON is the run.  A result with a damaged member never turns into a pass.
\* `report` repeats what was said of a run that was not retried or cut short.
\* ReportWriter returns exactly the reports that are whole, and one that fails
\* neither stops the others nor replaces an alias that it has no file for.
ReportsAgree ==
  /\ Is("report") =>
       LET run == item.run
           stats == Compute(run.results)
           junit == JUnit(run)
           console == Console(run, 1)
           document == RunToJson(run)
           count(field) == SumOver([s \in DOMAIN junit.suites |-> junit.suites[s][field]])
           needed == Cardinality({i \in DOMAIN run.results : IsFailure(run.results[i].status)})
       IN /\ count("tests") = stats.total /\ junit.tests = stats.total
          /\ count("failures") = junit.failures /\ count("errors") = junit.errors
          /\ count("skipped") = junit.skipped
          /\ stats.total = stats.passed + stats.skipped + needed
          /\ junit.failures + junit.errors = needed
          /\ SumOver(stats.categories) = needed
          /\ Len(console.shown) + console.more = needed
          /\ console.result = "PASS" <=> needed = 0 /\ run.reason = ""
          /\ console.result = "FAIL" => console.attention = needed
          /\ Len(Html(run).failures) = needed
          /\ RunFromJson(document) = run
          /\ \A i \in DOMAIN run.results : \A key \in DOMAIN ResultToJson(run.results[i]) :
               LET damaged == [document EXCEPT !.results.value[i][key] = [type |-> "null", value |-> 0]]
               IN RunExitCode(RunFromJson(damaged)) = 0 => RunExitCode(run) = 0
          /\ LET again == ReportCommand(<<[run |-> run, retried |-> item.retried]>>, "latest", "console")
             IN item.retried = <<>> /\ run.reason = "" => again.report = Console(run, 25)
  /\ Is("timing") =>
       LET durations == item.durations
           stats == Compute([i \in DOMAIN durations |->
                               Result("api", "t1", Verdict("Passed", "None"), durations[i], 1)])
       IN /\ stats.median = LeastAbove(durations, 50) /\ stats.p95 = LeastAbove(durations, 95)
          /\ stats.median <= stats.p95 /\ stats.p95 <= stats.max
          /\ stats.average <= stats.max
  /\ Is("files") =>
       LET before == [k \in {"json", "html", "xml"} |-> "older"]
           after == WriteReports(item.reporters, item.directory, item.fate, item.copied, before)
       IN /\ \A k \in DOMAIN before :
               k \in after.written <=> k \in item.reporters /\ item.directory = "ready" /\ item.fate[k] = "whole"
          /\ \A k \in after.written \cap item.copied : after.latest[k] = "whole"
          /\ \A k \in DOMAIN before : after.latest[k] # "older" =>
               after.written # {} /\ item.fate[k] \in {"whole", "short"}
=============================================================================
