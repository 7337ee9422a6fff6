---------------------------- MODULE HttpCallers -----------------------------
(***************************************************************************)
(* The users of the HTTP client: an API test (ApiTestCase, SpecTestCase),  *)
(* which makes several requests and leaves their traces in the metadata of *)
(* its result, and the AI provider, which asks the sidecar for a suite or  *)
(* an analysis.                                                            *)
(***************************************************************************)
EXTENDS HttpClient, Verdicts

CONSTANT MaxExchanges      \* requests of one test

ASSUME CallersAssumption == MaxExchanges \in Nat \ {0}

VARIABLES caller,      \* who owns the client
          test,        \* [pc, exchanges, metadata, latest, verdict]
          answer       \* [op, asked, ok, provider, whole]: what the provider returned

vars == <<clientVars, caller, test, answer>>

-----------------------------------------------------------------------------
(* The test                                                                *)

NoTest == [pc |-> "setUp", exchanges |-> 0, metadata |-> NoMetadata,
           latest |-> NoMetadata, verdict |-> Verdict("Passed", "None")]

\* toMetadataJson() as the classifier reads it; a transport error's message
\* names a network failure or a timeout.
MetadataOf(r, cause) ==
  [NoMetadata EXCEPT !.serverError = r.status >= 500,
                     !.transport = IF r.error THEN cause ELSE "absent"]

\* addMetadata() of each key of the exchange: http_status is always there, but
\* transport_error only after a transport error, and nothing removes it.
Record(metadata, new) ==
  [metadata EXCEPT !.serverError = new.serverError,
                   !.transport = IF new.transport = "absent" THEN @ ELSE new.transport]

Ended(ending, inSetUp, metadata) == Judge(BodyVerdict(ending, inSetUp), metadata, FALSE, FALSE)

Throws(kind, category) == [kind |-> kind, category |-> category]

TestSends ==
  /\ caller = "test" /\ test.pc \in {"setUp", "running"}
  /\ test.exchanges < MaxExchanges
  /\ IF cancelled /\ test.pc = "running"
     THEN /\ call.pc = "idle"
          /\ test' = [test EXCEPT !.pc = "done",
                        !.verdict = Ended(Throws("TestCancelled", "None"), FALSE, test.metadata)]
          /\ UNCHANGED clientVars
     ELSE /\ \E method \in {"GET", "POST"} : Send(Home, method, TRUE)
          /\ UNCHANGED test
  /\ UNCHANGED <<caller, answer>>

\* requireReachable() and skipUnlessReachable(): their exchange is not recorded.
Reached ==
  /\ caller = "test" /\ test.pc = "setUp" /\ Return
  /\ \E absent \in {Throws("forge", "DependencyFailure"), Throws("SkipTest", "None")} :
       test' = IF response.error
               THEN [test EXCEPT !.pc = "done", !.verdict = Ended(absent, TRUE, test.metadata)]
               ELSE [test EXCEPT !.pc = "running"]
  /\ UNCHANGED <<caller, answer>>

\* ApiClient::send() records the exchange and hands the response back.
Recorded ==
  /\ caller = "test" /\ test.pc = "running" /\ Return
  /\ \E cause \in {"NetworkFailure", "Timeout"} :
       LET new == MetadataOf(response, cause)
       IN test' = [test EXCEPT !.exchanges = @ + 1, !.latest = new,
                               !.metadata = Record(test.metadata, new)]
  /\ UNCHANGED <<caller, answer>>

\* The body ends: an unreachable service is a NetworkError, whatever else was
\* to be checked; otherwise the checks decide.
TestEnds ==
  /\ caller = "test" /\ test.pc = "running" /\ test.exchanges > 0 /\ call.pc = "idle"
  /\ \E ending \in IF test.latest.transport # "absent" THEN {Throws("forge", "NetworkFailure")}
                   ELSE {Throws("returns", "None"), Throws("AssertionFailure", "None")} :
       test' = [test EXCEPT !.pc = "done", !.verdict = Ended(ending, FALSE, test.metadata)]
  /\ UNCHANGED <<clientVars, caller, answer>>

-----------------------------------------------------------------------------
(* The AI provider                                                         *)

\* asked: ai.enabled and TESTFORGE_AI_MOCK.
NoAnswer == [op |-> "none", asked |-> [enabled |-> FALSE, mock |-> FALSE], ok |-> FALSE,
             provider |-> "none", whole |-> FALSE]

\* Mutant: without an endpoint that is enabled the mock helps out.
BugCreateProvider(enabled, mock) == IF mock \/ ~enabled THEN "mock" ELSE "http"

\* createProvider(): the mock only where it was asked for.
CreateProvider(enabled, mock) ==
  IF ~enabled THEN "disabled" ELSE IF mock THEN "mock" ELSE "http"

\* What a body holds once it is parsed.
Documents == {"notJson", "okFalse", "incomplete", "mismatch", "good"}

\* A proper part of an object is no document; a part of a number can be one, such as the
\* size of a chunk that never came, and has no members.
DocumentsOf(r) ==
  IF r.cut \/ r.truncated \/ r.raw \/ r.body = 0 THEN {"notJson", "incomplete"} ELSE Documents

\* Mutant: the document is taken as far as it can be read.
BugAcceptsSuite(r, document) == ~r.error /\ r.status \in 200..299

\* generateTests(): a suite needs a whole document with a specification that
\* matches the schema.
AcceptsSuite(r, document) == ~r.error /\ r.status \in 200..299 /\ document = "good"

\* analyseFailure(): and an analysis one with a probable cause.
AcceptsAnalysis(r, document) == ~r.error /\ r.status \in 200..299 /\ document = "good"

\* health(): any successful answer will do.
Reachable(r) == ~r.error /\ r.status \in 200..299

Accepts(op, r, document) ==
  CASE op = "generate" -> AcceptsSuite(r, document)
    [] op = "analyse" -> AcceptsAnalysis(r, document)
    [] OTHER -> Reachable(r)

Ask ==
  /\ caller = "ai" /\ answer = NoAnswer
  /\ \E op \in {"generate", "analyse", "health"}, enabled, mock \in BOOLEAN :
       LET provider == CreateProvider(enabled, mock)
       IN /\ answer' = [op |-> op, asked |-> [enabled |-> enabled, mock |-> mock],
                          ok |-> provider = "mock", provider |-> provider, whole |-> provider = "mock"]
          /\ IF provider = "http"
             THEN Send(Home, IF op = "health" THEN "GET" ELSE "POST", FALSE)
             ELSE call.pc = "idle" /\ UNCHANGED clientVars
  /\ UNCHANGED <<caller, test>>

Answered ==
  /\ caller = "ai" /\ Return
  /\ \E document \in DocumentsOf(response) :
       answer' = [answer EXCEPT !.ok = Accepts(answer.op, response, document),
                                !.whole = document = "good"]
  /\ UNCHANGED <<caller, test>>

-----------------------------------------------------------------------------
\* A caller of the bare client: get(), post(), put(), patch(), del(), and send()
\* with a HEAD request.
PlainSends ==
  /\ caller = "plain"
  /\ \E method \in {"GET", "POST", "PUT", "PATCH", "DELETE", "HEAD"} : Send(Home, method, TRUE)
  /\ UNCHANGED <<caller, test, answer>>

PlainReturns == /\ caller = "plain" /\ Return
                /\ caller' = "finished"
                /\ UNCHANGED <<test, answer>>

\* optionsFrom() and the constructor of HttpAiProvider pin the client to a host.
OptionsOf(who) ==
  [follow |-> who # "ai",
   policy |-> IF who = "plain" THEN DefaultPolicy ELSE RestrictedTo(Home)]

Init == /\ ClientInit
        /\ caller \in {"test", "ai", "plain"}
        /\ options = OptionsOf(caller)
        /\ test = NoTest
        /\ answer = NoAnswer

Finished == /\ call.pc = "idle"
            /\ \/ caller = "finished"
               \/ caller = "test" /\ test.pc = "done"
               \/ caller = "ai" /\ answer # NoAnswer
            /\ UNCHANGED vars

Next == \/ TestSends \/ Reached \/ Recorded \/ TestEnds
        \/ Ask \/ Answered \/ PlainSends \/ PlainReturns
        \/ ClientStep /\ UNCHANGED <<caller, test, answer>>
        \/ Environment /\ UNCHANGED <<caller, test, answer>>
        \/ Finished

Spec == Init /\ [][Next]_vars /\ ClientFairness /\ WF_vars(Reached \/ Recorded \/ Answered \/ PlainReturns)

-----------------------------------------------------------------------------
\* A call returns, whatever the server does: the deadline of each hop and the
\* cap on redirects bound it even if the server stalls or redirects for ever.
RequestEnds == (call.pc # "idle") ~> (call.pc = "idle")

\* The AI provider gives what was asked for or an error.  An answer comes from the mock
\* exactly when the mock was asked for and from the endpoint otherwise: the one never
\* stands in for the other, and without the endpoint nothing is sent to anybody
\* (AiProvider.cpp:149-160).  A suite or an analysis of the endpoint is accepted only from
\* a successful reply that arrived whole and held a document of the expected form: not
\* from one that a peer cut short, that was cut at the limit, or that still has its chunk
\* sizes in it (HttpAiProvider.cpp:92-155, 178-224).
AnswersAreWhole ==
  /\ answer.ok /\ call.pc = "idle" =>
       /\ answer.asked.enabled
       /\ answer.provider = IF answer.asked.mock THEN "mock" ELSE "http"
       /\ answer.op # "health" /\ answer.provider = "http" =>
            /\ answer.whole /\ ~response.error /\ response.status \in 200..299
            /\ ~response.cut /\ ~response.truncated /\ ~response.raw
  /\ caller = "ai" /\ ~(answer.asked.enabled /\ ~answer.asked.mock) => contacts = {}
=============================================================================
