--------------------------- MODULE TestCatalogue ----------------------------
(***************************************************************************)
(* The registry while a run is in progress and requests of the REST API    *)
(* register generated suites: every operation of the registry is atomic,   *)
(* but the registration of a suite and a run are sequences of them.        *)
(***************************************************************************)
EXTENDS SpecValidation, Selection, TLC

CONSTANTS Registrars,       \* threads of the server that may register a suite
          MaxVersions       \* registrations

ASSUME CatalogueAssumption == IsFiniteSet(Registrars) /\ MaxVersions \in Nat

VARIABLES registry,     \* set of entries, one for each suite and name
          registrar,    \* registrar[r]: [pc, suite, todo, version]
          run,          \* [pc, todo, results]
          versions,     \* ghost: registrations begun
          ended,        \* ghost: registrations that have ended, and their suites
          superseded    \* ghost: those of them that a later one has removed

vars == <<registry, registrar, run, versions, ended, superseded>>

Base == [NoText EXCEPT !.scheme = "http", !.authority = <<"api">>, !.path = <<"v1">>]
TargetHosts == {<<"b">>}      \* ai.allowed_target_hosts

-----------------------------------------------------------------------------
(* The registry                                                            *)

Key(e) == <<e.suite, e.name>>

Registered(key) == \E e \in registry : Key(e) = key

NoSpec == PlainSpec(Empty, "GET", Endpoint("missing", <<>>, "none"))

\* AutoRegistration: the suite of a test is one of its tags.
BuiltIn(suite, name) ==
  [suite |-> suite, name |-> name, tags |-> {suite}, enabled |-> TRUE, version |-> 0, spec |-> NoSpec]

\* registerSpecSuite() makes an entry of each accepted test.
Generated(suite, spec, version) ==
  [suite |-> suite, name |-> spec.name, tags |-> spec.tags \cup {"generated", suite}, enabled |-> TRUE,
   version |-> version, spec |-> spec]

RegisterOrReplace(e) == registry' = {o \in registry : Key(o) # Key(e)} \cup {e}

\* Mutant: registration replaces test by test only.
BugRemoveNothing(suite) == UNCHANGED registry

RemoveSuite(suite) == registry' = {e \in registry : e.suite # suite}

-----------------------------------------------------------------------------
(* Registering a suite                                                     *)

Reading(name, endpoint) == PlainSpec(name, "GET", endpoint)

Users == Endpoint("rooted", <<"users">>, "none")

\* Tests that ask for something else than they may.
Unwelcome == { [Reading("t1", Users) EXCEPT !.method = "TRACE"],
               [Reading("t1", Users) EXCEPT !.headers = <<Header("Cookie", "none")>>],
               [Reading("t1", Users) EXCEPT !.acceptable = {99}] }

\* One test or two, some of them to be rejected, and a suite that is built in.
SpecDocuments ==
  { [suite |-> "gen", tests |-> <<Reading("t1", Users), Reading("t2", Users)>>],
    [suite |-> "gen", tests |-> <<Reading("T1", Users), Reading("t1", Users)>>],
    [suite |-> "smoke", tests |-> <<Reading("t1", Users)>>] }
  \cup { [suite |-> "gen", tests |-> <<Reading("t2", Users), spec>>] :
            spec \in {Reading("t1", e) : e \in Endpoints} \cup Unwelcome }

\* generateTests() and loadSpecFile() validate, and registerSpecSuite() does it
\* again with the base's host alone.
AcceptedOf(document) ==
  LET first == Validate(document, Base, TargetPolicy(Base, TargetHosts))
      second == Validate(first.suite, Base, RestrictedTo(Base))
  IN IF SuiteParses(document) /\ first.valid /\ second.valid THEN second.suite.tests ELSE <<>>

Idle == [pc |-> "idle", suite |-> Empty, todo |-> <<>>, version |-> 0]

Begin(r) ==
  /\ registrar[r].pc = "idle" /\ versions < MaxVersions
  /\ versions' = versions + 1
  /\ \E document \in SpecDocuments :
       LET accepted == AcceptedOf(document)
       IN /\ accepted # <<>>
          /\ registrar' = [registrar EXCEPT ![r] =
               [pc |-> "remove", suite |-> document.suite, todo |-> accepted, version |-> versions + 1]]
  /\ UNCHANGED <<registry, run, ended, superseded>>

RemoveOld(r) ==
  /\ registrar[r].pc = "remove"
  /\ RemoveSuite(registrar[r].suite)
  /\ registrar' = [registrar EXCEPT ![r].pc = "add"]
  /\ superseded' = superseded \cup {e \in ended : e.suite = registrar[r].suite}
  /\ UNCHANGED <<run, versions, ended>>

AddNext(r) ==
  LET spec == Head(registrar[r].todo)
      rest == Tail(registrar[r].todo)
  IN /\ registrar[r].pc = "add"
     /\ RegisterOrReplace(Generated(registrar[r].suite, spec, registrar[r].version))
     /\ registrar' = [registrar EXCEPT ![r] = IF rest = <<>> THEN Idle ELSE [@ EXCEPT !.todo = rest]]
     /\ ended' = IF rest = <<>>
                 THEN ended \cup {[suite |-> registrar[r].suite, version |-> registrar[r].version]}
                 ELSE ended
     /\ UNCHANGED <<run, versions, superseded>>

-----------------------------------------------------------------------------
(* The run                                                                 *)

Filters == {NoFilter, [NoFilter EXCEPT !.tags = {"generated"}], [NoFilter EXCEPT !.names = {<<"*", "t1">>}]}

NoHash == [e \in registry |-> 0]

\* A run of the REST API takes the filter as it came.
StartRun ==
  /\ run.pc = "idle"
  /\ \E filter \in Filters :
       run' = [pc |-> "running", results |-> {},
               todo |-> {Key(e) : e \in SelectFrom(registry, filter, NoHash, 1, 0)}]
  /\ UNCHANGED <<registry, registrar, versions, ended, superseded>>

\* create() by name when the turn of a test comes; nothing is an error of the
\* framework.
ResultOf(key) ==
  IF Registered(key)
  THEN [key |-> key, outcome |-> "executed", entry |-> CHOOSE e \in registry : Key(e) = key]
  ELSE [key |-> key, outcome |-> "FrameworkError", entry |-> BuiltIn(Empty, Empty)]

Execute ==
  /\ run.pc = "running"
  /\ \E key \in run.todo :
       run' = [run EXCEPT !.todo = @ \ {key}, !.results = @ \cup {ResultOf(key)}]
  /\ UNCHANGED <<registry, registrar, versions, ended, superseded>>

EndRun ==
  /\ run.pc = "running" /\ run.todo = {}
  /\ run' = [pc |-> "idle", todo |-> {}, results |-> {}]
  /\ UNCHANGED <<registry, registrar, versions, ended, superseded>>

Init == /\ registry = {BuiltIn("smoke", "t1"), BuiltIn("smoke", "t2")}
        /\ registrar = [r \in Registrars |-> Idle]
        /\ run = [pc |-> "idle", todo |-> {}, results |-> {}]
        /\ versions = 0
        /\ ended = {[suite |-> "smoke", version |-> 0]}
        /\ superseded = {}

Next == \/ \E r \in Registrars : Begin(r) \/ RemoveOld(r) \/ AddNext(r)
        \/ StartRun \/ Execute \/ EndRun

Spec == Init /\ [][Next]_vars

-----------------------------------------------------------------------------
\* Whatever the interleaving of registrations and runs, the validator accepts a
\* generated test that is executed, its method, headers, body and assertions, and
\* its request goes to the host of the base URL and below its path, wherever the
\* document wanted it to go.
OnlyAcceptedRuns ==
  \A result \in run.results : result.outcome = "executed" /\ result.entry.version > 0 =>
    LET spec == result.entry.spec
        url == ParseUrl(JoinUrl(Base, spec.endpoint.reference))
        home == ParseUrl(Base)
    IN /\ IsValid(spec, Base, RestrictedTo(Base))
       /\ SameOrigin(home, url) /\ IsStrictPrefix(home.path, url.path)

\* A registration replaces its suite: a test of one that had ended before never
\* reappears, also when two registrations of the suite overlap.
SupersededTestsGone ==
  \A e \in registry : [suite |-> e.suite, version |-> e.version] \notin superseded
=============================================================================
