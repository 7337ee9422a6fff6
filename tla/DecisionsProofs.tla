--------------------------- MODULE DecisionsProofs --------------------------
(***************************************************************************)
(* What the decisions that need no concurrency compute, for every input:   *)
(* URLs, the evidence a failure is classified by, generated tests and the  *)
(* validation of what generates them, and the failures a body accounts for *)
(* however its scopes nest.  And the registry under any number of threads  *)
(* that register suites: what one registration has removed never comes     *)
(* back, whichever way it overlaps with others, and only accepted suites   *)
(* run.                                                                    *)
(***************************************************************************)
EXTENDS MCDecisions, TestCatalogue, WellFoundedInduction, SequenceTheorems, TLAPS

-----------------------------------------------------------------------------
(* Induction.                                                              *)

\* Induction over the numbers as a fact about sets: of the numbers outside S
\* there would be a least one.
LEMMA SetInduction ==
  ASSUME NEW S, 0 \in S, \A n \in Nat : n \in S => n + 1 \in S
  PROVE  Nat \subseteq S
<1> SUFFICES ASSUME Nat \ S # {} PROVE FALSE
  OBVIOUS
<1>1. PICK n \in Nat \ S : \A m \in Nat \ S : ~(<<m, n>> \in OpToRel(<, Nat))
  BY NatLessThanWellFounded, WFMin, Zenon
<1>2. \A m \in Nat \ S : ~(m < n)  BY <1>1 DEF OpToRel
<1>3. n # 0 /\ n - 1 \in Nat  OBVIOUS
<1>4. n - 1 \in S  BY <1>2, <1>3
<1> QED BY <1>3, <1>4

-----------------------------------------------------------------------------
(* URLs.                                                                   *)

\* The text of a URL whose host is a name or an IPv4 address.
PlainText(text) ==
  \E scheme, h, port, path, query :
    text = [scheme |-> scheme, bracketed |-> FALSE, authority |-> <<h>>, port |-> port,
            path |-> path, query |-> query]

\* The ports whose numbers are known.
GivenPorts == {1, 80, 443, 8000}

\* What ParseUrl() makes of such a text.
PlainUrl(url) ==
  \E scheme, h, port, path, query :
    /\ url = [scheme |-> scheme, host |-> <<h>>, port |-> port, path |-> path, query |-> query]
    /\ scheme \notin {Empty, "b@d"} /\ h \notin {Empty, "API"}
    /\ port \in GivenPorts \cup {0} /\ (port = 0 => DefaultPortFor(scheme) = 0)

LEMMA EmptyDiffers ==
  Empty \notin {"80", "8000", "443", "1", "b@d", "API", "api"}
BY Zenon DEF Empty

\* A port that is in range is one whose text is known.
LEMMA KnownPorts ==
  /\ \A text : PortNumber(text) \in 1..MaxPort => PortNumber(text) \in GivenPorts
  /\ \A port \in GivenPorts :
       PortNumber(PortText(port)) = port /\ port \in 1..MaxPort /\ PortText(port) # Empty
<1>1. /\ PortNumber("80") = 80 /\ PortNumber("8000") = 8000 /\ PortNumber("443") = 443
      /\ PortNumber("1") = 1 /\ PortNumber("0") = 0 /\ PortNumber("65536") = 65536
  BY DEF PortNumber
<1>2. ASSUME NEW text, text \notin {"80", "8000", "443", "1", "0", "65536"} PROVE PortNumber(text) = -1
  BY <1>2 DEF PortNumber
<1>3. PortText(80) = "80" /\ PortText(8000) = "8000" /\ PortText(443) = "443" /\ PortText(1) = "1"
  BY DEF PortText
<1>4. MaxPort \in Nat /\ 8000 <= MaxPort /\ MaxPort < 65536  BY DEF MaxPort
<1>5. ASSUME NEW text, PortNumber(text) \in 1..MaxPort PROVE PortNumber(text) \in {1, 80, 443, 8000}
  <2>1. CASE text \in {"80", "8000", "443", "1", "0", "65536"}  BY <1>1, <1>4, <1>5, <2>1
  <2>2. CASE text \notin {"80", "8000", "443", "1", "0", "65536"}  BY <1>2, <1>4, <1>5, <2>2
  <2> QED BY <2>1, <2>2
<1> QED BY <1>1, <1>3, <1>4, <1>5, EmptyDiffers DEF GivenPorts

\* A sequence of two, put together and taken apart.
LEMMA PairOf ==
  ASSUME NEW a, NEW b
  PROVE  Append(<<a>>, b) = <<a, b>> /\ SubSeq(<<a, b>>, 1, 1) = <<a>>
<1>1. PICK x : x = Append(<<a>>, b)  OBVIOUS
<1>2. PICK y : y = <<a, b>>  OBVIOUS
<1>3. x \in Seq({a, b}) /\ Len(x) = 2 /\ x[1] = a /\ x[2] = b  BY <1>1
<1>4. y \in Seq({a, b}) /\ Len(y) = 2 /\ y[1] = a /\ y[2] = b  BY <1>2
<1>5. \A i \in 1..Len(x) : x[i] = y[i]  BY <1>3, <1>4
<1>6. x = y  BY <1>3, <1>4, <1>5, SeqEqual
<1>7. PICK z : z = SubSeq(y, 1, 1)  OBVIOUS
<1>8. PICK w : w = <<a>>  OBVIOUS
<1>9. z \in Seq({a, b}) /\ Len(z) = 1 /\ z[1] = a  BY <1>4, <1>7
<1>10. w \in Seq({a, b}) /\ Len(w) = 1 /\ w[1] = a  BY <1>8
<1>11. \A i \in 1..Len(z) : z[i] = w[i]  BY <1>9, <1>10
<1>12. z = w  BY <1>9, <1>10, <1>11, SeqEqual
<1> QED BY <1>1, <1>2, <1>6, <1>7, <1>8, <1>12

\* A text is cut into its host and its port.
LEMMA CutPlain ==
  ASSUME NEW text, NEW h, text.bracketed = FALSE, text.authority = <<h>>
  PROVE  /\ HostAndPort(text).host = <<h>>
         /\ HostAndPort(text).given <=> text.port # Empty
         /\ text.port # Empty => HostAndPort(text).port = text.port
<1>1. CASE text.port = Empty
  <2>1. HostAndPort(text) = [host |-> <<h>>, port |-> Empty, given |-> FALSE]
    BY <1>1 DEF HostAndPort
  <2> QED BY <1>1, <2>1
<1>2. CASE text.port # Empty
  <2>1. PICK port : port = text.port  OBVIOUS
  <2>2. Append(<<h>>, port) = <<h, port>>  BY PairOf
  <2>3. Front(<<h, port>>) = <<h>> /\ Last(<<h, port>>) = port  BY PairOf DEF Front, Last
  <2>4. HostAndPort(text) = [host |-> <<h>>, port |-> port, given |-> TRUE]
    <3>1. Len(<<h, port>>) > 1  OBVIOUS
    <3> QED BY <1>2, <2>1, <2>2, <2>3, <3>1, Zenon DEF HostAndPort
  <2> QED BY <1>2, <2>1, <2>4
<1> QED BY <1>1, <1>2

\* What a plain text is parsed to.
LEMMA ParsePlain ==
  ASSUME NEW text, PlainText(text), ParseUrl(text) # NoUrl
  PROVE  /\ PlainUrl(ParseUrl(text))
         /\ ParseUrl(text).scheme = text.scheme
         /\ ParseUrl(text).host = <<Lower(text.authority[1])>>
         /\ ParseUrl(text).port = IF text.port # Empty THEN PortNumber(text.port) ELSE DefaultPortFor(text.scheme)
         /\ ParseUrl(text).path = text.path /\ ParseUrl(text).query = text.query
<1>1. PICK h : text.bracketed = FALSE /\ text.authority = <<h>>  BY DEF PlainText
<1>2. PICK cut : cut = HostAndPort(text)  OBVIOUS
<1>3. cut.host = <<h>> /\ (cut.given <=> text.port # Empty) /\ (text.port # Empty => cut.port = text.port)
  BY <1>1, <1>2, CutPlain
<1>4. PICK port : port = PortNumber(cut.port)  OBVIOUS
<1>5. PICK host : host = [i \in DOMAIN cut.host |-> Lower(cut.host[i])]  OBVIOUS
<1>6. PICK given : given = IF cut.given THEN port ELSE DefaultPortFor(text.scheme)  OBVIOUS
<1>7. ParseUrl(text) = IF \/ text.scheme \in {Empty, "b@d"}
                          \/ cut.host \in {<<>>, <<Empty>>}
                          \/ cut.given /\ port \notin 1..MaxPort
                       THEN NoUrl
                       ELSE [scheme |-> text.scheme, host |-> host, port |-> given,
                             path |-> text.path, query |-> text.query]
  BY <1>2, <1>4, <1>5, <1>6, Zenon DEF ParseUrl
<1>8. /\ ParseUrl(text) = [scheme |-> text.scheme, host |-> host, port |-> given,
                           path |-> text.path, query |-> text.query]
      /\ text.scheme \notin {Empty, "b@d"} /\ cut.host \notin {<<>>, <<Empty>>}
      /\ cut.given => port \in 1..MaxPort
  BY <1>7, Zenon
<1>9. h # Empty  BY <1>3, <1>8
<1>10. host = <<Lower(h)>>  BY <1>3, <1>5
<1>11. Lower(h) \notin {Empty, "API"}  BY <1>9, EmptyDiffers DEF Lower
<1>12. given = IF text.port # Empty THEN PortNumber(text.port) ELSE DefaultPortFor(text.scheme)
  BY <1>3, <1>4, <1>6
<1>13. given \in GivenPorts \cup {0} /\ (given = 0 => DefaultPortFor(text.scheme) = 0)
  <2>1. CASE text.port # Empty
    BY <1>3, <1>4, <1>6, <1>8, <2>1, KnownPorts
  <2>2. CASE text.port = Empty
    <3>1. DefaultPortFor(text.scheme) \in {0, 80, 443}  BY DEF DefaultPortFor
    <3> QED BY <1>12, <2>2, <3>1 DEF GivenPorts
  <2> QED BY <2>1, <2>2
<1>14. PlainUrl(ParseUrl(text))
  BY <1>8, <1>10, <1>11, <1>13, Zenon DEF PlainUrl
<1> QED BY <1>1, <1>8, <1>10, <1>12, <1>14

\* A plain URL that is written down and parsed again is the same URL.
LEMMA PlainRoundTrip ==
  ASSUME NEW url, PlainUrl(url) PROVE PlainText(ToText(url)) /\ ParseUrl(ToText(url)) = url
<1>1. PICK scheme, h, port, path, query :
        /\ url = [scheme |-> scheme, host |-> <<h>>, port |-> port, path |-> path, query |-> query]
        /\ scheme \notin {Empty, "b@d"} /\ h \notin {Empty, "API"}
        /\ port \in GivenPorts \cup {0} /\ (port = 0 => DefaultPortFor(scheme) = 0)
  BY DEF PlainUrl
<1>2. PICK written : written = IF port \in {0, DefaultPortFor(scheme)} THEN Empty ELSE PortText(port)
  OBVIOUS
<1>3. PICK text : text = [scheme |-> scheme, bracketed |-> FALSE, authority |-> <<h>>, port |-> written,
                          path |-> path, query |-> query]
  OBVIOUS
<1>4. ToText(url) = text  BY <1>1, <1>2, <1>3 DEF ToText
<1>5. /\ text.scheme = scheme /\ text.bracketed = FALSE /\ text.authority = <<h>> /\ text.port = written
      /\ text.path = path /\ text.query = query
  BY <1>3
<1>6. PICK cut : cut = HostAndPort(text)  OBVIOUS
<1>7. cut.host = <<h>> /\ (cut.given <=> written # Empty) /\ (written # Empty => cut.port = written)
  BY <1>5, <1>6, CutPlain
<1>8. ~(cut.given /\ PortNumber(cut.port) \notin 1..MaxPort)
  <2> SUFFICES ASSUME written # Empty PROVE PortNumber(written) \in 1..MaxPort  BY <1>7
  <2>1. written = PortText(port) /\ port \in GivenPorts  BY <1>1, <1>2
  <2> QED BY <2>1, KnownPorts
<1>9. PICK given : given = IF cut.given THEN PortNumber(cut.port) ELSE DefaultPortFor(scheme)  OBVIOUS
<1>10. given = port
  BY <1>1, <1>2, <1>7, <1>9, KnownPorts
<1>11. PICK host : host = [i \in DOMAIN cut.host |-> Lower(cut.host[i])]  OBVIOUS
<1>12. host = <<h>>  BY <1>1, <1>7, <1>11 DEF Lower
<1>13. ParseUrl(text) = [scheme |-> scheme, host |-> host, port |-> given, path |-> path, query |-> query]
  <2>1. cut.host \notin {<<>>, <<Empty>>}  BY <1>1, <1>7
  <2> QED BY <1>1, <1>5, <1>6, <1>8, <1>9, <1>11, <2>1, Zenon DEF ParseUrl
<1>14. PlainText(text)  BY <1>3 DEF PlainText
<1> QED BY <1>1, <1>4, <1>10, <1>12, <1>13, <1>14

\* Nothing plain is the URL that stands for none, or the text that does.
LEMMA PlainIsSome ==
  /\ \A url : PlainUrl(url) => url # NoUrl
  /\ \A text : PlainText(text) => text # NoText
BY DEF PlainUrl, PlainText, NoUrl, NoText

\* joinUrl() with anything but an absolute URL keeps the origin of the base and
\* appends to its path.
LEMMA JoinStays ==
  ASSUME NEW base, PlainText(base), NEW reference, reference.kind # "absolute",
         JoinUrl(base, reference) # NoText
  PROVE  /\ ParseUrl(base) # NoUrl
         /\ PlainUrl(ParseUrl(JoinUrl(base, reference)))
         /\ ParseUrl(JoinUrl(base, reference)) =
              [ParseUrl(base) EXCEPT !.path = @ \o reference.path, !.query = reference.text.query]
         /\ SameOrigin(ParseUrl(base), ParseUrl(JoinUrl(base, reference)))
<1>1. PICK url : url = ParseUrl(base)  OBVIOUS
<1>2. PICK longer : longer = [url EXCEPT !.path = @ \o reference.path, !.query = reference.text.query]
  OBVIOUS
<1>3. /\ url # NoUrl
      /\ JoinUrl(base, reference) = ToText([url EXCEPT !.path = url.path \o reference.path,
                                                       !.query = reference.text.query])
  BY <1>1, Zenon DEF JoinUrl
<1>4. PlainUrl(url)  BY <1>1, <1>3, ParsePlain
<1>5. PICK scheme, h, port, path, query :
        /\ url = [scheme |-> scheme, host |-> <<h>>, port |-> port, path |-> path, query |-> query]
        /\ scheme \notin {Empty, "b@d"} /\ h \notin {Empty, "API"}
        /\ port \in GivenPorts \cup {0} /\ (port = 0 => DefaultPortFor(scheme) = 0)
  BY <1>4 DEF PlainUrl
<1>6. longer = [scheme |-> scheme, host |-> <<h>>, port |-> port, path |-> path \o reference.path,
                query |-> reference.text.query]
  BY <1>2, <1>5
<1>7. PlainUrl(longer)  BY <1>5, <1>6, Zenon DEF PlainUrl
<1>8. [url EXCEPT !.path = url.path \o reference.path, !.query = reference.text.query] = longer
  BY <1>2, Zenon
<1>9. ParseUrl(JoinUrl(base, reference)) = longer  BY <1>3, <1>7, <1>8, PlainRoundTrip
<1>10. SameOrigin(url, longer)  BY <1>5, <1>6 DEF SameOrigin
<1> QED BY <1>1, <1>2, <1>3, <1>7, <1>9, <1>10

\* The policy made from a base URL accepts exactly what is on its host and is HTTP.
LEMMA PolicyOfBase ==
  ASSUME NEW base, ParseUrl(base) # NoUrl, NEW url
  PROVE  Reject(RestrictedTo(base), url) <=>
           url.scheme \notin {"http", "https"} \/ url.host # ParseUrl(base).host
<1>1. PICK host : host = ParseUrl(base).host  OBVIOUS
<1>2. RestrictedTo(base) = [DefaultPolicy EXCEPT !.hosts = {host}]
  BY <1>1, Zenon DEF RestrictedTo
<1>3. RestrictedTo(base).hosts = {host} /\ RestrictedTo(base).schemes = {"http", "https"}
  BY <1>2 DEF DefaultPolicy
<1>4. Reject(RestrictedTo(base), url) <=> url.scheme \notin {"http", "https"} \/ url.host \notin {host}
  <2>1. {host} # {}  OBVIOUS
  <2> QED BY <1>3, <2>1, Zenon DEF Reject
<1> QED BY <1>1, <1>4

\* An endpoint that is allowed when other hosts are allowed too goes to the host
\* of the base and is allowed without them.
LEMMA PermittedAtHome ==
  ASSUME NEW base, PlainText(base), NEW hosts, NEW endpoint, IsSafeEndpoint(endpoint),
         IsPermitted(endpoint, base, TargetPolicy(base, hosts))
  PROVE  IsPermitted(endpoint, base, RestrictedTo(base))
<1>1. PICK text : text = JoinUrl(base, endpoint.reference)  OBVIOUS
<1>2. PICK url : url = ParseUrl(text)  OBVIOUS
<1>3. text # NoText /\ url # NoUrl /\ ~Reject(TargetPolicy(base, hosts), url)
  BY <1>1, <1>2 DEF IsPermitted
<1>4. endpoint.reference.kind # "absolute"  BY DEF IsSafeEndpoint
<1>5. ParseUrl(base) # NoUrl /\ SameOrigin(ParseUrl(base), url)
  BY <1>1, <1>2, <1>3, <1>4, JoinStays
<1>6. url.scheme \in {"http", "https"}
  <2>1. PICK policy : policy = [DefaultPolicy EXCEPT !.hosts = {ParseUrl(base).host}]  OBVIOUS
  <2>2. RestrictedTo(base) = policy  BY <1>5, <2>1, Zenon DEF RestrictedTo
  <2>3. TargetPolicy(base, hosts) = [policy EXCEPT !.hosts = @ \cup hosts]
    BY <2>2, Zenon DEF TargetPolicy
  <2>4. TargetPolicy(base, hosts).schemes = {"http", "https"}  BY <2>1, <2>3 DEF DefaultPolicy
  <2>5. url.scheme \in TargetPolicy(base, hosts).schemes  BY <1>3, Zenon DEF Reject
  <2> QED BY <2>4, <2>5
<1>7. ~Reject(RestrictedTo(base), url)  BY <1>5, <1>6, PolicyOfBase DEF SameOrigin
<1> QED BY <1>1, <1>2, <1>3, <1>7, Zenon DEF IsPermitted

-----------------------------------------------------------------------------
(* What the validator accepts.                                             *)

\* The tests that validate() keeps, by their places in the document.
KeptPlaces(tests, base, policy) ==
  {i \in DOMAIN tests :
     /\ \A j \in 1..(i - 1) : LowerName(tests[j].name) # LowerName(tests[i].name)
     /\ IsValid(tests[i], base, policy)}

\* The accepted tests among the first i, as the loop of validate() has them.
Gathers(f, tests, kept, n) ==
  f = [i \in 0..n |->
         IF i = 0 THEN <<>> ELSE IF i \in kept THEN Append(f[i - 1], tests[i]) ELSE f[i - 1]]

\* The loop computes something, for any number of tests.
LEMMA GatheringExists ==
  ASSUME NEW n \in Nat, NEW tests, NEW kept PROVE \E f : Gathers(f, tests, kept, n)
<1> DEFINE S == {m \in Nat : \E f : Gathers(f, tests, kept, m)}
<1>1. 0 \in S
  <2>1. PICK f : f = [i \in 0..0 |-> <<>>]  OBVIOUS
  <2>2. Gathers(f, tests, kept, 0)  BY <2>1 DEF Gathers
  <2> QED BY <2>2
<1>2. ASSUME NEW m \in Nat, m \in S PROVE m + 1 \in S
  <2>1. PICK f : Gathers(f, tests, kept, m)  BY <1>2
  <2>2. PICK g : g = [i \in 0..(m + 1) |->
                        IF i <= m THEN f[i] ELSE IF i \in kept THEN Append(f[m], tests[i]) ELSE f[m]]
    OBVIOUS
  <2>3. ASSUME NEW i \in 0..(m + 1)
        PROVE  g[i] = IF i = 0 THEN <<>> ELSE IF i \in kept THEN Append(g[i - 1], tests[i]) ELSE g[i - 1]
    <3>1. CASE i = 0  BY <2>1, <2>2, <3>1 DEF Gathers
    <3>2. CASE i # 0 /\ i <= m
      <4>1. i - 1 \in 0..m /\ g[i - 1] = f[i - 1] /\ g[i] = f[i]  BY <2>2, <3>2
      <4>2. \A j \in 0..m : f[j] = IF j = 0 THEN <<>>
                                 ELSE IF j \in kept THEN Append(f[j - 1], tests[j]) ELSE f[j - 1]
        BY <2>1, Zenon DEF Gathers
      <4>3. i \in 0..m  BY <3>2
      <4> QED BY <4>1, <4>2, <4>3
    <3>3. CASE i = m + 1
      <4>1. g[m] = f[m] /\ i - 1 = m /\ i # 0  BY <2>2, <3>3
      <4> QED BY <2>2, <3>3, <4>1
    <3> QED BY <3>1, <3>2, <3>3
  <2>4. Gathers(g, tests, kept, m + 1)  BY <2>2, <2>3 DEF Gathers
  <2> QED BY <2>4
<1> HIDE DEF S
<1>3. n \in S  BY <1>1, <1>2, SetInduction
<1> QED BY <1>3 DEF S

\* The loop is the one of the definition.
LEMMA AcceptedGathers ==
  ASSUME NEW tests, Len(tests) \in Nat, NEW base, NEW policy
  PROVE  \E f : /\ Gathers(f, tests, KeptPlaces(tests, base, policy), Len(tests))
                /\ AcceptedTests(tests, base, policy) = f[Len(tests)]
<1> DEFINE kept == KeptPlaces(tests, base, policy)
           f == CHOOSE f : f = [i \in 0..Len(tests) |->
                  IF i = 0 THEN <<>> ELSE IF i \in kept THEN Append(f[i - 1], tests[i]) ELSE f[i - 1]]
<1>1. AcceptedTests(tests, base, policy) = f[Len(tests)]
  BY DEF AcceptedTests, KeptPlaces
<1>2. Gathers(f, tests, kept, Len(tests))
  <2>1. \E g : Gathers(g, tests, kept, Len(tests))  BY GatheringExists
  <2> HIDE DEF kept
  <2> QED BY <2>1, Zenon DEF Gathers
<1> QED BY <1>1, <1>2

\* A sequence picks the kept ones of the first i tests, each once and in order:
\* at[k] is where its k-th element comes from.
Picks(at, picked, tests, kept, i) ==
  /\ at \in [1..Len(picked) -> kept \cap (1..i)]
  /\ \A k, l \in 1..Len(picked) : k < l => at[k] < at[l]
  /\ \A k \in 1..Len(picked) : picked[k] = tests[at[k]]
  /\ \A p \in kept \cap (1..i) : \E k \in 1..Len(picked) : at[k] = p

\* One turn of the loop for a test that is kept.
LEMMA PicksAppend ==
  ASSUME NEW T, NEW picked \in Seq(T), NEW x \in T, NEW at, NEW tests, NEW kept, NEW i \in Nat,
         Picks(at, picked, tests, kept, i), i + 1 \in kept, x = tests[i + 1]
  PROVE  \E new : Picks(new, Append(picked, x), tests, kept, i + 1)
<1> DEFINE n == Len(picked)
           longer == Append(picked, x)
<1>1. n \in Nat /\ Len(longer) = n + 1 /\ longer[n + 1] = x /\ \A k \in 1..n : longer[k] = picked[k]
  OBVIOUS
<1>2. /\ at \in [1..n -> kept \cap (1..i)]
      /\ \A k, l \in 1..n : k < l => at[k] < at[l]
      /\ \A k \in 1..n : picked[k] = tests[at[k]]
      /\ \A p \in kept \cap (1..i) : \E k \in 1..n : at[k] = p
  BY DEF Picks
<1> HIDE DEF n, longer
<1>3. PICK new : new = [k \in 1..(n + 1) |-> IF k = n + 1 THEN i + 1 ELSE at[k]]  OBVIOUS
<1>4. new[n + 1] = i + 1 /\ \A k \in 1..n : new[k] = at[k] /\ at[k] \in kept \cap (1..i)
  BY <1>1, <1>2, <1>3
<1>5. new \in [1..(n + 1) -> kept \cap (1..(i + 1))]  BY <1>1, <1>3, <1>4
<1>6. ASSUME NEW k \in 1..(n + 1), NEW l \in 1..(n + 1), k < l PROVE new[k] < new[l]
  <2>1. k \in 1..n  BY <1>1, <1>6
  <2>2. CASE l = n + 1  BY <1>4, <2>1, <2>2
  <2>3. CASE l # n + 1
    <3>1. l \in 1..n  BY <1>1, <2>3
    <3> QED BY <1>2, <1>4, <1>6, <2>1, <3>1
  <2> QED BY <2>2, <2>3
<1>7. ASSUME NEW k \in 1..(n + 1) PROVE longer[k] = tests[new[k]]
  <2>1. CASE k = n + 1  BY <1>1, <1>4, <2>1
  <2>2. CASE k # n + 1
    <3>1. k \in 1..n  BY <1>1, <2>2
    <3> QED BY <1>1, <1>2, <1>4, <3>1
  <2> QED BY <2>1, <2>2
<1>8. ASSUME NEW p \in kept \cap (1..(i + 1)) PROVE \E k \in 1..(n + 1) : new[k] = p
  <2>1. CASE p = i + 1
    <3>1. n + 1 \in 1..(n + 1)  BY <1>1
    <3> QED BY <1>4, <2>1, <3>1
  <2>2. CASE p # i + 1
    <3>1. PICK k \in 1..n : at[k] = p  BY <1>2, <2>2
    <3>2. k \in 1..(n + 1)  BY <1>1
    <3> QED BY <1>4, <3>1, <3>2
  <2> QED BY <2>1, <2>2
<1>9. Picks(new, longer, tests, kept, i + 1)  BY <1>1, <1>5, <1>6, <1>7, <1>8 DEF Picks
<1> QED BY <1>9 DEF longer

\* The loop, turn by turn: what it has after i tests are the kept ones of them.
LEMMA GatheringPicks ==
  ASSUME NEW T, NEW tests \in Seq(T), NEW kept, kept \subseteq DOMAIN tests, NEW f,
         Gathers(f, tests, kept, Len(tests)), NEW i \in 0..Len(tests)
  PROVE  /\ f[i] \in Seq(T) /\ Len(f[i]) <= i
         /\ \E at : Picks(at, f[i], tests, kept, i)
<1> DEFINE Good(m) == /\ f[m] \in Seq(T) /\ Len(f[m]) <= m
                      /\ \E at : Picks(at, f[m], tests, kept, m)
           S == {m \in Nat : m <= Len(tests) => Good(m)}
<1>a. Len(tests) \in Nat  OBVIOUS
<1>b. \A j \in 0..Len(tests) : f[j] = IF j = 0 THEN <<>>
                                 ELSE IF j \in kept THEN Append(f[j - 1], tests[j]) ELSE f[j - 1]
  BY Zenon DEF Gathers
<1>1. 0 \in S
  <2>1. f[0] = <<>>  BY <1>a, <1>b
  <2>2. PICK at : at = [k \in 1..0 |-> 0]  OBVIOUS
  <2>3. Picks(at, <<>>, tests, kept, 0)  BY <2>2 DEF Picks
  <2>4. <<>> \in Seq(T) /\ Len(<<>>) <= 0  OBVIOUS
  <2>5. Good(0)  BY <2>1, <2>3, <2>4
  <2> HIDE DEF Good
  <2> QED BY <2>5
<1>2. ASSUME NEW m \in Nat, m \in S, m + 1 <= Len(tests) PROVE Good(m + 1)
  <2>1. Good(m)  BY <1>2, <1>a
  <2>2. f[m + 1] = IF m + 1 \in kept THEN Append(f[m], tests[m + 1]) ELSE f[m]
    <3>1. m + 1 \in 0..Len(tests) /\ m + 1 # 0 /\ (m + 1) - 1 = m  BY <1>2, <1>a
    <3> QED BY <1>b, <3>1
  <2>3. tests[m + 1] \in T  BY <1>2, <1>a
  <2> HIDE DEF S
  <2>4. CASE m + 1 \in kept
    <3>1. f[m + 1] = Append(f[m], tests[m + 1])  BY <2>2, <2>4
    <3>2. f[m + 1] \in Seq(T) /\ Len(f[m + 1]) <= m + 1  BY <2>1, <2>3, <3>1
    <3>3. PICK at : Picks(at, f[m], tests, kept, m)  BY <2>1
    <3>4. \E new : Picks(new, Append(f[m], tests[m + 1]), tests, kept, m + 1)
      BY <2>1, <2>3, <2>4, <3>3, PicksAppend
    <3> QED BY <3>1, <3>2, <3>4
  <2>5. CASE m + 1 \notin kept
    <3>1. f[m + 1] = f[m]  BY <2>2, <2>5
    <3>2. kept \cap (1..(m + 1)) = kept \cap (1..m)  BY <2>5
    <3>3. PICK at : Picks(at, f[m], tests, kept, m)  BY <2>1
    <3>4. Picks(at, f[m], tests, kept, m + 1)  BY <3>2, <3>3 DEF Picks
    <3> QED BY <2>1, <3>1, <3>4
  <2> QED BY <2>4, <2>5
<1> HIDE DEF Good
<1>3. \A m \in Nat : m \in S => m + 1 \in S  BY <1>2
<1>4. i \in S
  <2> HIDE DEF S
  <2> QED BY <1>1, <1>3, <1>a, SetInduction
<1>5. Good(i)  BY <1>4, <1>a
<1> QED BY <1>5 DEF Good

\* What is accepted is exactly the kept tests of the document, in its order.
LEMMA AcceptedPicks ==
  ASSUME NEW T, NEW tests \in Seq(T), NEW base, NEW policy
  PROVE  LET accepted == AcceptedTests(tests, base, policy)
         IN  /\ accepted \in Seq(T) /\ Len(accepted) <= Len(tests)
             /\ \E at : Picks(at, accepted, tests, KeptPlaces(tests, base, policy), Len(tests))
<1>1. PICK f : /\ Gathers(f, tests, KeptPlaces(tests, base, policy), Len(tests))
               /\ AcceptedTests(tests, base, policy) = f[Len(tests)]
  BY AcceptedGathers
<1>2. KeptPlaces(tests, base, policy) \subseteq DOMAIN tests /\ Len(tests) \in 0..Len(tests)
  BY DEF KeptPlaces
<1> QED BY <1>1, <1>2, GatheringPicks

\* A document whose tests are all kept is accepted as it is.
LEMMA AllKeptAccepted ==
  ASSUME NEW T, NEW tests \in Seq(T), NEW base, NEW policy,
         KeptPlaces(tests, base, policy) = DOMAIN tests
  PROVE  AcceptedTests(tests, base, policy) = tests
<1>1. PICK f : /\ Gathers(f, tests, DOMAIN tests, Len(tests))
               /\ AcceptedTests(tests, base, policy) = f[Len(tests)]
  BY AcceptedGathers
<1> DEFINE Good(m) == /\ f[m] \in Seq(T) /\ Len(f[m]) = m
                      /\ \A k \in 1..m : f[m][k] = tests[k]
           S == {m \in Nat : m <= Len(tests) => Good(m)}
<1>a. Len(tests) \in Nat /\ DOMAIN tests = 1..Len(tests)  OBVIOUS
<1>b. \A j \in 0..Len(tests) : f[j] = IF j = 0 THEN <<>>
                                 ELSE IF j \in DOMAIN tests THEN Append(f[j - 1], tests[j]) ELSE f[j - 1]
  BY <1>1, Zenon DEF Gathers
<1>2. 0 \in S
  <2>1. f[0] = <<>>  BY <1>a, <1>b
  <2>2. <<>> \in Seq(T) /\ Len(<<>>) = 0  OBVIOUS
  <2>3. Good(0)  BY <2>1, <2>2
  <2> HIDE DEF Good
  <2> QED BY <2>3
<1>3. ASSUME NEW m \in Nat, m \in S, m + 1 <= Len(tests) PROVE Good(m + 1)
  <2>1. Good(m)  BY <1>3, <1>a
  <2>2. f[m + 1] = Append(f[m], tests[m + 1])
    <3>1. m + 1 \in 0..Len(tests) /\ m + 1 # 0 /\ (m + 1) - 1 = m /\ m + 1 \in DOMAIN tests  BY <1>3, <1>a
    <3> QED BY <1>b, <3>1
  <2>3. tests[m + 1] \in T  BY <1>3, <1>a
  <2> HIDE DEF S
  <2>4. f[m + 1] \in Seq(T) /\ Len(f[m + 1]) = m + 1  BY <2>1, <2>2, <2>3
  <2>5. ASSUME NEW k \in 1..(m + 1) PROVE f[m + 1][k] = tests[k]  BY <2>1, <2>2, <2>3
  <2> QED BY <2>4, <2>5
<1> HIDE DEF Good
<1>4. \A m \in Nat : m \in S => m + 1 \in S  BY <1>3
<1>5. Len(tests) \in S
  <2> HIDE DEF S
  <2> QED BY <1>2, <1>4, <1>a, SetInduction
<1>6. Good(Len(tests))  BY <1>5, <1>a
<1>7. f[Len(tests)] = tests  BY <1>6, SeqEqual DEF Good
<1> QED BY <1>1, <1>7

\* ai.max_generated_tests as validate() reads it.
Limit == IF MaxGeneratedTests < 1 THEN 1 ELSE MaxGeneratedTests

LEMMA KeptTestsDoes ==
  ASSUME NEW T, NEW suite, suite.tests \in Seq(T)
  PROVE  /\ Limit \in Nat \ {0}
         /\ KeptTests(suite) \in Seq(T)
         /\ Len(KeptTests(suite)) <= Limit /\ Len(KeptTests(suite)) <= Len(suite.tests)
         /\ Len(suite.tests) <= Limit => KeptTests(suite) = suite.tests
<1>1. PICK tests : tests = suite.tests  OBVIOUS
<1>2. Limit \in Nat \ {0}  BY GeneratedAssumption DEF Limit
<1>3. KeptTests(suite) = IF Len(tests) > Limit THEN SubSeq(tests, 1, Limit) ELSE tests
  BY <1>1, Zenon DEF KeptTests, Limit
<1>4. tests \in Seq(T) /\ Len(tests) \in Nat  BY <1>1
<1>5. CASE Len(tests) > Limit
  <2>1. \A i \in 1..Limit : tests[i] \in T  BY <1>2, <1>4, <1>5
  <2>2. SubSeq(tests, 1, Limit) \in Seq(T) /\ Len(SubSeq(tests, 1, Limit)) = Limit
    BY <1>2, <2>1, SubSeqProperties
  <2> QED BY <1>1, <1>2, <1>3, <1>4, <1>5, <2>2
<1>6. CASE ~(Len(tests) > Limit)  BY <1>1, <1>2, <1>3, <1>4, <1>6
<1> QED BY <1>5, <1>6

\* What is accepted is valid, and no two of its tests share a name.
LEMMA AcceptedIsValid ==
  ASSUME NEW T, NEW tests \in Seq(T), NEW base, NEW policy
  PROVE  LET accepted == AcceptedTests(tests, base, policy)
         IN  /\ \A k \in DOMAIN accepted : IsValid(accepted[k], base, policy)
             /\ \A k, l \in DOMAIN accepted :
                  k # l => LowerName(accepted[k].name) # LowerName(accepted[l].name)
<1>1. PICK accepted : accepted = AcceptedTests(tests, base, policy)  OBVIOUS
<1>2. accepted \in Seq(T) /\ \E at : Picks(at, accepted, tests, KeptPlaces(tests, base, policy), Len(tests))
  BY <1>1, AcceptedPicks
<1>3. PICK at : Picks(at, accepted, tests, KeptPlaces(tests, base, policy), Len(tests))  BY <1>2
<1>4. \A k \in DOMAIN accepted : /\ at[k] \in KeptPlaces(tests, base, policy) /\ at[k] \in 1..Len(tests)
                                 /\ accepted[k] = tests[at[k]]
  BY <1>2, <1>3 DEF Picks
<1>5. \A k \in DOMAIN accepted : IsValid(accepted[k], base, policy)
  BY <1>4 DEF KeptPlaces
<1>6. ASSUME NEW k \in DOMAIN accepted, NEW l \in DOMAIN accepted, k < l
      PROVE  LowerName(accepted[k].name) # LowerName(accepted[l].name)
  <2>a. \A x, y \in 1..Len(accepted) : x < y => at[x] < at[y]  BY <1>3, Zenon DEF Picks
  <2>b. k \in 1..Len(accepted) /\ l \in 1..Len(accepted)  BY <1>2
  <2>1. at[k] < at[l]  BY <1>6, <2>a, <2>b
  <2>2. at[k] \in 1..(at[l] - 1)  BY <1>4, <2>1
  <2>3. \A j \in 1..(at[l] - 1) : LowerName(tests[j].name) # LowerName(tests[at[l]].name)
    BY <1>4, Zenon DEF KeptPlaces
  <2> QED BY <1>4, <2>2, <2>3
<1>7. ASSUME NEW k \in DOMAIN accepted, NEW l \in DOMAIN accepted, k # l
      PROVE  LowerName(accepted[k].name) # LowerName(accepted[l].name)
  <2>1. k < l \/ l < k  BY <1>2, <1>7
  <2> QED BY <1>6, <2>1
<1> QED BY <1>1, <1>5, <1>7

\* Every test is valid, and their names differ by more than case.
AllValid(tests, base, policy) == \A i \in DOMAIN tests : IsValid(tests[i], base, policy)
OwnNames(tests) == \A i, j \in DOMAIN tests : i # j => LowerName(tests[i].name) # LowerName(tests[j].name)

\* Tests that are valid and have names of their own are all kept.
LEMMA ValidAreKept ==
  ASSUME NEW T, NEW tests, tests \in Seq(T), NEW base, NEW policy,
         AllValid(tests, base, policy), OwnNames(tests)
  PROVE  AcceptedTests(tests, base, policy) = tests
<1>1. DOMAIN tests = 1..Len(tests) /\ Len(tests) \in Nat  OBVIOUS
<1>2. KeptPlaces(tests, base, policy) = DOMAIN tests  BY <1>1 DEF KeptPlaces, AllValid, OwnNames
<1> QED BY <1>2, AllKeptAccepted

\* A suite with tests of T.
IsSuite(suite, T) ==
  suite = [suite |-> suite.suite, tests |-> suite.tests] /\ suite.tests \in Seq(T)

\* The report of a validation and the tests that it leaves.
Reported(T, suite, base, policy, report, tests) ==
  /\ tests = IF IsSafeName(suite.suite) THEN AcceptedTests(KeptTests(suite), base, policy) ELSE <<>>
  /\ tests \in Seq(T) /\ Len(tests) <= Limit /\ Len(tests) <= Len(suite.tests)
  /\ report.valid = (tests # <<>>)
  /\ report.accepted = Len(tests)
  /\ report.rejected = Len(suite.tests) - Len(tests)
  /\ report.suite = [suite |-> suite.suite, tests |-> tests]

\* validate(), unfolded.
LEMMA ValidateDoes ==
  ASSUME NEW T, NEW suite, IsSuite(suite, T), NEW base, NEW policy
  PROVE  Reported(T, suite, base, policy, Validate(suite, base, policy),
                  Validate(suite, base, policy).suite.tests)
<1>a. PICK report : report = Validate(suite, base, policy)  OBVIOUS
<1>b. PICK tests : tests = report.suite.tests  OBVIOUS
<1>1. PICK accepted : accepted = IF IsSafeName(suite.suite)
                                 THEN AcceptedTests(KeptTests(suite), base, policy) ELSE <<>>
  OBVIOUS
<1>2. suite.tests \in Seq(T) /\ Len(suite.tests) \in Nat  BY DEF IsSuite
<1>3. /\ Limit \in Nat \ {0} /\ KeptTests(suite) \in Seq(T)
      /\ Len(KeptTests(suite)) <= Limit /\ Len(KeptTests(suite)) <= Len(suite.tests)
  BY <1>2, KeptTestsDoes
<1>4. accepted \in Seq(T) /\ Len(accepted) <= Limit /\ Len(accepted) <= Len(suite.tests)
  <2>1. CASE IsSafeName(suite.suite)
    <3>1. accepted \in Seq(T) /\ Len(accepted) <= Len(KeptTests(suite))
      BY <1>1, <1>3, <2>1, AcceptedPicks
    <3>2. Len(accepted) \in Nat /\ Len(KeptTests(suite)) \in Nat  BY <1>3, <3>1
    <3> QED BY <1>2, <1>3, <3>1, <3>2
  <2>2. CASE ~IsSafeName(suite.suite)
    <3>1. accepted = <<>>  BY <1>1, <2>2
    <3> QED BY <1>2, <1>3, <3>1
  <2> QED BY <2>1, <2>2
<1>5. PICK reduced : reduced = [suite EXCEPT !.tests = accepted]  OBVIOUS
<1>6. Validate(suite, base, policy) =
        [valid |-> accepted # <<>>, accepted |-> Len(accepted),
         rejected |-> Len(suite.tests) - Len(accepted), suite |-> reduced]
  BY <1>1, <1>5, Zenon DEF Validate
<1>7. reduced = [suite |-> suite.suite, tests |-> accepted]  BY <1>5 DEF IsSuite
<1>8. PICK some : some = (accepted # <<>>)  OBVIOUS
<1>9. report = [valid |-> some, accepted |-> Len(accepted),
                rejected |-> Len(suite.tests) - Len(accepted), suite |-> reduced]
  BY <1>a, <1>6, <1>8, Zenon
<1>10. /\ report.suite = reduced /\ report.accepted = Len(accepted) /\ report.valid = some
       /\ report.rejected = Len(suite.tests) - Len(accepted) /\ reduced.tests = accepted
  BY <1>7, <1>9
<1>11. tests = accepted  BY <1>b, <1>10
<1>12. Reported(T, suite, base, policy, report, tests)
  BY <1>1, <1>4, <1>7, <1>8, <1>10, <1>11, Zenon DEF Reported
<1> QED BY <1>a, <1>b, <1>12, Zenon

\* Validity does not depend on which other hosts are allowed.
LEMMA ValidAtHome ==
  ASSUME NEW base, PlainText(base), NEW hosts, NEW spec, IsValid(spec, base, TargetPolicy(base, hosts))
  PROVE  IsValid(spec, base, RestrictedTo(base))
<1>1. IsSafeEndpoint(spec.endpoint) /\ IsPermitted(spec.endpoint, base, TargetPolicy(base, hosts))
  BY Zenon DEF IsValid
<1>2. IsPermitted(spec.endpoint, base, RestrictedTo(base))  BY <1>1, PermittedAtHome
<1> QED BY <1>2, Zenon DEF IsValid

\* The report of generateTests() or loadSpecFile(), and that of registerSpecSuite()
\* on what they left.
FirstReport(suite, base, hosts) == Validate(suite, base, TargetPolicy(base, hosts))
SecondReport(suite, base, hosts) == Validate(FirstReport(suite, base, hosts).suite, base, RestrictedTo(base))

\* Every test is counted once, the second report changes nothing and what is left
\* is valid, under names of its own.
Settled(T, suite, base, report, again) ==
  /\ report.suite.tests \in Seq(T) /\ report.accepted = Len(report.suite.tests)
  /\ report.accepted + report.rejected = Len(suite.tests)
  /\ again.suite = report.suite /\ again.rejected = 0 /\ again.valid = report.valid
  /\ OwnNames(report.suite.tests)
  /\ AllValid(report.suite.tests, base, RestrictedTo(base))

\* Validation settles in one pass, for any document, any base URL with a plain
\* host and whatever other hosts are allowed: registerSpecSuite() accepts exactly
\* what generateTests() or loadSpecFile() accepted, every test is counted once,
\* names differ by more than case and every accepted test is valid with the host
\* of the base alone.
THEOREM ValidationStable ==
  ASSUME NEW T, NEW suite, IsSuite(suite, T), NEW base, PlainText(base), NEW hosts
  PROVE  Settled(T, suite, base, FirstReport(suite, base, hosts), SecondReport(suite, base, hosts))
<1>a. PICK report : report = FirstReport(suite, base, hosts)  OBVIOUS
<1>c. PICK again : again = SecondReport(suite, base, hosts)  OBVIOUS
<1>d. PICK tests : tests = report.suite.tests  OBVIOUS
<1>1. Reported(T, suite, base, TargetPolicy(base, hosts), report, tests)
  <2>1. Reported(T, suite, base, TargetPolicy(base, hosts), Validate(suite, base, TargetPolicy(base, hosts)),
                 Validate(suite, base, TargetPolicy(base, hosts)).suite.tests)
    BY ValidateDoes, Zenon
  <2> QED BY <1>a, <1>d, <2>1, Zenon DEF FirstReport
<1>2. /\ tests = IF IsSafeName(suite.suite)
                 THEN AcceptedTests(KeptTests(suite), base, TargetPolicy(base, hosts)) ELSE <<>>
      /\ tests \in Seq(T) /\ Len(tests) <= Limit /\ Len(tests) <= Len(suite.tests)
      /\ report.valid = (tests # <<>>)
      /\ report.accepted = Len(tests) /\ report.rejected = Len(suite.tests) - Len(tests)
      /\ report.suite = [suite |-> suite.suite, tests |-> tests]
  BY <1>1, Zenon DEF Reported
<1>3. KeptTests(suite) \in Seq(T)  BY KeptTestsDoes DEF IsSuite
<1>4. OwnNames(tests) /\ AllValid(tests, base, RestrictedTo(base))
  <2>1. CASE IsSafeName(suite.suite)
    <3>1. tests = AcceptedTests(KeptTests(suite), base, TargetPolicy(base, hosts))  BY <1>2, <2>1
    <3>2. /\ \A i \in DOMAIN tests : IsValid(tests[i], base, TargetPolicy(base, hosts))
          /\ \A i, j \in DOMAIN tests : i # j => LowerName(tests[i].name) # LowerName(tests[j].name)
      BY <1>3, <3>1, AcceptedIsValid
    <3>3. ASSUME NEW i \in DOMAIN tests PROVE IsValid(tests[i], base, RestrictedTo(base))
      BY <3>2, ValidAtHome
    <3> QED BY <3>2, <3>3 DEF OwnNames, AllValid
  <2>2. CASE ~IsSafeName(suite.suite)
    <3>1. tests = <<>>  BY <1>2, <2>2
    <3> QED BY <3>1 DEF OwnNames, AllValid
  <2> QED BY <2>1, <2>2
<1>6. IsSuite(report.suite, T) /\ report.suite.suite = suite.suite /\ report.suite.tests = tests
  BY <1>2 DEF IsSuite
<1>b. PICK kept : kept = again.suite.tests  OBVIOUS
<1>5. Reported(T, report.suite, base, RestrictedTo(base), again, kept)
  <2>1. Reported(T, report.suite, base, RestrictedTo(base), Validate(report.suite, base, RestrictedTo(base)),
                 Validate(report.suite, base, RestrictedTo(base)).suite.tests)
    BY <1>6, ValidateDoes, Zenon
  <2> QED BY <1>a, <1>b, <1>c, <2>1, Zenon DEF SecondReport
<1>7. /\ kept = IF IsSafeName(report.suite.suite)
                THEN AcceptedTests(KeptTests(report.suite), base, RestrictedTo(base)) ELSE <<>>
      /\ again.valid = (kept # <<>>)
      /\ again.rejected = Len(report.suite.tests) - Len(kept)
      /\ again.suite = [suite |-> report.suite.suite, tests |-> kept]
  BY <1>5, Zenon DEF Reported
<1>8. KeptTests(report.suite) = tests
  <2>1. report.suite.tests \in Seq(T) /\ Len(report.suite.tests) <= Limit  BY <1>2, <1>6
  <2>2. Len(report.suite.tests) <= Limit => KeptTests(report.suite) = report.suite.tests
    BY <2>1, KeptTestsDoes, Zenon
  <2> QED BY <1>6, <2>1, <2>2
<1>9. AcceptedTests(tests, base, RestrictedTo(base)) = tests
  <2>1. tests \in Seq(T)  BY <1>2
  <2> QED BY <1>4, <2>1, ValidAreKept, Zenon
<1>10. kept = tests
  <2>1. CASE IsSafeName(suite.suite)  BY <1>6, <1>7, <1>8, <1>9, <2>1
  <2>2. CASE ~IsSafeName(suite.suite)  BY <1>2, <1>6, <1>7, <2>2
  <2> QED BY <2>1, <2>2
<1>11. again.suite = report.suite /\ again.rejected = 0
  <2>1. Len(tests) \in Nat  BY <1>2
  <2> QED BY <1>2, <1>6, <1>7, <1>10, <2>1
<1>12. again.valid = report.valid  BY <1>2, <1>7, <1>10, Zenon
<1>13. report.accepted + report.rejected = Len(suite.tests)
  <2>1. Len(tests) \in Nat /\ Len(suite.tests) \in Nat  BY <1>2 DEF IsSuite
  <2> QED BY <1>2, <2>1
<1> QED BY <1>a, <1>c, <1>d, <1>2, <1>4, <1>11, <1>12, <1>13, Zenon DEF Settled

-----------------------------------------------------------------------------
(* The registry.                                                           *)

\* A registration as `ended` and `superseded` know it.
Name(r) == [suite |-> registrar[r].suite, version |-> registrar[r].version]

\* Registrars are records, whatever their tests are.
RegistrarsTyped ==
  /\ versions \in Nat
  /\ registrar = [r \in Registrars |-> registrar[r]]
  /\ \A r \in Registrars :
       registrar[r] \in [pc : {"idle", "remove", "add"}, suite : {registrar[r].suite},
                         todo : {registrar[r].todo}, version : Nat]

\* A version is given out once: no two registrations under way share one, and
\* none that has ended has the version of one under way.
VersionsUnique ==
  /\ \A e \in ended : e.version \in 0..versions
  /\ \A r \in Registrars : registrar[r].pc # "idle" =>
       /\ registrar[r].version <= versions
       /\ \A e \in ended : e.version # registrar[r].version
       /\ \A s \in Registrars : s # r /\ registrar[s].pc # "idle" =>
            registrar[s].version # registrar[r].version

\* Only what has ended is superseded.
SupersededEnded == superseded \subseteq ended

CatalogueInv == RegistrarsTyped /\ VersionsUnique /\ SupersededEnded /\ SupersededTestsGone

-----------------------------------------------------------------------------
\* The built-in suite is version 0 and nothing is under way.
LEMMA InitCatalogue == Init => CatalogueInv
<1> SUFFICES ASSUME Init PROVE CatalogueInv  OBVIOUS
<1>1. /\ registrar = [r \in Registrars |-> Idle] /\ versions = 0 /\ superseded = {}
      /\ ended = {[suite |-> "smoke", version |-> 0]}
  BY DEF Init
<1>2. RegistrarsTyped
  <2>1. Idle \in [pc : {"idle", "remove", "add"}, suite : {Idle.suite}, todo : {Idle.todo}, version : Nat]
    BY DEF Idle
  <2> QED BY <1>1, <2>1 DEF RegistrarsTyped
<1>3. VersionsUnique
  <2>1. Idle.pc = "idle"  BY DEF Idle
  <2> QED BY <1>1, <2>1 DEF VersionsUnique
<1> QED BY <1>1, <1>2, <1>3 DEF CatalogueInv, SupersededEnded, SupersededTestsGone

\* A registration begins with a version of its own.
LEMMA BeginKeeps ==
  ASSUME CatalogueInv, NEW r \in Registrars, Begin(r) PROVE CatalogueInv'
<1>1. /\ registrar[r].pc = "idle" /\ versions' = versions + 1
      /\ UNCHANGED <<registry, ended, superseded>>
  BY DEF Begin
<1>2. PICK suite, todo : registrar' = [registrar EXCEPT ![r] =
        [pc |-> "remove", suite |-> suite, todo |-> todo, version |-> versions + 1]]
  BY DEF Begin
<1>3. PICK new : new = [pc |-> "remove", suite |-> suite, todo |-> todo, version |-> versions + 1]
  OBVIOUS
<1>4. /\ registrar' = [s \in Registrars |-> IF s = r THEN new ELSE registrar[s]]
  BY <1>2, <1>3 DEF CatalogueInv, RegistrarsTyped
<1>5. versions \in Nat  BY DEF CatalogueInv, RegistrarsTyped
<1>6. new.pc = "remove" /\ new.version = versions + 1
  BY <1>3
<1>7. RegistrarsTyped'
  <2>1. new \in [pc : {"idle", "remove", "add"}, suite : {new.suite}, todo : {new.todo}, version : Nat]
    BY <1>3, <1>5
  <2> QED BY <1>1, <1>4, <1>5, <2>1 DEF CatalogueInv, RegistrarsTyped
<1>8. VersionsUnique'
  <2>1. \A s \in Registrars : registrar[s].version \in Nat
    BY DEF CatalogueInv, RegistrarsTyped
  <2>2. \A s \in Registrars : registrar'[s] = IF s = r THEN new ELSE registrar[s]  BY <1>4
  <2>3. \A e \in ended' : e.version \in 0..versions'
    BY <1>1, <1>5 DEF CatalogueInv, VersionsUnique
  <2>4. ASSUME NEW s \in Registrars, registrar'[s].pc # "idle"
        PROVE  /\ registrar'[s].version <= versions'
               /\ \A e \in ended' : e.version # registrar'[s].version
               /\ \A q \in Registrars : q # s /\ registrar'[q].pc # "idle" =>
                    registrar'[q].version # registrar'[s].version
    <3>1. CASE s = r
      BY <1>1, <1>5, <1>6, <2>1, <2>2, <2>4, <3>1 DEF CatalogueInv, VersionsUnique
    <3>2. CASE s # r
      BY <1>1, <1>5, <1>6, <2>1, <2>2, <2>4, <3>2 DEF CatalogueInv, VersionsUnique
    <3> QED BY <3>1, <3>2
  <2> QED BY <2>3, <2>4 DEF VersionsUnique
<1> QED BY <1>1, <1>7, <1>8 DEF CatalogueInv, SupersededEnded, SupersededTestsGone

\* What a registration removes is gone, and with it everything that it supersedes.
LEMMA RemoveOldKeeps ==
  ASSUME CatalogueInv, NEW r \in Registrars, RemoveOld(r) PROVE CatalogueInv'
<1>1. /\ registry' = {e \in registry : e.suite # registrar[r].suite}
      /\ superseded' = superseded \cup {e \in ended : e.suite = registrar[r].suite}
      /\ UNCHANGED <<versions, ended>> /\ registrar[r].pc = "remove"
  BY DEF RemoveOld, RemoveSuite
<1>2. /\ \A s \in Registrars : /\ registrar'[s].version = registrar[s].version
                               /\ registrar'[s].pc # "idle" <=> registrar[s].pc # "idle"
      /\ RegistrarsTyped'
  <2>1. PICK new : new = [registrar[r] EXCEPT !.pc = "add"]  OBVIOUS
  <2>2. registrar' = [registrar EXCEPT ![r] = new]  BY <2>1 DEF RemoveOld
  <2>3. registrar' = [s \in Registrars |-> IF s = r THEN new ELSE registrar[s]]
    BY <2>2 DEF CatalogueInv, RegistrarsTyped
  <2>4. /\ new.pc = "add" /\ new.version = registrar[r].version
        /\ new \in [pc : {"idle", "remove", "add"}, suite : {new.suite}, todo : {new.todo}, version : Nat]
    BY <2>1 DEF CatalogueInv, RegistrarsTyped
  <2>5. RegistrarsTyped'  BY <1>1, <2>3, <2>4 DEF CatalogueInv, RegistrarsTyped
  <2> QED BY <1>1, <2>3, <2>4, <2>5
<1>3. VersionsUnique'  BY <1>1, <1>2 DEF CatalogueInv, VersionsUnique
<1>4. SupersededEnded'  BY <1>1 DEF CatalogueInv, SupersededEnded
<1>5. SupersededTestsGone'
  <2> SUFFICES ASSUME NEW e \in registry' PROVE [suite |-> e.suite, version |-> e.version] \notin superseded'
    BY DEF SupersededTestsGone
  <2>1. e \in registry /\ e.suite # registrar[r].suite  BY <1>1
  <2>2. [suite |-> e.suite, version |-> e.version] \notin superseded
    BY <2>1 DEF CatalogueInv, SupersededTestsGone
  <2>3. [suite |-> e.suite, version |-> e.version].suite # registrar[r].suite  BY <2>1
  <2> QED BY <1>1, <2>2, <2>3
<1> QED BY <1>2, <1>3, <1>4, <1>5 DEF CatalogueInv

\* A registration adds tests of its own version, which nothing supersedes yet.
LEMMA AddNextKeeps ==
  ASSUME CatalogueInv, NEW r \in Registrars, AddNext(r) PROVE CatalogueInv'
<1>a. PICK rest : rest = Tail(registrar[r].todo)  OBVIOUS
<1>b. PICK new : new = IF rest = <<>> THEN Idle ELSE [registrar[r] EXCEPT !.todo = rest]  OBVIOUS
<1>1. /\ registrar' = [registrar EXCEPT ![r] = new]
      /\ ended' = IF rest = <<>> THEN ended \cup {Name(r)} ELSE ended
  <2>1. registrar' = [registrar EXCEPT ![r] = new]  BY <1>a, <1>b, Zenon DEF AddNext
  <2>2. ended' = IF rest = <<>> THEN ended \cup {Name(r)} ELSE ended
    BY <1>a, Zenon DEF AddNext, Name
  <2> QED BY <2>1, <2>2
<1>2. /\ registrar[r].pc = "add" /\ UNCHANGED <<versions, superseded>>
  BY DEF AddNext
<1>3. PICK added : /\ added.suite = registrar[r].suite /\ added.version = registrar[r].version
                   /\ registry' \subseteq registry \cup {added}
  <2>1. PICK spec : RegisterOrReplace(Generated(registrar[r].suite, spec, registrar[r].version))
    BY DEF AddNext
  <2>2. PICK g : g = Generated(registrar[r].suite, spec, registrar[r].version)  OBVIOUS
  <2>3. g.suite = registrar[r].suite /\ g.version = registrar[r].version  BY <2>2 DEF Generated
  <2>4. registry' \subseteq registry \cup {g}  BY <2>1, <2>2 DEF RegisterOrReplace
  <2> QED BY <2>3, <2>4
<1>4. registrar' = [s \in Registrars |-> IF s = r THEN new ELSE registrar[s]]
  BY <1>1 DEF CatalogueInv, RegistrarsTyped
<1>5. registrar[r].version \in Nat /\ registrar[r].version <= versions /\ versions \in Nat
  BY <1>2 DEF CatalogueInv, RegistrarsTyped, VersionsUnique
<1>6. /\ new \in [pc : {"idle", "remove", "add"}, suite : {new.suite}, todo : {new.todo}, version : Nat]
      /\ new.pc # "idle" => rest # <<>> /\ new.version = registrar[r].version
  <2>1. CASE rest = <<>>  BY <1>b, <2>1 DEF Idle
  <2>2. CASE rest # <<>>
    <3>1. new = [registrar[r] EXCEPT !.todo = rest]  BY <1>b, <2>2
    <3> QED BY <2>2, <3>1 DEF CatalogueInv, RegistrarsTyped
  <2> QED BY <2>1, <2>2
<1>7. RegistrarsTyped'  BY <1>2, <1>4, <1>6 DEF CatalogueInv, RegistrarsTyped
<1>8. \A e \in ended' : e \in ended \/ (rest = <<>> /\ e.version = registrar[r].version)
  BY <1>1 DEF Name
<1>9. VersionsUnique'
  <2>1. \A s \in Registrars : registrar'[s] = IF s = r THEN new ELSE registrar[s]  BY <1>4
  <2>2. \A e \in ended' : e.version \in 0..versions'
    BY <1>2, <1>5, <1>8 DEF CatalogueInv, VersionsUnique
  <2>3. ASSUME NEW s \in Registrars, registrar'[s].pc # "idle"
        PROVE  /\ registrar'[s].version <= versions'
               /\ \A e \in ended' : e.version # registrar'[s].version
               /\ \A q \in Registrars : q # s /\ registrar'[q].pc # "idle" =>
                    registrar'[q].version # registrar'[s].version
    <3>1. CASE s = r
      BY <1>2, <1>5, <1>6, <1>8, <2>1, <2>3, <3>1 DEF CatalogueInv, VersionsUnique
    <3>2. CASE s # r
      BY <1>2, <1>5, <1>6, <1>8, <2>1, <2>3, <3>2 DEF CatalogueInv, VersionsUnique
    <3> QED BY <3>1, <3>2
  <2> QED BY <2>2, <2>3 DEF VersionsUnique
<1>10. SupersededEnded'  BY <1>1, <1>2 DEF CatalogueInv, SupersededEnded
<1>11. SupersededTestsGone'
  <2> SUFFICES ASSUME NEW e \in registry' PROVE [suite |-> e.suite, version |-> e.version] \notin superseded
    BY <1>2 DEF SupersededTestsGone
  <2>1. CASE e \in registry  BY <2>1 DEF CatalogueInv, SupersededTestsGone
  <2>2. CASE e = added
    <3>1. [suite |-> e.suite, version |-> e.version].version = registrar[r].version  BY <1>3, <2>2
    <3>2. \A d \in ended : d.version # registrar[r].version
      BY <1>2 DEF CatalogueInv, VersionsUnique
    <3> QED BY <3>1, <3>2 DEF CatalogueInv, SupersededEnded
  <2> QED BY <1>3, <2>1, <2>2
<1> QED BY <1>7, <1>9, <1>10, <1>11 DEF CatalogueInv

-----------------------------------------------------------------------------
\* The invariant of the registry: a version belongs to one registration, so
\* what a registration adds is never something that another one has removed.
THEOREM CatalogueInvariant == Spec => []CatalogueInv
<1>1. CatalogueInv /\ [Next]_vars => CatalogueInv'
  <2> SUFFICES ASSUME CatalogueInv, [Next]_vars PROVE CatalogueInv'  OBVIOUS
  <2>1. CASE \E r \in Registrars : Begin(r) \/ RemoveOld(r) \/ AddNext(r)
    BY <2>1, BeginKeeps, RemoveOldKeeps, AddNextKeeps
  <2>2. CASE StartRun \/ Execute \/ EndRun \/ UNCHANGED vars
    <3>1. UNCHANGED <<registry, registrar, versions, ended, superseded>>
      BY <2>2 DEF StartRun, Execute, EndRun, vars
    <3> QED BY <3>1 DEF CatalogueInv, RegistrarsTyped, VersionsUnique, SupersededEnded,
                        SupersededTestsGone
  <2> QED BY <2>1, <2>2 DEF Next
<1> QED BY InitCatalogue, <1>1, PTL DEF Spec

\* A test of a registration that a later one of the suite has replaced never
\* reappears, however many threads of the server register suites at once.
THEOREM SupersededAlwaysGone == Spec => []SupersededTestsGone
<1>1. CatalogueInv => SupersededTestsGone  BY DEF CatalogueInv
<1> QED BY CatalogueInvariant, <1>1, PTL

-----------------------------------------------------------------------------
(* What a run executes.                                                    *)

\* A request to this endpoint goes to the origin of the base, below its path.
StaysHome(endpoint) ==
  /\ SameOrigin(ParseUrl(Base), ParseUrl(JoinUrl(Base, endpoint.reference)))
  /\ IsStrictPrefix(ParseUrl(Base).path, ParseUrl(JoinUrl(Base, endpoint.reference)).path)

\* The validator accepts the test, and its request goes where it should.
Welcome(spec) == IsValid(spec, Base, RestrictedTo(Base)) /\ StaysHome(spec.endpoint)

\* The tests of the documents, and those of them that are valid and stay.
Written == {Reading(name, endpoint) : name \in {"t1", "t2", "T1"}, endpoint \in Endpoints} \cup Unwelcome
Staying == {spec \in Written : Welcome(spec)}

\* Tests stay, from the document through the registry to the run.
OnlyStaying ==
  /\ \A r \in Registrars : /\ registrar[r].todo \in Seq(Staying)
                           /\ registrar[r].pc # "idle" => registrar[r].todo # <<>>
  /\ \A e \in registry : e.version > 0 => Welcome(e.spec)
  /\ run = [pc |-> run.pc, todo |-> run.todo, results |-> run.results]
  /\ OnlyAcceptedRuns

\* The text http://api/v1, put together.
LEMMA PlainBase ==
  [NoText EXCEPT !.scheme = "http", !.authority = <<"api">>, !.path = <<"v1">>] =
    [scheme |-> "http", bracketed |-> FALSE, authority |-> <<"api">>, port |-> Empty,
     path |-> <<"v1">>, query |-> Empty]
<1>1. PICK no, api, v1, empty : no = FALSE /\ api = <<"api">> /\ v1 = <<"v1">> /\ empty = <<>>  OBVIOUS
<1>2. NoText = [scheme |-> Empty, bracketed |-> no, authority |-> empty, port |-> Empty,
                path |-> empty, query |-> Empty]
  BY <1>1, Zenon DEF NoText
<1>3. PICK a : a = [NoText EXCEPT !.scheme = "http"]  OBVIOUS
<1>4. a = [scheme |-> "http", bracketed |-> no, authority |-> empty, port |-> Empty,
           path |-> empty, query |-> Empty]
  BY <1>2, <1>3
<1>5. PICK b : b = [a EXCEPT !.authority = api]  OBVIOUS
<1>6. b = [scheme |-> "http", bracketed |-> no, authority |-> api, port |-> Empty,
           path |-> empty, query |-> Empty]
  BY <1>4, <1>5
<1>7. [b EXCEPT !.path = v1] = [scheme |-> "http", bracketed |-> no, authority |-> api, port |-> Empty,
                                path |-> v1, query |-> Empty]
  BY <1>6
<1> QED BY <1>1, <1>3, <1>5, <1>7, Zenon

\* The base URL is plain, and its path is one segment.
LEMMA BaseIsPlain == PlainText(Base) /\ Base.path = <<"v1">>
<1>1. Base = [scheme |-> "http", bracketed |-> FALSE, authority |-> <<"api">>, port |-> Empty,
              path |-> <<"v1">>, query |-> Empty]
  BY PlainBase, Zenon DEF Base
<1> QED BY <1>1, Zenon DEF PlainText

\* A path that is appended to is a strict prefix of the result.
LEMMA StrictPrefix ==
  ASSUME NEW S, NEW a \in Seq(S), NEW b \in Seq(S), b # <<>> PROVE IsStrictPrefix(a, a \o b)
<1>1. PICK c : c = a \o b  OBVIOUS
<1>2. c \in Seq(S) /\ Len(c) = Len(a) + Len(b) /\ Len(a) \in Nat /\ Len(b) \in Nat /\ Len(b) # 0
  BY <1>1
<1>3. \A i \in 1..Len(a) : c[i] = a[i]  BY <1>1
<1>4. PICK x, y : x = SubSeq(a, 1, Len(a)) /\ y = SubSeq(c, 1, Len(a))  OBVIOUS
<1>5. x \in Seq(S) /\ y \in Seq(S) /\ Len(x) = Len(a) /\ Len(y) = Len(a)  BY <1>2, <1>4
<1>6. \A i \in 1..Len(x) : x[i] = y[i]  BY <1>2, <1>3, <1>4, <1>5
<1>7. x = y  BY <1>5, <1>6, SeqEqual
<1>8. Len(a) <= Len(c) /\ a # c  BY <1>2
<1>9. IsPrefix(a, c)  BY <1>4, <1>7, <1>8, Zenon DEF IsPrefix
<1> QED BY <1>1, <1>8, <1>9, Zenon DEF IsStrictPrefix

\* A test of a document has one of the endpoints.
LEMMA WrittenEndpoint == ASSUME NEW spec \in Written PROVE spec.endpoint \in Endpoints
<1>1. ASSUME NEW name, NEW endpoint \in Endpoints
      PROVE  Reading(name, endpoint) =
               [name |-> name, method |-> "GET", endpoint |-> endpoint, status |-> 200, acceptable |-> {},
                budget |-> 0, headers |-> <<>>, bodyBytes |-> 0, assertions |-> <<>>, tags |-> {}]
  BY Zenon DEF Reading, PlainSpec
<1>2. \A name : \A endpoint \in Endpoints : Reading(name, endpoint).endpoint = endpoint  BY <1>1
<1>3. Users \in Endpoints  BY DEF Users, Endpoints
<1>4. PICK users : users = Reading("t1", Users)  OBVIOUS
<1>5. users = [name |-> "t1", method |-> "GET", endpoint |-> Users, status |-> 200, acceptable |-> {},
               budget |-> 0, headers |-> <<>>, bodyBytes |-> 0, assertions |-> <<>>, tags |-> {}]
  BY <1>1, <1>3, <1>4, Zenon
<1>6. ASSUME NEW x
      PROVE  /\ [users EXCEPT !.method = x].endpoint = Users
             /\ [users EXCEPT !.headers = x].endpoint = Users
             /\ [users EXCEPT !.acceptable = x].endpoint = Users
  BY <1>5
<1>7. CASE spec \in Unwelcome
  <2>1. spec.endpoint = Users  BY <1>4, <1>6, <1>7, Zenon DEF Unwelcome
  <2> QED BY <1>3, <2>1
<1>8. CASE spec \notin Unwelcome  BY <1>2, <1>8 DEF Written
<1> QED BY <1>7, <1>8

\* A test of a document that is valid stays.
LEMMA ValidStays ==
  ASSUME NEW spec \in Written, IsValid(spec, Base, RestrictedTo(Base)) PROVE spec \in Staying
<1>1. PICK endpoint \in Endpoints : spec.endpoint = endpoint  BY WrittenEndpoint
<1>2. IsSafeEndpoint(endpoint) /\ IsPermitted(endpoint, Base, RestrictedTo(Base))
  BY <1>1, Zenon DEF IsValid
<1>3. endpoint.reference.path = <<"users">>
  BY <1>2 DEF IsSafeEndpoint, Endpoints, Endpoint, Reference
<1>4. endpoint.reference.kind # "absolute"  BY <1>2 DEF IsSafeEndpoint
<1>5. JoinUrl(Base, endpoint.reference) # NoText  BY <1>2, Zenon DEF IsPermitted
<1>6. PICK home : home = ParseUrl(Base)  OBVIOUS
<1>7. PICK url : url = ParseUrl(JoinUrl(Base, endpoint.reference))  OBVIOUS
<1>8. /\ home # NoUrl /\ SameOrigin(home, url)
      /\ url = [home EXCEPT !.path = @ \o endpoint.reference.path, !.query = endpoint.reference.text.query]
  BY <1>4, <1>5, <1>6, <1>7, BaseIsPlain, JoinStays, Zenon
<1>9. home.path = <<"v1">>  BY <1>6, <1>8, BaseIsPlain, ParsePlain
<1>10. PlainUrl(home)  BY <1>6, <1>8, BaseIsPlain, ParsePlain
<1>11. url.path = home.path \o endpoint.reference.path  BY <1>8, <1>10 DEF PlainUrl
<1>12. IsStrictPrefix(home.path, url.path)
  <2>1. /\ home.path \in Seq({"v1", "users"}) /\ endpoint.reference.path \in Seq({"v1", "users"})
        /\ endpoint.reference.path # <<>>
    BY <1>3, <1>9
  <2> QED BY <1>11, <2>1, StrictPrefix
<1>13. StaysHome(spec.endpoint)  BY <1>1, <1>6, <1>7, <1>8, <1>12, Zenon DEF StaysHome
<1>14. Welcome(spec)  BY <1>13, Zenon DEF Welcome
<1> QED BY <1>14 DEF Staying

\* The documents are suites of such tests.
LEMMA DocumentsWritten == ASSUME NEW document \in SpecDocuments PROVE IsSuite(document, Written)
<1>1. Users \in Endpoints  BY DEF Users, Endpoints
<1>2. \A name \in {"t1", "t2", "T1"}, e \in Endpoints : Reading(name, e) \in Written  BY DEF Written
<1>3. ASSUME NEW suite, NEW a \in Written, NEW b \in Written
      PROVE  /\ IsSuite([suite |-> suite, tests |-> <<a, b>>], Written)
             /\ IsSuite([suite |-> suite, tests |-> <<a>>], Written)
  <2>1. <<a, b>> \in Seq(Written) /\ <<a>> \in Seq(Written)  OBVIOUS
  <2>2. PICK x, y : x = <<a, b>> /\ y = <<a>>  OBVIOUS
  <2>3. IsSuite([suite |-> suite, tests |-> x], Written) /\ IsSuite([suite |-> suite, tests |-> y], Written)
    BY <2>1, <2>2 DEF IsSuite
  <2> QED BY <2>2, <2>3, Zenon
<1>4. CASE document = [suite |-> "gen", tests |-> <<Reading("t1", Users), Reading("t2", Users)>>]
  BY <1>1, <1>2, <1>3, <1>4, Zenon
<1>5. CASE document = [suite |-> "gen", tests |-> <<Reading("T1", Users), Reading("t1", Users)>>]
  BY <1>1, <1>2, <1>3, <1>5, Zenon
<1>6. CASE document = [suite |-> "smoke", tests |-> <<Reading("t1", Users)>>]
  BY <1>1, <1>2, <1>3, <1>6, Zenon
<1>7. ASSUME NEW spec, spec \in {Reading("t1", e) : e \in Endpoints} \cup Unwelcome,
             document = [suite |-> "gen", tests |-> <<Reading("t2", Users), spec>>]
      PROVE  IsSuite(document, Written)
  <2>1. spec \in Written  BY <1>7 DEF Written
  <2>2. Reading("t2", Users) \in Written  BY <1>1, <1>2
  <2> QED BY <1>3, <1>7, <2>1, <2>2, Zenon
<1> QED BY <1>4, <1>5, <1>6, <1>7, Zenon DEF SpecDocuments

\* What is accepted of a document stays.
LEMMA AcceptedStays == ASSUME NEW document \in SpecDocuments PROVE AcceptedOf(document) \in Seq(Staying)
<1>1. PICK first : first = FirstReport(document, Base, TargetHosts)  OBVIOUS
<1>2. PICK second : second = SecondReport(document, Base, TargetHosts)  OBVIOUS
<1>3. PICK tests : tests = first.suite.tests  OBVIOUS
<1>4. AcceptedOf(document) = IF SuiteParses(document) /\ first.valid /\ second.valid
                             THEN second.suite.tests ELSE <<>>
  BY <1>1, <1>2, Zenon DEF AcceptedOf, FirstReport, SecondReport
<1>5. /\ tests \in Seq(Written) /\ second.suite = first.suite
      /\ \A i \in DOMAIN tests : IsValid(tests[i], Base, RestrictedTo(Base))
  <2>1. IsSuite(document, Written) /\ PlainText(Base)  BY DocumentsWritten, BaseIsPlain, Zenon
  <2>2. Settled(Written, document, Base, first, second)  BY <1>1, <1>2, <2>1, ValidationStable, Zenon
  <2> QED BY <1>3, <2>2, Zenon DEF Settled, AllValid
<1>6. \A i \in DOMAIN tests : tests[i] \in Staying  BY <1>5, ValidStays
<1>7. tests \in Seq(Staying)  BY <1>5, <1>6
<1> QED BY <1>3, <1>4, <1>5, <1>7

\* Nothing else gets into the registry, or from there into a run.
THEOREM AlwaysOnlyAccepted == Spec => []OnlyAcceptedRuns
<1>1. Init => OnlyStaying
  <2> SUFFICES ASSUME Init PROVE OnlyStaying  OBVIOUS
  <2>1. \A r \in Registrars : registrar[r].todo = <<>> /\ registrar[r].pc = "idle"
    BY DEF Init, Idle
  <2>2. \A e \in registry : e.version = 0  BY DEF Init, BuiltIn
  <2>3. run.results = {}  BY DEF Init
  <2>4. run = [pc |-> run.pc, todo |-> run.todo, results |-> run.results]  BY DEF Init
  <2>5. <<>> \in Seq(Staying)  OBVIOUS
  <2>6. \A e \in registry : e.version > 0 => Welcome(e.spec)  BY <2>2
  <2> QED BY <2>1, <2>3, <2>4, <2>5, <2>6, Zenon DEF OnlyStaying, OnlyAcceptedRuns
<1>2. CatalogueInv /\ OnlyStaying /\ [Next]_vars => OnlyStaying'
  <2> SUFFICES ASSUME CatalogueInv, OnlyStaying, [Next]_vars PROVE OnlyStaying'  OBVIOUS
  <2>1. ASSUME NEW r \in Registrars, Begin(r) PROVE OnlyStaying'
    <3>1. PICK suite, todo :
            /\ todo \in Seq(Staying) /\ todo # <<>>
            /\ registrar' = [registrar EXCEPT ![r] =
                 [pc |-> "remove", suite |-> suite, todo |-> todo, version |-> versions + 1]]
      <4>1. PICK document \in SpecDocuments :
              /\ AcceptedOf(document) # <<>>
              /\ registrar' = [registrar EXCEPT ![r] =
                   [pc |-> "remove", suite |-> document.suite, todo |-> AcceptedOf(document),
                    version |-> versions + 1]]
        BY <2>1, Zenon DEF Begin
      <4>2. AcceptedOf(document) \in Seq(Staying)  BY AcceptedStays, Zenon
      <4> QED BY <4>1, <4>2, Zenon
    <3>2. PICK new : new = [pc |-> "remove", suite |-> suite, todo |-> todo, version |-> versions + 1]
      OBVIOUS
    <3>3. registrar' = [s \in Registrars |-> IF s = r THEN new ELSE registrar[s]]
      BY <3>1, <3>2 DEF CatalogueInv, RegistrarsTyped
    <3>4. new.todo = todo  BY <3>2
    <3>5. registry' = registry /\ run' = run  BY <2>1 DEF Begin
    <3> QED BY <3>1, <3>3, <3>4, <3>5 DEF OnlyStaying, OnlyAcceptedRuns
  <2>2. ASSUME NEW r \in Registrars, RemoveOld(r) PROVE OnlyStaying'
    <3>1. PICK new : new = [registrar[r] EXCEPT !.pc = "add"]  OBVIOUS
    <3>2. registrar' = [registrar EXCEPT ![r] = new]  BY <2>2, <3>1 DEF RemoveOld
    <3>3. registrar' = [s \in Registrars |-> IF s = r THEN new ELSE registrar[s]]
      BY <3>2 DEF CatalogueInv, RegistrarsTyped
    <3>4. new.todo = registrar[r].todo /\ registrar[r].pc = "remove"
      BY <2>2, <3>1 DEF RemoveOld, CatalogueInv, RegistrarsTyped
    <3>5. registry' \subseteq registry /\ run' = run  BY <2>2 DEF RemoveOld, RemoveSuite
    <3> QED BY <3>3, <3>4, <3>5 DEF OnlyStaying, OnlyAcceptedRuns
  <2>3. ASSUME NEW r \in Registrars, AddNext(r) PROVE OnlyStaying'
    <3>a. PICK todo : todo = registrar[r].todo  OBVIOUS
    <3>b. PICK spec : spec = Head(todo)  OBVIOUS
    <3>1. PICK rest : rest = Tail(todo)  OBVIOUS
    <3>2. PICK new : new = IF rest = <<>> THEN Idle ELSE [registrar[r] EXCEPT !.todo = rest]  OBVIOUS
    <3>3. registrar' = [registrar EXCEPT ![r] = new]  BY <2>3, <3>a, <3>1, <3>2, Zenon DEF AddNext
    <3>4. registrar' = [s \in Registrars |-> IF s = r THEN new ELSE registrar[s]]
      BY <3>3 DEF CatalogueInv, RegistrarsTyped
    <3>5. todo \in Seq(Staying) /\ todo # <<>>
      <4>1. registrar[r].pc = "add"  BY <2>3 DEF AddNext
      <4> QED BY <3>a, <4>1 DEF OnlyStaying
    <3>6. spec \in Staying /\ rest \in Seq(Staying)  BY <3>b, <3>1, <3>5
    <3>7. new.todo \in Seq(Staying) /\ (new.pc # "idle" => new.todo # <<>>)
      <4>1. CASE rest = <<>>  BY <3>2, <4>1 DEF Idle
      <4>2. CASE rest # <<>>
        <5>1. new.todo = rest  BY <3>2, <4>2 DEF CatalogueInv, RegistrarsTyped
        <5> QED BY <3>6, <4>2, <5>1
      <4> QED BY <4>1, <4>2
    <3>8. PICK g : g = Generated(registrar[r].suite, spec, registrar[r].version)  OBVIOUS
    <3>9. g.spec = spec  BY <3>8 DEF Generated
    <3>10. registry' \subseteq registry \cup {g}
      <4>1. RegisterOrReplace(g)  BY <2>3, <3>a, <3>b, <3>8, Zenon DEF AddNext
      <4> QED BY <4>1 DEF RegisterOrReplace
    <3>11. Welcome(g.spec)  BY <3>6, <3>9 DEF Staying
    <3>12. run' = run  BY <2>3 DEF AddNext
    <3> QED BY <3>4, <3>7, <3>10, <3>11, <3>12 DEF OnlyStaying, OnlyAcceptedRuns
  <2>4. CASE StartRun \/ EndRun
    BY <2>4 DEF StartRun, EndRun, OnlyStaying, OnlyAcceptedRuns
  <2>5. CASE Execute
    <3>1. registry' = registry /\ registrar' = registrar  BY <2>5 DEF Execute
    <3>2. PICK key : run' = [run EXCEPT !.todo = @ \ {key}, !.results = @ \cup {ResultOf(key)}]
      BY <2>5 DEF Execute
    <3>3. PICK results : results = run.results \cup {ResultOf(key)}  OBVIOUS
    <3>4. /\ run' = [pc |-> run.pc, todo |-> run.todo \ {key}, results |-> results]
          /\ run'.results = results
      BY <3>2, <3>3 DEF OnlyStaying
    <3>5. ASSUME ResultOf(key).outcome = "executed" PROVE ResultOf(key).entry \in registry
      <4>1. Registered(key)  BY <3>5 DEF ResultOf
      <4>2. PICK e : e = CHOOSE entry \in registry : Key(entry) = key  OBVIOUS
      <4>3. e \in registry  BY <4>1, <4>2 DEF Registered
      <4>4. ResultOf(key) = [key |-> key, outcome |-> "executed", entry |-> e]
        BY <4>1, <4>2, Zenon DEF ResultOf
      <4> QED BY <4>3, <4>4
    <3>6. \A result \in run.results : result.outcome = "executed" /\ result.entry.version > 0 =>
            Welcome(result.entry.spec)
      BY Zenon DEF OnlyStaying, OnlyAcceptedRuns, Welcome, StaysHome
    <3>7. ASSUME NEW result \in results, result.outcome = "executed", result.entry.version > 0
          PROVE  Welcome(result.entry.spec)
      BY <3>3, <3>5, <3>6, <3>7 DEF OnlyStaying
    <3>8. OnlyAcceptedRuns'
      <4>1. \A result \in run'.results : result.outcome = "executed" /\ result.entry.version > 0 =>
              Welcome(result.entry.spec)
        BY <3>4, <3>7
      <4> QED BY <4>1, Zenon DEF OnlyAcceptedRuns, Welcome, StaysHome
    <3>9. run' = [pc |-> run'.pc, todo |-> run'.todo, results |-> run'.results]  BY <3>4
    <3> QED BY <3>1, <3>8, <3>9 DEF OnlyStaying
  <2>6. CASE UNCHANGED vars  BY <2>6 DEF vars, OnlyStaying, OnlyAcceptedRuns
  <2> QED BY <2>1, <2>2, <2>3, <2>4, <2>5, <2>6 DEF Next
<1>3. OnlyStaying => OnlyAcceptedRuns  BY DEF OnlyStaying
<1> QED BY CatalogueInvariant, <1>1, <1>2, <1>3, PTL DEF Spec

-----------------------------------------------------------------------------
(* The items of the decisions.                                             *)

\* An item is one of the inputs, or a body under way.
IsItem == DecisionsInit \/ \E thread : item = [topic |-> "body", thread |-> thread]

\* What an item is about.
LEMMA Topics ==
  /\ VerdictItem => Is("verdict")
  /\ item \in UrlItems => Is("url")
  /\ item \in EscapeItems => Is("escape")
  /\ item \in RequestItems => Is("request")
  /\ item \in SelectionItems => Is("selection")
  /\ item \in GlobItems => Is("glob")
  /\ item \in LineItems => Is("line")
  /\ SuiteItem => Is("suite")
  /\ MockItem => Is("mock")
  /\ SettingItem => Is("setting")
  /\ item \in ResponseItems => Is("response")
  /\ ReportItem => Is("report")
  /\ TimingItem => Is("timing")
  /\ item \in FileItems => Is("files")
<1>1. VerdictItem => Is("verdict")  BY DEF VerdictItem, Is
<1>2. item \in UrlItems => Is("url")  BY DEF UrlItems, Is
<1>3. item \in EscapeItems => Is("escape")  BY DEF EscapeItems, Is
<1>4. item \in RequestItems => Is("request")  BY DEF RequestItems, Is
<1>5. item \in SelectionItems => Is("selection")  BY DEF SelectionItems, Is
<1>6. item \in GlobItems => Is("glob")  BY DEF GlobItems, Is
<1>7. item \in LineItems => Is("line")  BY DEF LineItems, Is
<1>8. SuiteItem => Is("suite")  BY DEF SuiteItem, Is
<1>9. MockItem => Is("mock")  BY DEF MockItem, Is
<1>10. SettingItem => Is("setting")
  <2>1. SettingItem => \E a, b, c, d :
          item = [topic |-> "setting", file |-> a, environment |-> b, dotEnv |-> c, flags |-> d]
    BY Zenon DEF SettingItem
  <2> QED BY <2>1 DEF Is
<1>11. item \in ResponseItems => Is("response")  BY DEF ResponseItems, Is
<1>12. ReportItem => Is("report")
  <2>1. ReportItem => \E a, b : item = [topic |-> "report", retried |-> a, run |-> b]
    BY Zenon DEF ReportItem
  <2> QED BY <2>1 DEF Is
<1>13. TimingItem => Is("timing")
  <2>1. TimingItem => \E a : item = [topic |-> "timing", durations |-> a]  BY Zenon DEF TimingItem
  <2> QED BY <2>1 DEF Is
<1>14. item \in FileItems => Is("files")  BY DEF FileItems, Is
<1> QED BY <1>1, <1>2, <1>3, <1>4, <1>5, <1>6, <1>7, <1>8, <1>9, <1>10, <1>11, <1>12, <1>13, <1>14

\* An item is of one topic only.
LEMMA ItemOf ==
  ASSUME IsItem
  PROVE  /\ Is("verdict") => VerdictItem
         /\ Is("url") => item \in UrlItems
         /\ Is("escape") => item \in EscapeItems
         /\ Is("request") => item \in RequestItems
         /\ Is("selection") => item \in SelectionItems
         /\ Is("glob") => item \in GlobItems
         /\ Is("line") => item \in LineItems
         /\ Is("suite") => SuiteItem
         /\ Is("mock") => MockItem
         /\ Is("setting") => SettingItem
         /\ Is("response") => item \in ResponseItems
         /\ Is("body") => \E thread : item = [topic |-> "body", thread |-> thread]
<1>1. (\E thread : item = [topic |-> "body", thread |-> thread]) => Is("body")  BY DEF Is
<1>2. DecisionsInit \/ \E thread : item = [topic |-> "body", thread |-> thread]  BY DEF IsItem
<1>3. DecisionsInit <=>
        \/ VerdictItem \/ item \in UrlItems \/ item \in EscapeItems \/ item \in RequestItems
        \/ item \in SelectionItems \/ item \in GlobItems \/ item \in LineItems
        \/ SuiteItem \/ MockItem \/ SettingItem \/ item \in ResponseItems
        \/ ReportItem \/ TimingItem \/ item \in FileItems
        \/ item = [topic |-> "body", thread |-> NewThread]
  BY Zenon DEF DecisionsInit
<1>4. PICK topic : topic = item.topic  OBVIOUS
<1>5. \A t : Is(t) <=> topic = t  BY <1>4 DEF Is
<1> QED BY <1>1, <1>2, <1>3, <1>5, Topics

\* The steps of a body change no other item.
LEMMA AlwaysItem == DecisionsSpec => []IsItem
<1>1. IsItem /\ [BodyStep]_item => IsItem'
  <2> SUFFICES ASSUME IsItem, [BodyStep]_item PROVE IsItem'  OBVIOUS
  <2>1. CASE BodyStep
    <3>1. Is("body")  BY <2>1 DEF BodyStep
    <3>2. \E thread : item = [topic |-> "body", thread |-> thread]  BY <3>1, ItemOf
    <3>3. PICK new : item' = [item EXCEPT !.thread = new]  BY <2>1 DEF BodyStep
    <3>4. item' = [topic |-> "body", thread |-> new]  BY <3>2, <3>3
    <3> QED BY <3>4, Zenon DEF IsItem
  <2>2. CASE UNCHANGED item
    <3>1. item' = item  BY <2>2
    <3>2. VerdictItem => VerdictItem'  BY <3>1, Zenon DEF VerdictItem
    <3>3. SuiteItem => SuiteItem'  BY <3>1, Zenon DEF SuiteItem
    <3>4. MockItem => MockItem'  BY <3>1, Zenon DEF MockItem
    <3>5. SettingItem => SettingItem'  BY <3>1, Zenon DEF SettingItem
    <3>6. ReportItem => ReportItem'  BY <3>1, Zenon DEF ReportItem
    <3>7. TimingItem => TimingItem'  BY <3>1, Zenon DEF TimingItem
    <3>8. DecisionsInit => DecisionsInit'
      BY <3>1, <3>2, <3>3, <3>4, <3>5, <3>6, <3>7, Zenon DEF DecisionsInit
    <3> QED BY <3>1, <3>8, Zenon DEF IsItem
  <2> QED BY <2>1, <2>2
<1>2. DecisionsInit => IsItem  BY DEF IsItem
<1> QED BY <1>1, <1>2, PTL DEF DecisionsSpec

-----------------------------------------------------------------------------
(* The suites.                                                             *)

\* A safe endpoint is permitted on the host of an HTTP base.
LEMMA HomePermits ==
  ASSUME NEW base, PlainText(base), ParseUrl(base) # NoUrl, ParseUrl(base).scheme \in {"http", "https"},
         NEW endpoint, IsSafeEndpoint(endpoint)
  PROVE  IsPermitted(endpoint, base, RestrictedTo(base))
<1>1. PICK reference : reference = endpoint.reference  OBVIOUS
<1>2. reference.kind # "absolute" /\ ~\E i \in DOMAIN reference.path : reference.path[i] = ".."
  BY <1>1 DEF IsSafeEndpoint
<1>3. PICK url : url = ParseUrl(base)  OBVIOUS
<1>4. PICK longer : longer = [url EXCEPT !.path = url.path \o reference.path, !.query = reference.text.query]
  OBVIOUS
<1>5. JoinUrl(base, reference) = ToText(longer)  BY <1>2, <1>3, <1>4, Zenon DEF JoinUrl
<1>6. PlainUrl(url)  BY <1>3, ParsePlain
<1>7. PICK scheme, h, port, path, query :
        /\ url = [scheme |-> scheme, host |-> <<h>>, port |-> port, path |-> path, query |-> query]
        /\ scheme \notin {Empty, "b@d"} /\ h \notin {Empty, "API"}
        /\ port \in GivenPorts \cup {0} /\ (port = 0 => DefaultPortFor(scheme) = 0)
  BY <1>6 DEF PlainUrl
<1>8. longer = [scheme |-> scheme, host |-> <<h>>, port |-> port, path |-> path \o reference.path,
                query |-> reference.text.query]
  BY <1>4, <1>7
<1>9. PlainUrl(longer)  BY <1>7, <1>8, Zenon DEF PlainUrl
<1>10. PlainText(ToText(longer)) /\ ParseUrl(ToText(longer)) = longer  BY <1>9, PlainRoundTrip
<1>11. ToText(longer) # NoText /\ longer # NoUrl  BY <1>9, <1>10, PlainIsSome
<1>12. longer.scheme = url.scheme /\ longer.host = url.host  BY <1>7, <1>8
<1>13. ~Reject(RestrictedTo(base), longer)  BY <1>3, <1>12, PolicyOfBase
<1> QED BY <1>1, <1>5, <1>10, <1>11, <1>13, Zenon DEF IsPermitted

\* The base URL of the items.
LEMMA HomeIsPlain ==
  PlainText(Home) /\ ParseUrl(Home) # NoUrl /\ ParseUrl(Home).scheme \in {"http", "https"}
<1>1. Home = [scheme |-> "http", bracketed |-> FALSE, authority |-> <<"api">>, port |-> Empty,
              path |-> <<"v1">>, query |-> Empty]
  BY PlainBase, Zenon DEF Home, Base
<1>2. PlainText(Home)  BY <1>1, Zenon DEF PlainText
<1>3. PICK no : no = FALSE  OBVIOUS
<1>4. Home = [scheme |-> "http", bracketed |-> no, authority |-> <<"api">>, port |-> Empty,
              path |-> <<"v1">>, query |-> Empty]
  BY <1>1, <1>3, Zenon
<1>5. Home.scheme = "http" /\ Home.bracketed = FALSE /\ Home.authority = <<"api">> /\ Home.port = Empty
  BY <1>3, <1>4
<1>6. HostAndPort(Home).host = <<"api">> /\ ~HostAndPort(Home).given  BY <1>5, CutPlain
<1>7. "http" \notin {Empty, "b@d"} /\ <<"api">> \notin {<<>>, <<Empty>>}
  <2>1. "http" # Empty /\ "http" # "b@d"  BY Zenon DEF Empty
  <2> QED BY <2>1, EmptyDiffers
<1>8. ~(\/ Home.scheme \in {Empty, "b@d"} \/ HostAndPort(Home).host \in {<<>>, <<Empty>>}
        \/ HostAndPort(Home).given /\ PortNumber(HostAndPort(Home).port) \notin 1..MaxPort)
  BY <1>5, <1>6, <1>7
<1>9. \E host, port : ParseUrl(Home) = [scheme |-> Home.scheme, host |-> host, port |-> port,
                                        path |-> Home.path, query |-> Home.query]
  BY <1>8, Zenon DEF ParseUrl
<1>10. ParseUrl(Home).scheme = "http"  BY <1>5, <1>9
<1>11. ParseUrl(Home) # NoUrl  BY <1>10 DEF NoUrl
<1> QED BY <1>2, <1>10, <1>11

\* The assertions of the provider's tests.
TimedAssertion == Assertion("response_time_under_ms", Empty, TRUE)
FieldAssertion == Assertion("json_field_exists", "id", TRUE)

\* The tests that the built-in provider may write about a resource.
MockSpecs(resource) ==
  {ListTest(resource), MissingTest(resource), CreateTest(resource), MissingFieldTest(resource),
   MalformedTest(resource), DuplicateTest(resource)}

\* A test with the fields that the provider sets and the others as they come.
IsMock(spec, name, method, path, status, bytes, assertions, budget) ==
  /\ spec.name = name /\ spec.method = method /\ spec.endpoint = Endpoint("rooted", path, "none")
  /\ spec.status = status /\ spec.acceptable = {} /\ spec.budget = budget /\ spec.headers = <<>>
  /\ spec.bodyBytes = bytes /\ spec.assertions = assertions

\* The fields of such a test, with the budget it has and with another.
LEMMA MockFields ==
  ASSUME NEW name, NEW method, NEW path, NEW status, NEW bytes, NEW assertions, NEW budget
  PROVE  /\ IsMock(MockSpec(name, method, path, status, bytes, assertions),
                   name, method, path, status, bytes, assertions, 0)
         /\ IsMock(WithBudget(MockSpec(name, method, path, status, bytes, assertions), budget),
                   name, method, path, status, bytes, assertions, budget)
<1>1. PICK endpoint, none, nothing, tags :
        /\ endpoint = Endpoint("rooted", path, "none") /\ none = {} /\ nothing = <<>>
        /\ tags = {"generated", "mock"}
  OBVIOUS
<1>2. PICK plain : plain = PlainSpec(name, method, endpoint)  OBVIOUS
<1>3. plain = [name |-> name, method |-> method, endpoint |-> endpoint, status |-> 200,
               acceptable |-> none, budget |-> 0, headers |-> nothing, bodyBytes |-> 0,
               assertions |-> nothing, tags |-> none]
  BY <1>1, <1>2, Zenon DEF PlainSpec
<1>4. PICK a : a = [plain EXCEPT !.status = status]  OBVIOUS
<1>5. PICK b : b = [a EXCEPT !.bodyBytes = bytes]  OBVIOUS
<1>6. PICK c : c = [b EXCEPT !.assertions = assertions]  OBVIOUS
<1>7. PICK spec : spec = [c EXCEPT !.tags = tags]  OBVIOUS
<1>8. a = [name |-> name, method |-> method, endpoint |-> endpoint, status |-> status,
           acceptable |-> none, budget |-> 0, headers |-> nothing, bodyBytes |-> 0,
           assertions |-> nothing, tags |-> none]
  BY <1>3, <1>4
<1>9. b = [name |-> name, method |-> method, endpoint |-> endpoint, status |-> status,
           acceptable |-> none, budget |-> 0, headers |-> nothing, bodyBytes |-> bytes,
           assertions |-> nothing, tags |-> none]
  BY <1>5, <1>8
<1>10. c = [name |-> name, method |-> method, endpoint |-> endpoint, status |-> status,
            acceptable |-> none, budget |-> 0, headers |-> nothing, bodyBytes |-> bytes,
            assertions |-> assertions, tags |-> none]
  BY <1>6, <1>9
<1>11. spec = [name |-> name, method |-> method, endpoint |-> endpoint, status |-> status,
               acceptable |-> none, budget |-> 0, headers |-> nothing, bodyBytes |-> bytes,
               assertions |-> assertions, tags |-> tags]
  BY <1>7, <1>10
<1>12. MockSpec(name, method, path, status, bytes, assertions) = spec
  BY <1>1, <1>2, <1>4, <1>5, <1>6, <1>7, Zenon DEF MockSpec
<1>13. PICK other : other = [spec EXCEPT !.budget = budget]  OBVIOUS
<1>14. other = [name |-> name, method |-> method, endpoint |-> endpoint, status |-> status,
                acceptable |-> none, budget |-> budget, headers |-> nothing, bodyBytes |-> bytes,
                assertions |-> assertions, tags |-> tags]
  BY <1>11, <1>13
<1>15. /\ spec.name = name /\ spec.method = method /\ spec.endpoint = endpoint /\ spec.status = status
       /\ spec.acceptable = none /\ spec.budget = 0 /\ spec.headers = nothing /\ spec.bodyBytes = bytes
       /\ spec.assertions = assertions
  BY <1>11
<1>16. /\ other.name = name /\ other.method = method /\ other.endpoint = endpoint /\ other.status = status
       /\ other.acceptable = none /\ other.budget = budget /\ other.headers = nothing
       /\ other.bodyBytes = bytes /\ other.assertions = assertions
  BY <1>14
<1>17. WithBudget(spec, budget) = other  BY <1>13, Zenon DEF WithBudget
<1> QED BY <1>1, <1>12, <1>15, <1>16, <1>17, Zenon DEF IsMock

\* Assertions that the parser and the validator take.
Fit(assertions) ==
  /\ AreSafeAssertions(assertions)
  /\ \A i \in DOMAIN assertions : AssertionParses(assertions[i])

\* The limits are wider than what the provider writes. (Cited instead of the numbers, which
\* are large for the provers.)
LEMMA LimitsAreWide ==
  MaxBudget \in Int /\ 2000 <= MaxBudget /\ MaxBodyBytes \in Int /\ 99 <= MaxBodyBytes
<1>1. MaxBudget \in Int /\ 2000 <= MaxBudget  BY SMT DEF MaxBudget
<1>2. MaxBodyBytes \in Int /\ 99 <= MaxBodyBytes  BY SMT DEF MaxBodyBytes
<1> QED BY <1>1, <1>2

\* What makes a test of the provider valid, whatever it is called.
LEMMA MockValid ==
  ASSUME NEW base, PlainText(base), ParseUrl(base) # NoUrl, ParseUrl(base).scheme \in {"http", "https"},
         NEW name, IsSafeName(name), name # Empty, NEW method \in {"GET", "POST"}, NEW S, NEW path \in Seq(S),
         \A i \in DOMAIN path : path[i] # "..", NEW status \in StatusCodes,
         NEW bytes \in 0..MaxBodyBytes, NEW budget \in 0..MaxBudget, NEW assertions, Fit(assertions),
         NEW spec, IsMock(spec, name, method, path, status, bytes, assertions, budget)
  PROVE  IsValid(spec, base, RestrictedTo(base)) /\ SpecParses(spec)
<1>1. PICK endpoint : endpoint = Endpoint("rooted", path, "none")  OBVIOUS
<1>2. endpoint.reference.kind = "rooted" /\ endpoint.reference.path = path /\ endpoint.flaw = "none"
  BY <1>1 DEF Endpoint, Reference
<1>3. IsSafeEndpoint(endpoint)  BY <1>2 DEF IsSafeEndpoint
<1>4. IsPermitted(endpoint, base, RestrictedTo(base))  BY <1>3, HomePermits
<1>5. /\ spec.name = name /\ spec.method = method /\ spec.endpoint = endpoint /\ spec.status = status
      /\ spec.acceptable = {} /\ spec.budget = budget /\ spec.headers = <<>> /\ spec.bodyBytes = bytes
      /\ spec.assertions = assertions
  BY <1>1, Zenon DEF IsMock
<1>6. spec.method \in AllowedMethods  BY <1>5 DEF AllowedMethods
<1>7. AreSafeHeaders(spec.headers)
  <2>1. PICK headers : headers = <<>>  OBVIOUS
  <2>2. Len(headers) = 0 /\ DOMAIN headers = {}  BY <2>1
  <2>3. Len(headers) <= MaxHeaders  BY <2>2 DEF MaxHeaders
  <2>4. AreSafeHeaders(headers)  BY <2>2, <2>3, Zenon DEF AreSafeHeaders
  <2> QED BY <1>5, <2>1, <2>4, Zenon
<1>8. {spec.status} \cup spec.acceptable \subseteq StatusCodes  BY <1>5
<1>9. spec.bodyBytes <= MaxBodyBytes  BY <1>5, LimitsAreWide
<1>10. AreSafeAssertions(spec.assertions)  BY <1>5, Zenon DEF Fit
<1>11. IsValid(spec, base, RestrictedTo(base))
  BY <1>3, <1>4, <1>5, <1>6, <1>7, <1>8, <1>9, <1>10, Zenon DEF IsValid
<1>12. SpecParses(spec)
  <2>1. spec.endpoint.reference.kind # "missing"  BY <1>2, <1>5
  <2>2. \A i \in DOMAIN spec.assertions : AssertionParses(spec.assertions[i])  BY <1>5, Zenon DEF Fit
  <2> QED BY <1>5, <2>1, <2>2, Zenon DEF SpecParses
<1> QED BY <1>11, <1>12

\* The assertions of the provider, and no assertions.
LEMMA MockAssertionsFit == Fit(<<TimedAssertion>>) /\ Fit(<<FieldAssertion>>) /\ Fit(<<>>)
<1>1. PICK timed, field : timed = TimedAssertion /\ field = FieldAssertion  OBVIOUS
<1>2. "id" # Empty  BY Zenon DEF Empty
<1>3. /\ timed.kind = "response_time_under_ms" /\ timed.fits /\ timed.flaw = "none"
      /\ field.kind = "json_field_exists" /\ field.target = "id" /\ field.flaw = "none"
  BY <1>1 DEF Assertion, TimedAssertion, FieldAssertion
<1>4. AssertionParses(timed) /\ AssertionParses(field)
  BY <1>2, <1>3 DEF AssertionParses, AssertionKinds, NeedsTarget
<1>5. ASSUME NEW one, one \in {timed, field} PROVE Fit(<<one>>)
  <2>1. PICK assertions : assertions = <<one>>  OBVIOUS
  <2>2. Len(assertions) = 1 /\ DOMAIN assertions = {1} /\ assertions[1] = one  BY <2>1
  <2>3. Len(assertions) <= MaxAssertions  BY <2>2 DEF MaxAssertions
  <2>4. one.flaw = "none" /\ (one.kind \in {"response_time_under_ms", "status_code_in"} => one.fits)
    BY <1>3, <1>5
  <2>5. AreSafeAssertions(assertions)  BY <2>2, <2>3, <2>4 DEF AreSafeAssertions
  <2> QED BY <1>4, <1>5, <2>1, <2>2, <2>5 DEF Fit
<1>6. Fit(<<>>)
  <2>1. PICK assertions : assertions = <<>>  OBVIOUS
  <2>2. Len(assertions) = 0 /\ DOMAIN assertions = {}  BY <2>1
  <2>3. Len(assertions) <= MaxAssertions  BY <2>2 DEF MaxAssertions
  <2> QED BY <2>1, <2>2, <2>3, Zenon DEF Fit, AreSafeAssertions
<1> QED BY <1>1, <1>5, <1>6

LEMMA MockLimits ==
  /\ 200 \in StatusCodes /\ 404 \in StatusCodes /\ 201 \in StatusCodes /\ 400 \in StatusCodes
  /\ 409 \in StatusCodes /\ 0 \in 0..MaxBudget /\ 2000 \in 0..MaxBudget
  /\ 0 \in 0..MaxBodyBytes /\ 84 \in 0..MaxBodyBytes /\ 25 \in 0..MaxBodyBytes
  /\ 43 \in 0..MaxBodyBytes /\ 99 \in 0..MaxBodyBytes
<1>1. \A n \in Int : 100 <= n /\ n <= 599 => n \in StatusCodes  BY DEF StatusCodes
<1>2. \A n \in Int : 0 <= n /\ n <= 2000 => n \in 0..MaxBudget  BY LimitsAreWide
<1>3. \A n \in Int : 0 <= n /\ n <= 99 => n \in 0..MaxBodyBytes  BY LimitsAreWide
<1>4. 200 \in StatusCodes /\ 404 \in StatusCodes /\ 201 \in StatusCodes  BY <1>1
<1>5. 400 \in StatusCodes /\ 409 \in StatusCodes  BY <1>1
<1>6. 0 \in 0..MaxBudget /\ 2000 \in 0..MaxBudget  BY <1>2
<1>7. 0 \in 0..MaxBodyBytes /\ 84 \in 0..MaxBodyBytes /\ 25 \in 0..MaxBodyBytes  BY <1>3
<1>8. 43 \in 0..MaxBodyBytes /\ 99 \in 0..MaxBodyBytes  BY <1>3
<1> QED BY <1>4, <1>5, <1>6, <1>7, <1>8

\* The paths and the assertions of the provider's tests, and what such a test looks like: its
\* numbers are within the limits.
MockPaths(resource) == {<<resource>>, <<resource, "999999">>}
MockAssertions == {<<TimedAssertion>>, <<FieldAssertion>>, <<>>}
MockNames == {"list", "missing", "create", "missingField", "malformed", "duplicate"}
Expected(spec, name, resource) ==
  \E method \in {"GET", "POST"}, path \in MockPaths(resource), status \in StatusCodes,
     bytes \in 0..MaxBodyBytes, assertions \in MockAssertions, budget \in 0..MaxBudget :
    IsMock(spec, name, method, path, status, bytes, assertions, budget)

LEMMA MockExpected ==
  ASSUME NEW resource, NEW name, NEW method \in {"GET", "POST"}, NEW path \in MockPaths(resource),
         NEW status \in StatusCodes, NEW bytes \in 0..MaxBodyBytes, NEW assertions \in MockAssertions
  PROVE  Expected(MockSpec(name, method, path, status, bytes, assertions), name, resource)
<1>1. PICK spec : spec = MockSpec(name, method, path, status, bytes, assertions)  OBVIOUS
<1>2. PICK zero : zero = 0  OBVIOUS
<1>3. IsMock(spec, name, method, path, status, bytes, assertions, zero)  BY <1>1, <1>2, MockFields, Zenon
<1>4. zero \in 0..MaxBudget  BY <1>2, LimitsAreWide
<1> QED BY <1>1, <1>3, <1>4, Zenon DEF Expected

\* The tests of the provider are as expected.
LEMMA MockTestsExpected ==
  ASSUME NEW resource
  PROVE  /\ Expected(ListTest(resource), "list", resource)
         /\ Expected(MissingTest(resource), "missing", resource)
         /\ Expected(CreateTest(resource), "create", resource)
         /\ Expected(MissingFieldTest(resource), "missingField", resource)
         /\ Expected(MalformedTest(resource), "malformed", resource)
         /\ Expected(DuplicateTest(resource), "duplicate", resource)
<1>1. Expected(ListTest(resource), "list", resource)
  <2>0. PICK budget : budget = 2000  OBVIOUS
  <2>1. PICK path, status, bytes, assertions :
          path = <<resource>> /\ status = 200 /\ bytes = 0 /\ assertions = <<TimedAssertion>>
    OBVIOUS
  <2>2. PICK plain : plain = MockSpec("list", "GET", path, status, bytes, assertions)  OBVIOUS
  <2>3. ListTest(resource) = WithBudget(plain, budget)  BY <2>0, <2>1, <2>2 DEF ListTest, TimedAssertion
  <2>4. IsMock(ListTest(resource), "list", "GET", path, status, bytes, assertions, budget)
    BY <2>2, <2>3, MockFields, Zenon
  <2>5. path \in MockPaths(resource) /\ assertions \in MockAssertions  BY <2>1 DEF MockPaths, MockAssertions
  <2>6. status \in StatusCodes /\ bytes \in 0..MaxBodyBytes /\ budget \in 0..MaxBudget  BY <2>0, <2>1, MockLimits
  <2>7. "GET" \in {"GET", "POST"}  OBVIOUS
  <2> QED BY <2>4, <2>5, <2>6, <2>7, Zenon DEF Expected
<1>2. Expected(MissingTest(resource), "missing", resource)
  <2>1. PICK path, status, bytes, assertions :
          path = <<resource, "999999">> /\ status = 404 /\ bytes = 0 /\ assertions = <<>>
    OBVIOUS
  <2>2. MissingTest(resource) = MockSpec("missing", "GET", path, status, bytes, assertions)
    BY <2>1 DEF MissingTest
  <2>3. path \in MockPaths(resource) /\ assertions \in MockAssertions  BY <2>1 DEF MockPaths, MockAssertions
  <2>4. status \in StatusCodes /\ bytes \in 0..MaxBodyBytes  BY <2>1, MockLimits
  <2> QED BY <2>2, <2>3, <2>4, MockExpected, Zenon
<1>3. Expected(CreateTest(resource), "create", resource)
  <2>1. PICK path, status, bytes, assertions :
          path = <<resource>> /\ status = 201 /\ bytes = 84 /\ assertions = <<FieldAssertion>>
    OBVIOUS
  <2>2. CreateTest(resource) = MockSpec("create", "POST", path, status, bytes, assertions)
    BY <2>1 DEF CreateTest, FieldAssertion
  <2>3. path \in MockPaths(resource) /\ assertions \in MockAssertions  BY <2>1 DEF MockPaths, MockAssertions
  <2>4. status \in StatusCodes /\ bytes \in 0..MaxBodyBytes  BY <2>1, MockLimits
  <2> QED BY <2>2, <2>3, <2>4, MockExpected, Zenon
<1>4. Expected(MissingFieldTest(resource), "missingField", resource)
  <2>1. PICK path, status, bytes, assertions :
          path = <<resource>> /\ status = 400 /\ bytes = 25 /\ assertions = <<>>
    OBVIOUS
  <2>2. MissingFieldTest(resource) = MockSpec("missingField", "POST", path, status, bytes, assertions)
    BY <2>1 DEF MissingFieldTest
  <2>3. path \in MockPaths(resource) /\ assertions \in MockAssertions  BY <2>1 DEF MockPaths, MockAssertions
  <2>4. status \in StatusCodes /\ bytes \in 0..MaxBodyBytes  BY <2>1, MockLimits
  <2> QED BY <2>2, <2>3, <2>4, MockExpected, Zenon
<1>5. Expected(MalformedTest(resource), "malformed", resource)
  <2>1. PICK path, status, bytes, assertions :
          path = <<resource>> /\ status = 400 /\ bytes = 43 /\ assertions = <<>>
    OBVIOUS
  <2>2. MalformedTest(resource) = MockSpec("malformed", "POST", path, status, bytes, assertions)
    BY <2>1 DEF MalformedTest
  <2>3. path \in MockPaths(resource) /\ assertions \in MockAssertions  BY <2>1 DEF MockPaths, MockAssertions
  <2>4. status \in StatusCodes /\ bytes \in 0..MaxBodyBytes  BY <2>1, MockLimits
  <2> QED BY <2>2, <2>3, <2>4, MockExpected, Zenon
<1>6. Expected(DuplicateTest(resource), "duplicate", resource)
  <2>1. PICK path, status, bytes, assertions :
          path = <<resource>> /\ status = 409 /\ bytes = 99 /\ assertions = <<>>
    OBVIOUS
  <2>2. DuplicateTest(resource) = MockSpec("duplicate", "POST", path, status, bytes, assertions)
    BY <2>1 DEF DuplicateTest
  <2>3. path \in MockPaths(resource) /\ assertions \in MockAssertions  BY <2>1 DEF MockPaths, MockAssertions
  <2>4. status \in StatusCodes /\ bytes \in 0..MaxBodyBytes  BY <2>1, MockLimits
  <2> QED BY <2>2, <2>3, <2>4, MockExpected, Zenon
<1> QED BY <1>1, <1>2, <1>3, <1>4, <1>5, <1>6

\* All of them are valid, for any resource that is a segment of a path.
LEMMA MockSpecsValid ==
  ASSUME NEW base, PlainText(base), ParseUrl(base) # NoUrl, ParseUrl(base).scheme \in {"http", "https"},
         NEW resource, resource # "..", NEW spec \in MockSpecs(resource)
  PROVE  IsValid(spec, base, RestrictedTo(base)) /\ SpecParses(spec)
<1>1. PICK one, two : one = <<resource>> /\ two = <<resource, "999999">>  OBVIOUS
<1>2. /\ one \in Seq({resource, "999999"}) /\ \A i \in DOMAIN one : one[i] # ".."
      /\ two \in Seq({resource, "999999"}) /\ \A i \in DOMAIN two : two[i] # ".."
  BY <1>1
<1>3. \A assertions \in MockAssertions : Fit(assertions)  BY MockAssertionsFit DEF MockAssertions
<1>4. \A name \in MockNames : IsSafeName(name) /\ name # Empty
  <2>1. "list" # Empty /\ "missing" # Empty /\ "create" # Empty /\ "missingField" # Empty
        /\ "malformed" # Empty /\ "duplicate" # Empty
    BY Zenon DEF Empty
  <2> QED BY <2>1 DEF IsSafeName, MockNames
<1>5. PICK name \in MockNames : Expected(spec, name, resource)
  BY MockTestsExpected DEF MockSpecs, MockNames
<1>6. PICK method \in {"GET", "POST"}, path \in MockPaths(resource), status \in StatusCodes,
           bytes \in 0..MaxBodyBytes, assertions \in MockAssertions, budget \in 0..MaxBudget :
        IsMock(spec, name, method, path, status, bytes, assertions, budget)
  BY <1>5, Zenon DEF Expected
<1>7. path \in Seq({resource, "999999"}) /\ \A i \in DOMAIN path : path[i] # ".."
  BY <1>1, <1>2 DEF MockPaths
<1> QED BY <1>3, <1>4, <1>6, <1>7, MockValid, Zenon

\* A sequence of tests of the provider whose names are among these and differ.
Mocked(tests, resource, names) ==
  /\ tests \in Seq(MockSpecs(resource))
  /\ \A i \in DOMAIN tests : tests[i].name \in names
  /\ OwnNames(tests)

\* Two such sequences with other names, one after the other.
LEMMA MockedJoin ==
  ASSUME NEW resource, NEW a, NEW A, Mocked(a, resource, A), NEW b, NEW B, Mocked(b, resource, B),
         \A x \in A, y \in B : LowerName(x) # LowerName(y)
  PROVE  Mocked(a \o b, resource, A \cup B)
<1>1. a \in Seq(MockSpecs(resource)) /\ b \in Seq(MockSpecs(resource))  BY DEF Mocked
<1>2. PICK c : c = a \o b  OBVIOUS
<1>3. /\ c \in Seq(MockSpecs(resource)) /\ Len(c) = Len(a) + Len(b) /\ DOMAIN c = 1..Len(c)
      /\ Len(a) \in Nat /\ Len(b) \in Nat /\ DOMAIN a = 1..Len(a) /\ DOMAIN b = 1..Len(b)
      /\ \A i \in 1..Len(a) : c[i] = a[i]
      /\ \A i \in 1..Len(b) : c[i + Len(a)] = b[i]
  BY <1>1, <1>2
<1>4. \A i \in DOMAIN c : IF i <= Len(a) THEN i \in DOMAIN a /\ c[i] = a[i]
                          ELSE i - Len(a) \in DOMAIN b /\ c[i] = b[i - Len(a)]
  BY <1>3
<1>5. /\ \A i \in DOMAIN a : a[i].name \in A
      /\ \A i \in DOMAIN b : b[i].name \in B
  BY DEF Mocked
<1>6. ASSUME NEW i \in DOMAIN c PROVE c[i].name \in A \cup B  BY <1>4, <1>5
<1>7. ASSUME NEW i \in DOMAIN c, NEW j \in DOMAIN c, i # j PROVE LowerName(c[i].name) # LowerName(c[j].name)
  <2>1. CASE i <= Len(a) /\ j <= Len(a)  BY <1>4, <1>7, <2>1 DEF Mocked, OwnNames
  <2>2. CASE i <= Len(a) /\ ~(j <= Len(a))  BY <1>4, <1>5, <2>2
  <2>3. CASE ~(i <= Len(a)) /\ j <= Len(a)  BY <1>4, <1>5, <2>3
  <2>4. CASE ~(i <= Len(a)) /\ ~(j <= Len(a))
    <3>1. i - Len(a) # j - Len(a)  BY <1>3, <1>7
    <3> QED BY <1>4, <2>4, <3>1 DEF Mocked, OwnNames
  <2> QED BY <2>1, <2>2, <2>3, <2>4
<1> QED BY <1>2, <1>3, <1>6, <1>7 DEF Mocked, OwnNames

\* The provider's tests have names of their own.
LEMMA MockTestsMocked ==
  ASSUME NEW resource, NEW mentions
  PROVE  /\ Mocked(MockTests(resource, mentions), resource,
                   {"list", "missing", "create", "missingField", "malformed", "duplicate"})
         /\ MockTests(resource, mentions) # <<>>
<1>1. ASSUME NEW x \in MockSpecs(resource), NEW n, x.name = n PROVE Mocked(<<x>>, resource, {n})
  BY <1>1 DEF Mocked, OwnNames
<1>2. \A N : Mocked(<<>>, resource, N)  BY DEF Mocked, OwnNames
<1>3. ASSUME NEW x \in MockSpecs(resource), NEW y \in MockSpecs(resource), NEW m, NEW n, x.name = m, y.name = n,
             LowerName(m) # LowerName(n)
      PROVE  Mocked(<<x, y>>, resource, {m, n})
  <2>1. PICK c : c = <<x, y>>  OBVIOUS
  <2>2. c \in Seq(MockSpecs(resource)) /\ DOMAIN c = 1..2 /\ c[1] = x /\ c[2] = y  BY <2>1
  <2>3. Mocked(c, resource, {m, n})  BY <1>3, <2>2 DEF Mocked, OwnNames
  <2> QED BY <2>1, <2>3
<1>4. \A n \in {"list", "missing", "create", "missingField", "malformed", "duplicate"} : LowerName(n) = n
  BY DEF LowerName
<1>5. PICK a, b, c, d, e, f :
        /\ a = ListTest(resource) /\ b = MissingTest(resource) /\ c = CreateTest(resource)
        /\ d = MissingFieldTest(resource) /\ e = MalformedTest(resource) /\ f = DuplicateTest(resource)
  OBVIOUS
<1>6. MockSpecs(resource) = {a, b, c, d, e, f}  BY <1>5, Zenon DEF MockSpecs
<1>7. /\ a.name = "list" /\ b.name = "missing" /\ c.name = "create" /\ d.name = "missingField"
      /\ e.name = "malformed" /\ f.name = "duplicate"
  <2>1. \A spec, name : Expected(spec, name, resource) => spec.name = name  BY Zenon DEF Expected, IsMock
  <2> QED BY <1>5, <2>1, MockTestsExpected, Zenon
<1>8. PICK two, three, four :
        /\ two = IF "create" \in mentions THEN <<c, d>> ELSE <<>>
        /\ three = IF "validation" \in mentions THEN <<e>> ELSE <<>>
        /\ four = IF "unique" \in mentions THEN <<f>> ELSE <<>>
  OBVIOUS
<1>9. MockTests(resource, mentions) = ((<<a, b>> \o two) \o three) \o four
  BY <1>5, <1>8, Zenon DEF MockTests
<1>10. Mocked(<<a, b>>, resource, {"list", "missing"})  BY <1>3, <1>4, <1>6, <1>7
<1>11. Mocked(two, resource, {"create", "missingField"})  BY <1>2, <1>3, <1>4, <1>6, <1>7, <1>8
<1>12. Mocked(three, resource, {"malformed"})  BY <1>1, <1>2, <1>6, <1>7, <1>8
<1>13. Mocked(four, resource, {"duplicate"})  BY <1>1, <1>2, <1>6, <1>7, <1>8
<1>14. PICK x : x = <<a, b>> \o two  OBVIOUS
<1>15. Mocked(x, resource, {"list", "missing"} \cup {"create", "missingField"})
  <2>1. \A m \in {"list", "missing"}, n \in {"create", "missingField"} : LowerName(m) # LowerName(n)  BY <1>4
  <2> QED BY <1>10, <1>11, <1>14, <2>1, MockedJoin, Zenon
<1>16. PICK y : y = x \o three  OBVIOUS
<1>17. Mocked(y, resource, ({"list", "missing"} \cup {"create", "missingField"}) \cup {"malformed"})
  <2>1. \A m \in {"list", "missing"} \cup {"create", "missingField"}, n \in {"malformed"} : LowerName(m) # LowerName(n)
    BY <1>4
  <2> QED BY <1>12, <1>15, <1>16, <2>1, MockedJoin, Zenon
<1>18. PICK z : z = y \o four  OBVIOUS
<1>19. Mocked(z, resource, (({"list", "missing"} \cup {"create", "missingField"}) \cup {"malformed"}) \cup {"duplicate"})
  <2>1. \A m \in ({"list", "missing"} \cup {"create", "missingField"}) \cup {"malformed"}, n \in {"duplicate"} :
          LowerName(m) # LowerName(n)
    BY <1>4
  <2> QED BY <1>13, <1>17, <1>18, <2>1, MockedJoin, Zenon
<1>20. (({"list", "missing"} \cup {"create", "missingField"}) \cup {"malformed"}) \cup {"duplicate"} =
         {"list", "missing", "create", "missingField", "malformed", "duplicate"}
  OBVIOUS
<1>21. z # <<>>
  <2>1. PICK pair : pair = <<a, b>>  OBVIOUS
  <2>2. /\ pair \in Seq(MockSpecs(resource)) /\ two \in Seq(MockSpecs(resource)) /\ three \in Seq(MockSpecs(resource))
        /\ four \in Seq(MockSpecs(resource)) /\ x = pair \o two /\ Len(pair) = 2
    BY <1>10, <1>11, <1>12, <1>13, <1>14, <2>1 DEF Mocked
  <2>3. Len(x) >= 2 /\ x \in Seq(MockSpecs(resource)) /\ Len(x) \in Nat
    <3>1. Len(two) \in Nat  BY <2>2
    <3>2. Len(pair \o two) = Len(pair) + Len(two) /\ pair \o two \in Seq(MockSpecs(resource))
      BY <2>2, ConcatProperties, Zenon
    <3> QED BY <2>2, <3>1, <3>2
  <2>4. Len(y) >= 2 /\ y \in Seq(MockSpecs(resource)) /\ Len(y) \in Nat  BY <1>16, <2>2, <2>3
  <2>5. Len(z) >= 2 /\ z \in Seq(MockSpecs(resource)) /\ Len(z) \in Nat  BY <1>18, <2>2, <2>4
  <2> QED BY <2>5
<1> QED BY <1>9, <1>14, <1>16, <1>18, <1>19, <1>20, <1>21, Zenon

\* The resource is a word of the list, or "items".
LEMMA ResourceKnown ==
  ASSUME NEW mentions PROVE GuessResource(mentions) # ".."
<1> DEFINE known == {i \in DOMAIN KnownResources : KnownResources[i] \in mentions}
           first == CHOOSE i \in known : \A j \in known : i <= j
<1>3. GuessResource(mentions) = IF known = {} THEN "items" ELSE KnownResources[first]
  BY DEF GuessResource
<1>4. known \subseteq 1..6  BY DEF KnownResources
<1> HIDE DEF known
<1>5. ASSUME known # {} PROVE first \in known
  <2>1. \E k \in known : \A j \in known : k <= j
    <3>1. CASE 1 \in known  BY <1>4, <3>1
    <3>2. CASE 1 \notin known /\ 2 \in known  BY <1>4, <3>2
    <3>3. CASE known \cap {1, 2} = {} /\ 3 \in known  BY <1>4, <3>3
    <3>4. CASE known \cap {1, 2, 3} = {} /\ 4 \in known  BY <1>4, <3>4
    <3>5. CASE known \cap {1, 2, 3, 4} = {} /\ 5 \in known  BY <1>4, <3>5
    <3>6. CASE known \cap {1, 2, 3, 4, 5} = {}
      <4>1. \A k \in known : k = 6  BY <1>4, <3>6
      <4> QED BY <1>5, <4>1
    <3> QED BY <3>1, <3>2, <3>3, <3>4, <3>5, <3>6
  <2> QED BY <2>1
<1> HIDE DEF first
<1>6. \A k \in 1..6 : KnownResources[k] # ".."  BY DEF KnownResources
<1> QED BY <1>3, <1>4, <1>5, <1>6

\* What the built-in provider writes, under whatever name, about whatever words
\* and with whatever limit, is accepted as far as validate() looks at it at all.
THEOREM MockAccepted ==
  ASSUME NEW base, PlainText(base), ParseUrl(base) # NoUrl, ParseUrl(base).scheme \in {"http", "https"},
         NEW name, name # "..", NEW mentions, NEW max \in Int
  PROVE  /\ SuiteParses(MockSuite(name, mentions, max))
         /\ Validate(MockSuite(name, mentions, max), base, RestrictedTo(base)).valid
         /\ Validate(MockSuite(name, mentions, max), base, RestrictedTo(base)).suite.tests =
              KeptTests(MockSuite(name, mentions, max))
<1>1. PICK resource : resource = GuessResource(mentions)  OBVIOUS
<1>2. PICK T : T = MockSpecs(resource)  OBVIOUS
<1>3. PICK all : all = MockTests(resource, mentions)  OBVIOUS
<1>4. all \in Seq(T) /\ all # <<>> /\ OwnNames(all)  BY <1>2, <1>3, MockTestsMocked DEF Mocked
<1>5. \A spec \in T : IsValid(spec, base, RestrictedTo(base)) /\ SpecParses(spec)
  BY <1>1, <1>2, ResourceKnown, MockSpecsValid
<1>6. PICK limit : limit = IF max < 1 THEN 1 ELSE max  OBVIOUS
<1>7. limit \in Nat \ {0}  BY <1>6
<1>8. ASSUME NEW tests, tests \in Seq(T), tests # <<>>, OwnNames(tests), NEW n \in Nat \ {0}, Len(tests) > n
      PROVE  SubSeq(tests, 1, n) \in Seq(T) /\ SubSeq(tests, 1, n) # <<>> /\ OwnNames(SubSeq(tests, 1, n))
  <2>1. PICK first : first = SubSeq(tests, 1, n)  OBVIOUS
  <2>2. /\ first \in Seq(T) /\ Len(first) = n /\ DOMAIN first = 1..n /\ DOMAIN tests = 1..Len(tests)
        /\ Len(tests) \in Nat /\ \A i \in 1..n : first[i] = tests[i]
    BY <1>8, <2>1
  <2>3. OwnNames(first)  BY <1>8, <2>2 DEF OwnNames
  <2> QED BY <2>1, <2>2, <2>3
<1>9. PICK tests : tests = IF Len(all) > limit THEN SubSeq(all, 1, limit) ELSE all  OBVIOUS
<1>10. tests \in Seq(T) /\ tests # <<>> /\ OwnNames(tests)  BY <1>4, <1>7, <1>8, <1>9
<1>11. PICK called : called = IF name = Empty THEN "generated" ELSE name  OBVIOUS
<1>12. called # Empty /\ IsSafeName(called)
  <2>1. "generated" # Empty  BY Zenon DEF Empty
  <2> QED BY <1>11, <2>1 DEF IsSafeName
<1>13. PICK suite : suite = MockSuite(name, mentions, max)  OBVIOUS
<1>14. suite = [suite |-> called, tests |-> tests]
  BY <1>1, <1>3, <1>6, <1>9, <1>11, <1>13, Zenon DEF MockSuite
<1>15. suite.suite = called /\ suite.tests = tests /\ IsSuite(suite, T)  BY <1>10, <1>14 DEF IsSuite
<1>16. SuiteParses(suite)
  <2>1. \A i \in DOMAIN tests : SpecParses(tests[i])  BY <1>5, <1>10
  <2> QED BY <1>10, <1>12, <1>15, <2>1, Zenon DEF SuiteParses
<1>17. PICK kept : kept = KeptTests(suite)  OBVIOUS
<1>18. kept \in Seq(T) /\ kept # <<>> /\ OwnNames(kept)
  <2>1. Limit \in Nat \ {0}  BY <1>10, <1>15, KeptTestsDoes
  <2>2. kept = IF Len(tests) > Limit THEN SubSeq(tests, 1, Limit) ELSE tests
    BY <1>15, <1>17, Zenon DEF KeptTests, Limit
  <2> QED BY <1>8, <1>10, <2>1, <2>2
<1>19. AllValid(kept, base, RestrictedTo(base))  BY <1>5, <1>18 DEF AllValid
<1>20. AcceptedTests(kept, base, RestrictedTo(base)) = kept  BY <1>18, <1>19, ValidAreKept, Zenon
<1>21. PICK report : report = Validate(suite, base, RestrictedTo(base))  OBVIOUS
<1>22. Reported(T, suite, base, RestrictedTo(base), report, report.suite.tests)
  BY <1>15, <1>21, ValidateDoes, Zenon
<1>23. report.suite.tests = kept
  <2>1. report.suite.tests = IF IsSafeName(suite.suite)
                             THEN AcceptedTests(KeptTests(suite), base, RestrictedTo(base)) ELSE <<>>
    BY <1>22, Zenon DEF Reported
  <2>2. IsSafeName(suite.suite)  BY <1>12, <1>15
  <2> QED BY <1>17, <1>20, <2>1, <2>2, Zenon
<1>24. report.valid = (report.suite.tests # <<>>)  BY <1>22, Zenon DEF Reported
<1>25. report.valid  BY <1>18, <1>23, <1>24, Zenon
<1> QED BY <1>13, <1>16, <1>17, <1>21, <1>23, <1>25, Zenon

\* Every suite of the items settles in one pass, and no test that the built-in
\* provider writes is rejected, for any limit on the number of tests.
THEOREM AlwaysSettles == DecisionsSpec => []ValidationSettles
<1>1. IsItem => ValidationSettles
  <2> SUFFICES ASSUME IsItem PROVE ValidationSettles  OBVIOUS
  <2>1. ASSUME Is("suite")
        PROVE  /\ FirstReport(item.suite, Home, {<<"b">>}).accepted + FirstReport(item.suite, Home, {<<"b">>}).rejected
                    = Len(item.suite.tests)
               /\ SecondReport(item.suite, Home, {<<"b">>}).suite = FirstReport(item.suite, Home, {<<"b">>}).suite
               /\ SecondReport(item.suite, Home, {<<"b">>}).rejected = 0
               /\ OwnNames(FirstReport(item.suite, Home, {<<"b">>}).suite.tests)
    <3>1. PICK x \in SpecPool, y \in SpecPool :
            item = [topic |-> "suite", suite |-> [suite |-> "gen", tests |-> <<x, y>>]]
      BY <2>1, ItemOf DEF SuiteItem
    <3>2. PICK tests : tests = <<x, y>>  OBVIOUS
    <3>3. tests \in Seq(SpecPool)  BY <3>2
    <3>4. item.suite = [suite |-> "gen", tests |-> tests]  BY <3>1, <3>2
    <3>5. IsSuite(item.suite, SpecPool)  BY <3>3, <3>4 DEF IsSuite
    <3>6. Settled(SpecPool, item.suite, Home, FirstReport(item.suite, Home, {<<"b">>}),
                  SecondReport(item.suite, Home, {<<"b">>}))
      BY <3>5, HomeIsPlain, ValidationStable, Zenon
    <3> QED BY <3>6, Zenon DEF Settled
  <2>2. ASSUME Is("mock")
        PROVE  /\ SuiteParses(item.suite)
               /\ Validate(item.suite, Home, RestrictedTo(Home)).valid
               /\ Validate(item.suite, Home, RestrictedTo(Home)).suite.tests = KeptTests(item.suite)
    <3>1. PICK mentions, max : max \in 0..3 /\ item = [topic |-> "mock", suite |-> MockSuite(Empty, mentions, max)]
      BY <2>2, ItemOf DEF MockItem
    <3>2. item.suite = MockSuite(Empty, mentions, max)  BY <3>1
    <3>3. max \in Int  BY <3>1
    <3>4. Empty # ".."  BY Zenon DEF Empty
    <3> QED BY <3>2, <3>3, <3>4, HomeIsPlain, MockAccepted, Zenon
  <2> QED BY <2>1, <2>2, Zenon DEF ValidationSettles, FirstReport, SecondReport, OwnNames
<1> QED BY <1>1, AlwaysItem, PTL

-----------------------------------------------------------------------------
(* The URLs of the items.                                                  *)

\* A sequence is a prefix of what is made of it by appending.
LEMMA AppendedPrefix ==
  ASSUME NEW S, NEW a \in Seq(S), NEW b \in Seq(S) PROVE IsPrefix(a, a \o b)
<1>1. PICK c : c = a \o b  OBVIOUS
<1>2. c \in Seq(S) /\ Len(c) = Len(a) + Len(b) /\ Len(a) \in Nat /\ Len(b) \in Nat
  BY <1>1
<1>3. \A i \in 1..Len(a) : c[i] = a[i]  BY <1>1
<1>4. PICK x, y : x = SubSeq(a, 1, Len(a)) /\ y = SubSeq(c, 1, Len(a))  OBVIOUS
<1>5. x \in Seq(S) /\ y \in Seq(S) /\ Len(x) = Len(a) /\ Len(y) = Len(a)  BY <1>2, <1>4
<1>6. \A i \in 1..Len(x) : x[i] = y[i]  BY <1>2, <1>3, <1>4, <1>5
<1>7. x = y  BY <1>5, <1>6, SeqEqual
<1>8. Len(a) <= Len(c)  BY <1>2
<1> QED BY <1>1, <1>4, <1>7, <1>8, Zenon DEF IsPrefix

\* The text of a URL whose host is an address between brackets, and what
\* ParseUrl() makes of it: the labels between the colons are those of the text.
Colons(host) ==
  \E S : host \in Seq(S) /\ Len(host) > 1 /\ \A i \in DOMAIN host : Lower(host[i]) = host[i]

LiteralText(text) ==
  \E scheme, host, port, path, query :
    /\ Colons(host)
    /\ text = [scheme |-> scheme, bracketed |-> TRUE, authority |-> host, port |-> port,
               path |-> path, query |-> query]

LiteralUrl(url) ==
  \E scheme, host, port, path, query :
    /\ url = [scheme |-> scheme, host |-> host, port |-> port, path |-> path, query |-> query]
    /\ Colons(host) /\ scheme \notin {Empty, "b@d"} /\ port \in GivenPorts \cup {0}

LEMMA ColonsParts ==
  ASSUME NEW host, Colons(host)
  PROVE  /\ [i \in DOMAIN host |-> Lower(host[i])] = host /\ host \notin {<<>>, <<Empty>>} /\ Len(host) # 1
         /\ \A w : LET parts == Append(host, w) IN Len(parts) > 1 /\ Front(parts) = host /\ Last(parts) = w
<1>1. PICK S : host \in Seq(S) /\ Len(host) > 1 /\ \A i \in DOMAIN host : Lower(host[i]) = host[i]
  BY DEF Colons
<1>2. [i \in DOMAIN host |-> Lower(host[i])] = host
  <2>1. PICK f : f = [i \in DOMAIN host |-> Lower(host[i])]  OBVIOUS
  <2>2. f = [i \in DOMAIN host |-> host[i]]  BY <1>1, <2>1, Zenon
  <2>3. f = host  BY <1>1, <2>2
  <2> QED BY <2>1, <2>3, Zenon
<1>3. host \notin {<<>>, <<Empty>>} /\ Len(host) # 1
  <2>1. PICK e : e = Empty  OBVIOUS
  <2>2. host # <<>> /\ host # <<e>> /\ Len(host) # 1  BY <1>1
  <2> QED BY <2>1, <2>2, Zenon
<1>4. ASSUME NEW w, NEW parts, parts = Append(host, w)
      PROVE  Len(parts) > 1 /\ Front(parts) = host /\ Last(parts) = w
  <2>1. PICK T : T = S \cup {w}  OBVIOUS
  <2>2. host \in Seq(T) /\ w \in T  BY <1>1, <2>1
  <2>3. /\ parts \in Seq(T) /\ Len(parts) = Len(host) + 1 /\ parts[Len(host) + 1] = w
        /\ \A i \in 1..Len(host) : parts[i] = host[i]
    BY <1>4, <2>2
  <2>4. PICK x : x = SubSeq(parts, 1, Len(host))  OBVIOUS
  <2>5. x \in Seq(T) /\ Len(x) = Len(host) /\ \A i \in 1..Len(x) : x[i] = host[i]  BY <2>2, <2>3, <2>4
  <2>6. x = host  BY <2>2, <2>5, SeqEqual
  <2>7. Len(parts) - 1 = Len(host) /\ Len(parts) > 1  BY <1>1, <2>3
  <2> QED BY <2>3, <2>4, <2>6, <2>7 DEF Front, Last
<1> QED BY <1>2, <1>3, <1>4, Zenon

LEMMA ParseLiteral ==
  ASSUME NEW text, LiteralText(text), ParseUrl(text) # NoUrl
  PROVE  LiteralUrl(ParseUrl(text)) /\ ParseUrl(text).path = text.path
<1>1. PICK scheme, host, port, path, query :
        /\ Colons(host)
        /\ text = [scheme |-> scheme, bracketed |-> TRUE, authority |-> host, port |-> port,
                   path |-> path, query |-> query]
  BY DEF LiteralText
<1>2. /\ text.scheme = scheme /\ text.bracketed = TRUE /\ text.authority = host /\ text.port = port
      /\ text.path = path /\ text.query = query
  BY <1>1
<1>3. PICK cut : cut = HostAndPort(text)  OBVIOUS
<1>4. PICK said : said = (port # Empty)  OBVIOUS
<1>5. cut = [host |-> host, port |-> port, given |-> said]  BY <1>2, <1>3, <1>4, Zenon DEF HostAndPort
<1>6. cut.host = host /\ cut.port = port /\ cut.given = said  BY <1>5
<1>7. PICK number : number = PortNumber(port)  OBVIOUS
<1>8. PICK given : given = IF said THEN number ELSE DefaultPortFor(scheme)  OBVIOUS
<1>9. [i \in DOMAIN host |-> Lower(host[i])] = host  BY <1>1, ColonsParts, Zenon
<1>10. ParseUrl(text) = IF \/ scheme \in {Empty, "b@d"} \/ host \in {<<>>, <<Empty>>}
                           \/ said /\ number \notin 1..MaxPort
                        THEN NoUrl
                        ELSE [scheme |-> scheme, host |-> host, port |-> given, path |-> path, query |-> query]
  BY <1>2, <1>3, <1>6, <1>7, <1>8, <1>9, Zenon DEF ParseUrl
<1>11. /\ ParseUrl(text) = [scheme |-> scheme, host |-> host, port |-> given, path |-> path, query |-> query]
       /\ scheme \notin {Empty, "b@d"} /\ (said => number \in 1..MaxPort)
  BY <1>10, Zenon
<1>12. given \in GivenPorts \cup {0}
  <2>1. CASE said  BY <1>7, <1>8, <1>11, <2>1, KnownPorts
  <2>2. CASE ~said
    <3>1. DefaultPortFor(scheme) \in {0, 80, 443}  BY DEF DefaultPortFor
    <3> QED BY <1>8, <2>2, <3>1 DEF GivenPorts
  <2> QED BY <1>4, <2>1, <2>2
<1>13. LiteralUrl(ParseUrl(text))  BY <1>1, <1>11, <1>12, Zenon DEF LiteralUrl
<1> QED BY <1>2, <1>11, <1>13

\* Such a URL is restored if it names its port: what is written after the last
\* colon is the port then.
LEMMA LiteralRoundTrip ==
  ASSUME NEW url, LiteralUrl(url), Unmistakable(url)
  PROVE  ParseUrl(ToText(url)) = url /\ url # NoUrl
<1>1. PICK scheme, host, port, path, query :
        /\ url = [scheme |-> scheme, host |-> host, port |-> port, path |-> path, query |-> query]
        /\ Colons(host) /\ scheme \notin {Empty, "b@d"} /\ port \in GivenPorts \cup {0}
  BY DEF LiteralUrl
<1>2. url.host = host /\ url.port = port /\ url.scheme = scheme /\ url.path = path /\ url.query = query  BY <1>1
<1>3. /\ [i \in DOMAIN host |-> Lower(host[i])] = host /\ host \notin {<<>>, <<Empty>>} /\ Len(host) # 1
      /\ \A w : LET parts == Append(host, w) IN Len(parts) > 1 /\ Front(parts) = host /\ Last(parts) = w
  BY <1>1, ColonsParts, Zenon
<1>4. port \notin {0, DefaultPortFor(scheme)}  BY <1>2, <1>3, Zenon DEF Unmistakable
<1>5. port \in GivenPorts  BY <1>1, <1>4
<1>6. PICK w : w = PortText(port)  OBVIOUS
<1>7. PortNumber(w) = port /\ port \in 1..MaxPort /\ w # Empty  BY <1>5, <1>6, KnownPorts
<1>8. PICK text : text = [scheme |-> scheme, bracketed |-> FALSE, authority |-> host, port |-> w,
                          path |-> path, query |-> query]
  OBVIOUS
<1>9. ToText(url) = text  BY <1>2, <1>4, <1>6, <1>8, Zenon DEF ToText
<1>10. /\ text.scheme = scheme /\ text.bracketed = FALSE /\ text.authority = host /\ text.port = w
       /\ text.path = path /\ text.query = query
  BY <1>8
<1>11. PICK cut : cut = HostAndPort(text)  OBVIOUS
<1>12. cut = [host |-> host, port |-> w, given |-> TRUE]  BY <1>3, <1>7, <1>10, <1>11, Zenon DEF HostAndPort
<1>13. PICK yes : yes = TRUE  OBVIOUS
<1>14. cut.host = host /\ cut.port = w /\ cut.given = yes  BY <1>12, <1>13
<1>15. ParseUrl(text) = [scheme |-> scheme, host |-> host, port |-> port, path |-> path, query |-> query]
  <2>1. cut.given  BY <1>13, <1>14, Zenon
  <2> QED BY <1>1, <1>3, <1>7, <1>10, <1>11, <1>14, <2>1, Zenon DEF ParseUrl
<1>16. url # NoUrl
  <2>1. NoUrl.host = <<>>  BY DEF NoUrl
  <2> QED BY <1>2, <1>3, <2>1, Zenon
<1> QED BY <1>1, <1>9, <1>15, <1>16, Zenon

LEMMA LiteralStays ==
  ASSUME NEW base, LiteralText(base), Unmistakable(ParseUrl(base)), NEW reference, reference.kind # "absolute",
         ParseUrl(base) # NoUrl, JoinUrl(base, reference) # NoText
  PROVE  /\ SameOrigin(ParseUrl(base), ParseUrl(JoinUrl(base, reference)))
         /\ ParseUrl(JoinUrl(base, reference)).path = base.path \o reference.path
<1>1. PICK url : url = ParseUrl(base)  OBVIOUS
<1>2. JoinUrl(base, reference) = ToText([url EXCEPT !.path = url.path \o reference.path,
                                                    !.query = reference.text.query])
  BY <1>1, Zenon DEF JoinUrl
<1>3. PICK scheme, host, port, path, query :
        /\ url = [scheme |-> scheme, host |-> host, port |-> port, path |-> path, query |-> query]
        /\ Colons(host) /\ scheme \notin {Empty, "b@d"} /\ port \in GivenPorts \cup {0}
  BY <1>1, ParseLiteral DEF LiteralUrl
<1>a. url = [scheme |-> scheme, host |-> host, port |-> port, path |-> path, query |-> query]  BY <1>3
<1>b. url.path = path /\ url.host = host /\ url.port = port /\ url.scheme = scheme  BY <1>a
<1>4. url.path = path /\ url.host = host /\ url.port = port /\ url.scheme = scheme /\ path = base.path
  <2>1. url.path = base.path  BY <1>1, ParseLiteral, Zenon
  <2> QED BY <1>b, <2>1, Zenon
<1>5. PICK far, ask : far = path \o reference.path /\ ask = reference.text.query  OBVIOUS
<1>6. PICK longer : longer = [scheme |-> scheme, host |-> host, port |-> port, path |-> far, query |-> ask]
  OBVIOUS
<1>7. [url EXCEPT !.path = far, !.query = ask] = longer
  <2>1. PICK there : there = [url EXCEPT !.path = far]  OBVIOUS
  <2>2. there = [scheme |-> scheme, host |-> host, port |-> port, path |-> far, query |-> query]  BY <1>a, <2>1
  <2>3. [there EXCEPT !.query = ask] = longer  BY <1>6, <2>2
  <2> QED BY <2>1, <2>3, Zenon
<1>8. longer.host = host /\ longer.port = port /\ longer.scheme = scheme /\ longer.path = far  BY <1>6
<1>9. LiteralUrl(longer)  BY <1>3, <1>6, Zenon DEF LiteralUrl
<1>10. Unmistakable(longer)
  <2>1. Unmistakable(url)  BY <1>1, Zenon
  <2> QED BY <1>4, <1>8, <2>1, Zenon DEF Unmistakable
<1>11. JoinUrl(base, reference) = ToText(longer)  BY <1>2, <1>4, <1>5, <1>7, Zenon
<1>12. ParseUrl(JoinUrl(base, reference)) = longer  BY <1>9, <1>10, <1>11, LiteralRoundTrip, Zenon
<1> QED BY <1>1, <1>4, <1>5, <1>8, <1>12 DEF SameOrigin

\* What UrlsFaithful says of a text and a reference.
Faithful(base, reference) ==
  LET url == ParseUrl(base)
      joined == JoinUrl(base, reference)
      target == ParseUrl(joined)
  IN url # NoUrl =>
       /\ Unmistakable(url) => ParseUrl(ToText(url)) = url
       /\ Unmistakable(url) /\ joined # NoText /\ reference.kind # "absolute" =>
            /\ SameOrigin(url, target) /\ IsPrefix(url.path, target.path)
            /\ url.scheme \in {"http", "https"} => ~Reject(RestrictedTo(base), target)
       /\ url.host # ParseUrl(Elsewhere).host => Reject(RestrictedTo(base), ParseUrl(Elsewhere))

\* URLs are faithful, for every text whose host is a name, an IPv4 address or an
\* address between brackets, and every reference: what Url::parse() reads
\* Url::toString() writes, unless a bracketed address has the default port,
\* joinUrl() stays below the base and UrlPolicy::restrictedTo() allows just that.
THEOREM UrlFaithful ==
  ASSUME NEW base, PlainText(base) \/ LiteralText(base), NEW S, base.path \in Seq(S),
         NEW reference, reference.path \in Seq(S)
  PROVE  Faithful(base, reference)
<1>1. PICK url : url = ParseUrl(base)  OBVIOUS
<1>2. PICK joined : joined = JoinUrl(base, reference)  OBVIOUS
<1>3. PICK target : target = ParseUrl(joined)  OBVIOUS
<1>4. ASSUME url # NoUrl, Unmistakable(url) PROVE ParseUrl(ToText(url)) = url
  <2>1. CASE PlainText(base)  BY <1>1, <1>4, <2>1, ParsePlain, PlainRoundTrip
  <2>2. CASE LiteralText(base)  BY <1>1, <1>4, <2>2, ParseLiteral, LiteralRoundTrip, Zenon
  <2> QED BY <2>1, <2>2
<1>5. ASSUME url # NoUrl, Unmistakable(url), joined # NoText, reference.kind # "absolute"
      PROVE  /\ SameOrigin(url, target) /\ IsPrefix(url.path, target.path)
             /\ url.scheme \in {"http", "https"} => ~Reject(RestrictedTo(base), target)
  <2>1. SameOrigin(url, target) /\ target.path = base.path \o reference.path /\ url.path = base.path
    <3>1. CASE PlainText(base)
      <4>1. /\ SameOrigin(url, target)
            /\ target = [url EXCEPT !.path = @ \o reference.path, !.query = reference.text.query]
        BY <1>1, <1>2, <1>3, <1>5, <3>1, JoinStays, Zenon
      <4>2. PlainUrl(url) /\ url.path = base.path  BY <1>1, <1>5, <3>1, ParsePlain
      <4>3. target.path = url.path \o reference.path  BY <4>1, <4>2 DEF PlainUrl
      <4> QED BY <4>1, <4>2, <4>3
    <3>2. CASE LiteralText(base)
      <4>1. SameOrigin(url, target) /\ target.path = base.path \o reference.path
        BY <1>1, <1>2, <1>3, <1>5, <3>2, LiteralStays, Zenon
      <4>2. url.path = base.path  BY <1>1, <1>5, <3>2, ParseLiteral, Zenon
      <4> QED BY <4>1, <4>2
    <3> QED BY <3>1, <3>2
  <2>2. IsPrefix(url.path, target.path)  BY <2>1, AppendedPrefix
  <2>3. ASSUME url.scheme \in {"http", "https"} PROVE ~Reject(RestrictedTo(base), target)
    BY <1>1, <1>5, <2>1, <2>3, PolicyOfBase DEF SameOrigin
  <2> QED BY <2>1, <2>2, <2>3
<1>6. ASSUME url # NoUrl, url.host # ParseUrl(Elsewhere).host
      PROVE  Reject(RestrictedTo(base), ParseUrl(Elsewhere))
  BY <1>1, <1>6, PolicyOfBase
<1> QED BY <1>1, <1>2, <1>3, <1>4, <1>5, <1>6, Zenon DEF Faithful

-----------------------------------------------------------------------------
(* Percent-encoding.                                                       *)

\* The code of a character.
Code(c) ==
  CASE c = "^" -> <<"%", "5", "E">>
    [] c = "%" -> <<"%", "2", "5">>
    [] c = "+" -> <<"%", "2", "B">>
    [] c = " " -> <<"%", "2", "0">>
    [] OTHER -> <<c>>

\* A code is the character itself, or a percent sign with its two digits.
LEMMA CodeDecodes ==
  ASSUME NEW c
  PROVE  \/ Code(c) = <<c>> /\ c \notin {"%", "+"}
         \/ \E h, l : Code(c) = <<"%", h, l>> /\ Escaped(h, l) = c /\ c # Empty
<1>1. ASSUME c \notin {"^", "%", "+", " "} PROVE Code(c) = <<c>>  BY <1>1 DEF Code
<1>2. Code("^") = <<"%", "5", "E">> /\ Code("%") = <<"%", "2", "5">>
      /\ Code("+") = <<"%", "2", "B">> /\ Code(" ") = <<"%", "2", "0">>
  BY Zenon DEF Code
<1>3. Escaped("5", "E") = "^" /\ Escaped("2", "5") = "%" /\ Escaped("2", "B") = "+" /\ Escaped("2", "0") = " "
  BY DEF Escaped
<1>4. "^" # Empty /\ "%" # Empty /\ "+" # Empty /\ " " # Empty  BY Zenon DEF Empty
<1>5. CASE c \notin {"^", "%", "+", " "}  BY <1>1, <1>5
<1>6. CASE c = "^"  BY <1>2, <1>3, <1>4, <1>6, Zenon
<1>7. CASE c = "%"  BY <1>2, <1>3, <1>4, <1>7, Zenon
<1>8. CASE c = "+"  BY <1>2, <1>3, <1>4, <1>8, Zenon
<1>9. CASE c = " "  BY <1>2, <1>3, <1>4, <1>9, Zenon
<1> QED BY <1>5, <1>6, <1>7, <1>8, <1>9

\* The loop of FlattenSeq.
Flattens(f, codes, n) == f = [i \in 1..n |-> IF i = 1 THEN codes[i] ELSE f[i - 1] \o codes[i]]

\* It computes something, for any number of parts.
LEMMA FlatteningExists ==
  ASSUME NEW n \in Nat, NEW codes PROVE \E f : Flattens(f, codes, n)
<1> DEFINE D == {m \in Nat : \E f : Flattens(f, codes, m)}
<1>1. 0 \in D
  <2>1. PICK f : f = [i \in 1..0 |-> <<>>]  OBVIOUS
  <2>2. Flattens(f, codes, 0)  BY <2>1 DEF Flattens
  <2> QED BY <2>2
<1>2. ASSUME NEW m \in Nat, m \in D PROVE m + 1 \in D
  <2>1. PICK f : Flattens(f, codes, m)  BY <1>2
  <2>2. PICK last : last = IF m = 0 THEN codes[m + 1] ELSE f[m] \o codes[m + 1]  OBVIOUS
  <2>3. PICK g : g = [i \in 1..(m + 1) |-> IF i <= m THEN f[i] ELSE last]  OBVIOUS
  <2>4. \A j \in 1..m : f[j] = IF j = 1 THEN codes[j] ELSE f[j - 1] \o codes[j]
    BY <2>1, Zenon DEF Flattens
  <2>5. ASSUME NEW i \in 1..(m + 1) PROVE g[i] = IF i = 1 THEN codes[i] ELSE g[i - 1] \o codes[i]
    <3>1. CASE i <= m
      <4>1. i \in 1..m /\ g[i] = f[i] /\ (i # 1 => g[i - 1] = f[i - 1])  BY <2>3, <3>1
      <4>2. f[i] = IF i = 1 THEN codes[i] ELSE f[i - 1] \o codes[i]  BY <2>4, <4>1
      <4> QED BY <4>1, <4>2
    <3>2. CASE i = m + 1
      <4>1. g[i] = last /\ i - 1 = m /\ (m # 0 => g[m] = f[m])  BY <2>3, <3>2
      <4>2. m = 0 <=> i = 1  BY <3>2
      <4> QED BY <2>2, <3>2, <4>1, <4>2
    <3> QED BY <3>1, <3>2
  <2>6. Flattens(g, codes, m + 1)  BY <2>3, <2>5 DEF Flattens
  <2> QED BY <2>6
<1> HIDE DEF D
<1>3. n \in D  BY <1>1, <1>2, SetInduction
<1> QED BY <1>3 DEF D

\* The codes of the first i characters, for each i.
SpelledBy(F, text, C) ==
  /\ F \in [0..Len(text) -> Seq(C)]
  /\ F[0] = <<>>
  /\ \A i \in 1..Len(text) : F[i] = F[i - 1] \o Code(text[i])

\* urlEncode() spells its text.
LEMMA EncodeSpells ==
  ASSUME NEW S, NEW text \in Seq(S)
  PROVE  \E F, C : SpelledBy(F, text, C) /\ UrlEncode(text) = F[Len(text)]
<1>1. PICK n : n = Len(text)  OBVIOUS
<1>2. n \in Nat /\ DOMAIN text = 1..n  BY <1>1
<1> DEFINE codes == [i \in DOMAIN text |-> Code(text[i])]
           f == CHOOSE f : f = [i \in 1..Len(codes) |-> IF i = 1 THEN codes[i] ELSE f[i - 1] \o codes[i]]
           C == UNION {{Code(text[i])[k] : k \in DOMAIN Code(text[i])} : i \in DOMAIN text}
<1>3. UrlEncode(text) = FlattenSeq(codes)  BY Zenon DEF UrlEncode, Code
<1>4. FlattenSeq(codes) = IF Len(codes) = 0 THEN codes ELSE f[Len(codes)]  BY DEF FlattenSeq
<1>5. Len(codes) = n /\ \A i \in 1..n : codes[i] = Code(text[i])  BY <1>2
<1>6. Flattens(f, codes, n)
  <2>1. PICK c : c = codes  OBVIOUS
  <2>2. \E g : Flattens(g, c, n)  BY <1>2, FlatteningExists
  <2>3. f = CHOOSE g : Flattens(g, c, n)  BY <1>5, <2>1, Zenon DEF Flattens
  <2> HIDE DEF f
  <2> QED BY <2>1, <2>2, <2>3, Zenon
<1>7. ASSUME NEW i \in 1..n PROVE Code(text[i]) \in Seq(C)
  <2>1. PICK c : c = Code(text[i])  OBVIOUS
  <2>2. \E a, b, d : c = <<a>> \/ c = <<a, b, d>>  BY <2>1, CodeDecodes, Zenon
  <2>3. \A k \in DOMAIN c : c[k] \in C  BY <1>2, <2>1
  <2> HIDE DEF C
  <2> QED BY <2>1, <2>2, <2>3
<1> HIDE DEF C, codes, f
<1>8. PICK F : F = [i \in 0..n |-> IF i = 0 THEN <<>> ELSE f[i]]  OBVIOUS
<1>9. F[0] = <<>> /\ \A i \in 1..n : F[i] = f[i]  BY <1>2, <1>8
<1>10. \A i \in 1..n : f[i] = IF i = 1 THEN codes[i] ELSE f[i - 1] \o codes[i]
  BY <1>6, Zenon DEF Flattens
<1>11. ASSUME NEW i \in 1..n PROVE F[i] = F[i - 1] \o Code(text[i])
  <2>1. CASE i = 1
    <3>1. <<>> \o Code(text[i]) = Code(text[i])  BY <1>7
    <3>2. F[i] = Code(text[i])  BY <1>5, <1>9, <1>10, <2>1
    <3>3. i - 1 = 0  BY <2>1
    <3>4. F[i - 1] = <<>>  BY <1>9, <3>3
    <3> QED BY <3>1, <3>2, <3>4, Zenon
  <2>2. CASE i # 1
    <3>1. i - 1 \in 1..n  BY <1>2, <2>2
    <3> QED BY <1>5, <1>9, <1>10, <2>2, <3>1
  <2> QED BY <2>1, <2>2
<1>12. F \in [0..n -> Seq(C)]
  <2> DEFINE D == {m \in Nat : m <= n => F[m] \in Seq(C)}
  <2>1. 0 \in D
    <3>1. PICK none : none = <<>>  OBVIOUS
    <3>2. none \in Seq(C) /\ F[0] = none  BY <1>9, <3>1
    <3> QED BY <3>2
  <2>2. ASSUME NEW m \in Nat, m \in D PROVE m + 1 \in D
    <3> SUFFICES ASSUME m + 1 <= n PROVE F[m + 1] \in Seq(C)  OBVIOUS
    <3>1. m + 1 \in 1..n /\ (m + 1) - 1 = m  BY <1>2
    <3>2. F[m + 1] = F[m] \o Code(text[m + 1])  BY <1>11, <3>1
    <3>3. F[m] \in Seq(C) /\ Code(text[m + 1]) \in Seq(C)  BY <1>2, <1>7, <2>2, <3>1
    <3> QED BY <3>2, <3>3, ConcatProperties
  <2> HIDE DEF D
  <2>3. Nat \subseteq D  BY <2>1, <2>2, SetInduction
  <2>4. \A i \in 0..n : F[i] \in Seq(C)  BY <1>2, <2>3 DEF D
  <2> QED BY <1>8, <2>4
<1>13. UrlEncode(text) = F[n]
  <2>1. CASE n = 0
    <3>1. codes = <<>>
      <4>1. DOMAIN text = {}  BY <1>2, <2>1
      <4> QED BY <4>1 DEF codes
    <3> QED BY <1>3, <1>4, <1>5, <1>9, <2>1, <3>1
  <2>2. CASE n # 0  BY <1>2, <1>3, <1>4, <1>5, <1>9, <2>2
  <2> QED BY <2>1, <2>2
<1> QED BY <1>1, <1>9, <1>11, <1>12, <1>13 DEF SpelledBy

\* A code follows so many characters, and ends after so many.
Placed(whole, before, code, after) ==
  /\ before \in Nat /\ Len(code) \in Nat /\ after = before + Len(code)
  /\ after <= Len(whole) /\ Len(whole) \in Nat
  /\ \A k \in 1..Len(code) : whole[before + k] = code[k]

\* Each code is where it was put, whatever follows.
LEMMA SpelledAt ==
  ASSUME NEW text, Len(text) \in Nat, NEW C, NEW F, SpelledBy(F, text, C), NEW i \in 1..Len(text)
  PROVE  Placed(F[Len(text)], Len(F[i - 1]), Code(text[i]), Len(F[i]))
<1>1. PICK n : n = Len(text)  OBVIOUS
<1>2. /\ n \in Nat /\ i \in 1..n /\ F \in [0..n -> Seq(C)]
      /\ \A j \in 1..n : F[j] = F[j - 1] \o Code(text[j])
  BY <1>1 DEF SpelledBy
<1>3. ASSUME NEW j \in 1..n
      PROVE  /\ F[j] \in Seq(C) /\ F[j - 1] \in Seq(C) /\ Len(F[j - 1]) \in Nat /\ Len(Code(text[j])) \in Nat
             /\ Len(F[j]) = Len(F[j - 1]) + Len(Code(text[j]))
             /\ \A k \in 1..Len(F[j - 1]) : F[j][k] = F[j - 1][k]
             /\ \A k \in 1..Len(Code(text[j])) : F[j][Len(F[j - 1]) + k] = Code(text[j])[k]
  <2>1. PICK a, c, b : a = F[j - 1] /\ c = Code(text[j]) /\ b = F[j]  OBVIOUS
  <2>2. j \in 0..n /\ j - 1 \in 0..n  BY <1>2
  <2>3. a \in Seq(C) /\ b \in Seq(C) /\ b = a \o c  BY <1>2, <2>1, <2>2
  <2>4. \E T : c \in Seq(T)
    <3>1. \E x, y, z : c = <<x>> \/ c = <<x, y, z>>  BY <2>1, CodeDecodes, Zenon
    <3>2. PICK x, y, z : c = <<x>> \/ c = <<x, y, z>>  BY <3>1
    <3>3. c \in Seq({x, y, z})
      <4>1. CASE c = <<x>>  BY <4>1
      <4>2. CASE c = <<x, y, z>>  BY <4>2
      <4> QED BY <3>2, <4>1, <4>2
    <3> QED BY <3>3
  <2>5. PICK T : c \in Seq(T)  BY <2>4
  <2>6. a \in Seq(C \cup T) /\ c \in Seq(C \cup T)  BY <2>3, <2>5
  <2>7. /\ Len(b) = Len(a) + Len(c) /\ Len(a) \in Nat /\ Len(c) \in Nat
        /\ \A k \in 1..Len(a) : b[k] = a[k]
        /\ \A k \in 1..Len(c) : b[Len(a) + k] = c[k]
    BY <2>3, <2>6
  <2> QED BY <2>1, <2>3, <2>7
<1> DEFINE D == {d \in Nat : i + d <= n =>
                   /\ Len(F[i + d]) \in Nat /\ Len(F[i]) <= Len(F[i + d])
                   /\ \A k \in 1..Len(F[i]) : F[i + d][k] = F[i][k]}
<1>4. 0 \in D
  <2>1. Len(F[i]) \in Nat /\ i + 0 = i  BY <1>2, <1>3
  <2> QED BY <2>1
<1>5. ASSUME NEW d \in Nat, d \in D PROVE d + 1 \in D
  <2> SUFFICES ASSUME i + (d + 1) <= n
               PROVE  /\ Len(F[i + (d + 1)]) \in Nat /\ Len(F[i]) <= Len(F[i + (d + 1)])
                      /\ \A k \in 1..Len(F[i]) : F[i + (d + 1)][k] = F[i][k]
    OBVIOUS
  <2>1. PICK j : j = i + (d + 1)  OBVIOUS
  <2>2. j \in 1..n /\ j - 1 = i + d /\ i + d <= n  BY <1>2, <2>1
  <2>3. /\ Len(F[j - 1]) \in Nat /\ Len(F[i]) <= Len(F[j - 1])
        /\ \A k \in 1..Len(F[i]) : F[j - 1][k] = F[i][k]
    BY <1>5, <2>2
  <2>4. Len(F[i]) \in Nat
    <3>1. F[i] \in Seq(C)  BY <1>2, <1>3
    <3> QED BY <3>1
  <2>5. Len(F[j]) \in Nat /\ Len(F[j - 1]) <= Len(F[j]) /\ \A k \in 1..Len(F[j - 1]) : F[j][k] = F[j - 1][k]
    <3>1. /\ F[j] \in Seq(C) /\ Len(F[j - 1]) \in Nat /\ Len(Code(text[j])) \in Nat
          /\ Len(F[j]) = Len(F[j - 1]) + Len(Code(text[j]))
          /\ \A k \in 1..Len(F[j - 1]) : F[j][k] = F[j - 1][k]
      BY <1>3, <2>2, Zenon
    <3>2. PICK a, b, c : a = Len(F[j - 1]) /\ b = Len(F[j]) /\ c = Len(Code(text[j]))  OBVIOUS
    <3>3. a \in Nat /\ c \in Nat /\ b = a + c  BY <3>1, <3>2
    <3>4. b \in Nat /\ a <= b  BY <3>3
    <3> QED BY <3>1, <3>2, <3>4, Zenon
  <2>6. PICK f, g, h : f = F[i] /\ g = F[j - 1] /\ h = F[j]  OBVIOUS
  <2>7. PICK l, m, o : l = Len(f) /\ m = Len(g) /\ o = Len(h)  OBVIOUS
  <2>8. /\ l \in Nat /\ m \in Nat /\ o \in Nat /\ l <= m /\ m <= o
        /\ \A k \in 1..l : g[k] = f[k]
        /\ \A k \in 1..m : h[k] = g[k]
    BY <2>3, <2>4, <2>5, <2>6, <2>7, Zenon
  <2>9. l <= o /\ \A k \in 1..l : h[k] = f[k]  BY <2>8
  <2> QED BY <2>1, <2>6, <2>7, <2>8, <2>9, Zenon
<1> HIDE DEF D
<1>6. Nat \subseteq D  BY <1>4, <1>5, SetInduction
<1>7. /\ Len(F[n]) \in Nat /\ Len(F[i]) <= Len(F[n])
      /\ \A k \in 1..Len(F[i]) : F[n][k] = F[i][k]
  <2>1. n - i \in D /\ i + (n - i) = n  BY <1>2, <1>6
  <2> QED BY <1>2, <2>1 DEF D
<1>8. PICK before, code, whole : before = Len(F[i - 1]) /\ code = Code(text[i]) /\ whole = F[n]  OBVIOUS
<1>9. ASSUME NEW k \in 1..Len(code) PROVE whole[before + k] = code[k]
  <2>1. before \in Nat /\ Len(code) \in Nat /\ Len(F[i]) = before + Len(code) /\ F[i][before + k] = code[k]
    BY <1>2, <1>3, <1>8
  <2>2. before + k \in 1..Len(F[i])  BY <2>1
  <2> QED BY <1>7, <1>8, <2>1, <2>2
<1>10. Placed(whole, before, code, Len(F[i]))
  <2>1. before \in Nat /\ Len(code) \in Nat /\ Len(F[i]) = before + Len(code)  BY <1>2, <1>3, <1>8
  <2> QED BY <1>7, <1>8, <1>9, <2>1, Zenon DEF Placed
<1> QED BY <1>1, <1>8, <1>10, Zenon

\* The loop of urlDecode(), from a place on.
DecodeAt(f, text, i) ==
  IF i > Len(text) THEN <<>>
  ELSE IF text[i] = "+" THEN <<" ">> \o f[i + 1]
  ELSE IF text[i] = "%" /\ i + 2 <= Len(text) /\ Escaped(text[i + 1], text[i + 2]) # Empty
    THEN <<Escaped(text[i + 1], text[i + 2])>> \o f[i + 3]
  ELSE <<text[i]>> \o f[i + 1]

Decodes(f, text, from) == f = [i \in from..Len(text) + 3 |-> DecodeAt(f, text, i)]

\* It computes something, for any text.
LEMMA DecodingExists ==
  ASSUME NEW text, Len(text) \in Nat PROVE \E f : Decodes(f, text, 1)
<1>1. PICK n : n = Len(text)  OBVIOUS
<1> DEFINE D == {d \in Nat : d <= n => \E f : Decodes(f, text, (n + 1) - d)}
<1>2. 0 \in D
  <2>1. PICK f : f = [i \in (n + 1)..n + 3 |-> <<>>]  OBVIOUS
  <2>2. \A i \in (n + 1)..n + 3 : DecodeAt(f, text, i) = <<>>  BY <1>1 DEF DecodeAt
  <2>3. f = [i \in (n + 1)..n + 3 |-> DecodeAt(f, text, i)]  BY <2>1, <2>2
  <2>4. (n + 1) - 0 = n + 1  BY <1>1
  <2>5. Decodes(f, text, (n + 1) - 0)  BY <1>1, <2>3, <2>4 DEF Decodes
  <2> QED BY <2>5
<1>3. ASSUME NEW d \in Nat, d \in D PROVE d + 1 \in D
  <2> SUFFICES ASSUME d + 1 <= n PROVE \E f : Decodes(f, text, (n + 1) - (d + 1))  OBVIOUS
  <2>1. PICK m : m = (n + 1) - d  OBVIOUS
  <2>2. m \in 2..(n + 1) /\ (n + 1) - (d + 1) = m - 1 /\ n \in Nat  BY <1>1, <2>1
  <2>3. PICK f : Decodes(f, text, m)  BY <1>1, <1>3, <2>1, <2>2
  <2>4. PICK g : g = [i \in m - 1..n + 3 |-> IF i >= m THEN f[i] ELSE DecodeAt(f, text, i)]  OBVIOUS
  <2>5. \A i \in m..n + 3 : g[i] = f[i]  BY <2>2, <2>4
  <2>6. ASSUME NEW i \in m - 1..n + 3 PROVE DecodeAt(g, text, i) = DecodeAt(f, text, i)
    <3>1. CASE i > n  BY <1>1, <3>1 DEF DecodeAt
    <3>2. CASE ~(i > n)
      <4>1. i + 1 \in m..n + 3 /\ i + 3 \in m..n + 3  BY <2>2, <3>2
      <4>2. g[i + 1] = f[i + 1] /\ g[i + 3] = f[i + 3]  BY <2>5, <4>1
      <4> QED BY <4>2, Zenon DEF DecodeAt
    <3> QED BY <3>1, <3>2
  <2>7. \A i \in m..n + 3 : f[i] = DecodeAt(f, text, i)  BY <1>1, <2>3, Zenon DEF Decodes
  <2>8. ASSUME NEW i \in m - 1..n + 3 PROVE g[i] = DecodeAt(g, text, i)
    <3>1. CASE i >= m
      <4>1. i \in m..n + 3  BY <2>2, <3>1
      <4> QED BY <2>5, <2>6, <2>7, <4>1
    <3>2. CASE ~(i >= m)  BY <2>4, <2>6, <3>2
    <3> QED BY <3>1, <3>2
  <2>9. g = [i \in m - 1..n + 3 |-> DecodeAt(g, text, i)]  BY <2>4, <2>8
  <2>10. Decodes(g, text, m - 1)  BY <1>1, <2>9, Zenon DEF Decodes
  <2> QED BY <2>2, <2>10
<1> HIDE DEF D
<1>4. n \in D  BY <1>1, <1>2, <1>3, SetInduction
<1>5. (n + 1) - n = 1 /\ n <= n  BY <1>1
<1>6. \E f : Decodes(f, text, (n + 1) - n)  BY <1>4, <1>5 DEF D
<1> QED BY <1>5, <1>6

\* The loop is the one of the definition.
LEMMA UrlDecodes ==
  ASSUME NEW text, Len(text) \in Nat PROVE \E f : Decodes(f, text, 1) /\ UrlDecode(text) = f[1]
<1> DEFINE f == CHOOSE f : Decodes(f, text, 1)
<1>1. UrlDecode(text) = f[1]  BY DEF UrlDecode, Decodes, DecodeAt
<1>2. Decodes(f, text, 1)
  <2>1. \E g : Decodes(g, text, 1)  BY DecodingExists
  <2> QED BY <2>1, Zenon
<1> HIDE DEF f
<1> QED BY <1>1, <1>2

\* What urlEncode() has escaped, urlDecode() restores, for a text of any length
\* and of any characters.
THEOREM EscapesRestored ==
  ASSUME NEW S, NEW text \in Seq(S) PROVE UrlDecode(UrlEncode(text)) = text
<1>1. PICK n : n = Len(text)  OBVIOUS
<1>2. n \in Nat /\ Len(text) \in Nat /\ \A i \in 1..n : text[i] \in S  BY <1>1
<1>3. PICK F, C : SpelledBy(F, text, C) /\ UrlEncode(text) = F[Len(text)]  BY EncodeSpells
<1>4. PICK whole : whole = F[n]  OBVIOUS
<1>5. whole \in Seq(C) /\ Len(whole) \in Nat  BY <1>1, <1>2, <1>3, <1>4 DEF SpelledBy
<1>6. PICK f : Decodes(f, whole, 1) /\ UrlDecode(whole) = f[1]  BY <1>5, UrlDecodes
<1>7. \A i \in 1..Len(whole) + 3 : f[i] = DecodeAt(f, whole, i)  BY <1>6, Zenon DEF Decodes
<1> DEFINE Restored(r, d) == r \in Seq(S) /\ Len(r) = d /\ \A k \in 1..d : r[k] = text[(n - d) + k]
           D == {d \in Nat : d <= n => Restored(f[Len(F[n - d]) + 1], d)}
<1>8. 0 \in D
  <2>1. Len(whole) + 1 \in 1..Len(whole) + 3 /\ Len(whole) + 1 > Len(whole)  BY <1>5
  <2>2. f[Len(whole) + 1] = <<>>  BY <1>7, <2>1 DEF DecodeAt
  <2>3. n - 0 = n  BY <1>2
  <2>4. PICK r : r = f[Len(F[n - 0]) + 1]  OBVIOUS
  <2>5. r = <<>>  BY <1>4, <2>2, <2>3, <2>4
  <2>6. Restored(r, 0)  BY <2>5
  <2> HIDE DEF Restored
  <2> QED BY <2>4, <2>6
<1>9. ASSUME NEW d \in Nat, d \in D PROVE d + 1 \in D
  <2> SUFFICES ASSUME d + 1 <= n PROVE Restored(f[Len(F[n - (d + 1)]) + 1], d + 1)  OBVIOUS
  <2>1. PICK i : i = n - d  OBVIOUS
  <2>2. i \in 1..n /\ i - 1 = n - (d + 1) /\ d <= n  BY <1>2, <2>1
  <2>3. PICK before, code, c : before = Len(F[i - 1]) /\ code = Code(text[i]) /\ c = text[i]  OBVIOUS
  <2>4. /\ before \in Nat /\ Len(code) \in Nat /\ Len(F[i]) = before + Len(code) /\ Len(F[i]) <= Len(whole)
        /\ \A k \in 1..Len(code) : whole[before + k] = code[k]
    <3>1. i \in 1..Len(text)  BY <1>1, <2>2
    <3>2. Placed(F[Len(text)], Len(F[i - 1]), Code(text[i]), Len(F[i]))  BY <1>2, <1>3, <3>1, SpelledAt, Zenon
    <3> QED BY <1>1, <1>4, <2>3, <3>2, Zenon DEF Placed
  <2>5. PICK r : r = f[Len(F[i]) + 1]  OBVIOUS
  <2>6. Restored(r, d)  BY <1>9, <2>1, <2>2, <2>5, Zenon
  <2>7. f[before + 1] = <<c>> \o r
    <3>1. CASE code = <<c>> /\ c \notin {"%", "+"}
      <4>1. Len(code) = 1 /\ code[1] = c  BY <3>1
      <4>2. whole[before + 1] = c /\ Len(F[i]) + 1 = (before + 1) + 1  BY <2>4, <4>1
      <4>3. before + 1 \in 1..Len(whole) + 3 /\ ~(before + 1 > Len(whole))  BY <1>5, <2>4, <4>1
      <4>4. f[before + 1] = DecodeAt(f, whole, before + 1)  BY <1>7, <4>3
      <4>5. DecodeAt(f, whole, before + 1) = <<c>> \o f[(before + 1) + 1]
        BY <3>1, <4>2, <4>3, Zenon DEF DecodeAt
      <4> QED BY <2>5, <4>2, <4>4, <4>5, Zenon
    <3>2. CASE \E h, l : code = <<"%", h, l>> /\ Escaped(h, l) = c /\ c # Empty
      <4>1. PICK h, l : code = <<"%", h, l>> /\ Escaped(h, l) = c /\ c # Empty  BY <3>2
      <4>2. Len(code) = 3 /\ code[1] = "%" /\ code[2] = h /\ code[3] = l  BY <4>1
      <4>3. whole[before + 1] = "%" /\ whole[before + 2] = h /\ whole[before + 3] = l  BY <2>4, <4>2
      <4>4. /\ before + 1 \in 1..Len(whole) + 3 /\ ~(before + 1 > Len(whole))
            /\ (before + 1) + 1 = before + 2 /\ (before + 1) + 2 = before + 3
            /\ (before + 1) + 2 <= Len(whole) /\ Len(F[i]) + 1 = (before + 1) + 3
        BY <1>5, <2>4, <4>2
      <4>5. f[before + 1] = DecodeAt(f, whole, before + 1)  BY <1>7, <4>4
      <4>6. Escaped(whole[(before + 1) + 1], whole[(before + 1) + 2]) = c  BY <4>1, <4>3, <4>4
      <4>7. DecodeAt(f, whole, before + 1) = <<c>> \o f[(before + 1) + 3]
        <5>1. whole[before + 1] # "+"  BY <4>3
        <5> QED BY <4>1, <4>3, <4>4, <4>6, <5>1, Zenon DEF DecodeAt
      <4> QED BY <2>5, <4>4, <4>5, <4>7, Zenon
    <3> QED BY <2>3, <3>1, <3>2, CodeDecodes, Zenon
  <2>8. c \in S  BY <1>2, <2>2, <2>3
  <2>9. PICK longer : longer = <<c>> \o r  OBVIOUS
  <2>10. Restored(longer, d + 1)
    <3>1. r \in Seq(S) /\ Len(r) = d /\ \A k \in 1..d : r[k] = text[(n - d) + k]  BY <2>6
    <3>2. PICK one : one = <<c>>  OBVIOUS
    <3>3. one \in Seq(S) /\ Len(one) = 1 /\ one[1] = c  BY <2>8, <3>2
    <3>4. longer = one \o r  BY <2>9, <3>2
    <3>5. /\ longer \in Seq(S) /\ Len(longer) = d + 1 /\ longer[1] = c
          /\ \A k \in 1..d : longer[k + 1] = r[k]
      <4>1. /\ longer \in Seq(S) /\ Len(longer) = Len(one) + Len(r)
            /\ \A k \in 1..Len(one) + Len(r) : longer[k] = IF k <= Len(one) THEN one[k] ELSE r[k - Len(one)]
        BY <3>1, <3>3, <3>4, ConcatProperties, Zenon
      <4>2. ASSUME NEW k \in 1..d PROVE longer[k + 1] = r[k]
        <5>1. k + 1 \in 1..1 + d /\ ~(k + 1 <= 1) /\ (k + 1) - 1 = k  OBVIOUS
        <5> QED BY <3>1, <3>3, <4>1, <5>1
      <4>3. 1 \in 1..1 + d /\ 1 <= 1 /\ 1 + d = d + 1  OBVIOUS
      <4> QED BY <3>1, <3>3, <4>1, <4>2, <4>3
    <3>6. ASSUME NEW k \in 1..(d + 1) PROVE longer[k] = text[(n - (d + 1)) + k]
      <4>1. CASE k = 1
        <5>1. (n - (d + 1)) + k = i  BY <1>2, <2>1, <4>1
        <5> QED BY <2>3, <3>5, <4>1, <5>1
      <4>2. CASE k # 1
        <5>1. k - 1 \in 1..d /\ (n - d) + (k - 1) = (n - (d + 1)) + k /\ (k - 1) + 1 = k  BY <1>2, <4>2
        <5>2. longer[k] = r[k - 1]  BY <3>5, <5>1
        <5> QED BY <3>1, <5>1, <5>2
      <4> QED BY <4>1, <4>2
    <3> QED BY <3>5, <3>6
  <2> HIDE DEF Restored
  <2> QED BY <2>2, <2>3, <2>7, <2>9, <2>10
<1> HIDE DEF D
<1>10. n \in D  BY <1>2, <1>8, <1>9, SetInduction
<1>11. Restored(f[Len(F[n - n]) + 1], n)  BY <1>2, <1>10 DEF D
<1>12. Len(F[n - n]) + 1 = 1
  <2>1. n - n = 0  BY <1>2
  <2>2. F[0] = <<>>  BY <1>3 DEF SpelledBy
  <2> QED BY <2>1, <2>2
<1>13. PICK r : r = f[1]  OBVIOUS
<1>14. r \in Seq(S) /\ Len(r) = n /\ \A k \in 1..n : r[k] = text[(n - n) + k]  BY <1>11, <1>12, <1>13
<1>15. \A k \in 1..Len(r) : r[k] = text[k]  BY <1>2, <1>14
<1>16. r = text  BY <1>1, <1>14, <1>15, SeqEqual
<1> QED BY <1>1, <1>3, <1>4, <1>6, <1>13, <1>16

\* A sequence of bounded length is a sequence.
LEMMA BoundedIsSeq == ASSUME NEW S, NEW n, NEW text \in BoundedSeq(S, n) PROVE text \in Seq(S)
<1>1. PICK m : m \in 0..n /\ text \in [1..m -> S]  BY DEF BoundedSeq, SeqOf
<1> QED BY <1>1

\* The URLs and escapes of the items are faithful.
THEOREM AlwaysFaithful == DecisionsSpec => []UrlsFaithful
<1>1. IsItem => UrlsFaithful
  <2> SUFFICES ASSUME IsItem PROVE UrlsFaithful  OBVIOUS
  <2>1. ASSUME Is("url") PROVE Faithful(item.base, item.reference)
    <3>1. item \in UrlItems  BY <2>1, ItemOf
    <3>2. item.base \in UrlTexts /\ item.reference \in { Reference(kind, Elsewhere, further) :
            kind \in {"rooted", "relative", "absolute"}, further \in {<<>>, <<"users">>, <<"..", "x">>} }
      BY <3>1 DEF UrlItems
    <3>3. PICK text : text = item.base  OBVIOUS
    <3>4. PICK mark, hosts :
            /\ \/ mark = FALSE /\ hosts = Hosts
               \/ mark = TRUE /\ hosts = {<<Empty, Empty, "1">>}
            /\ text.authority \in hosts /\ text.bracketed = mark /\ text.path \in {<<>>, <<"v1">>}
            /\ text = [scheme |-> text.scheme, bracketed |-> mark, authority |-> text.authority,
                       port |-> text.port, path |-> text.path, query |-> text.query]
      <4>1. text \in UrlTexts
        <5>1. item.base \in UrlTexts  BY <3>2
        <5> QED BY <3>3, <5>1
      <4>2. PICK written : written = {<<>>, <<"v1">>}  OBVIOUS
      <4>3. PICK schemes, ports, queries :
              \/ text \in [scheme : schemes, bracketed : {FALSE}, authority : Hosts, port : ports,
                           path : written, query : queries]
              \/ text \in [scheme : schemes, bracketed : {TRUE}, authority : {<<Empty, Empty, "1">>},
                           port : ports, path : written, query : queries]
        BY <4>1, <4>2, Zenon DEF UrlTexts
      <4>4. PICK mark, hosts :
              /\ \/ mark = FALSE /\ hosts = Hosts
                 \/ mark = TRUE /\ hosts = {<<Empty, Empty, "1">>}
              /\ text \in [scheme : schemes, bracketed : {mark}, authority : hosts, port : ports,
                           path : written, query : queries]
        BY <4>3, Zenon
      <4>5. PICK marks : marks = {mark}  OBVIOUS
      <4>6. text \in [scheme : schemes, bracketed : marks, authority : hosts, port : ports,
                      path : written, query : queries]
        BY <4>4, <4>5, Zenon
      <4>7. /\ text.authority \in hosts /\ text.bracketed \in marks /\ text.path \in written
            /\ text = [scheme |-> text.scheme, bracketed |-> text.bracketed, authority |-> text.authority,
                       port |-> text.port, path |-> text.path, query |-> text.query]
        BY <4>6
      <4>8. text.bracketed = mark  BY <4>5, <4>7, Zenon
      <4> QED BY <4>2, <4>4, <4>7, <4>8, Zenon
    <3>5. ASSUME mark = FALSE, hosts = Hosts PROVE PlainText(text)
      <4>1. \E h : text.authority = <<h>>  BY <3>4, <3>5, Zenon DEF Hosts
      <4> QED BY <3>4, <3>5, <4>1, Zenon DEF PlainText
    <3>6. PlainText(text) \/ LiteralText(text)
      <4>1. ASSUME mark = TRUE, hosts = {<<Empty, Empty, "1">>} PROVE LiteralText(text)
        <5>1. PICK e, one : e = Empty /\ one = "1"  OBVIOUS
        <5>2. Lower(e) = e /\ Lower(one) = one
          <6>1. e # "API"  BY <5>1, EmptyDiffers
          <6> QED BY <5>1, <6>1 DEF Lower
        <5>3. PICK host : host = <<e, e, one>>  OBVIOUS
        <5>4. host \in Seq({e, one}) /\ Len(host) > 1 /\ \A i \in DOMAIN host : Lower(host[i]) = host[i]
          <6>1. host \in Seq({e, one}) /\ Len(host) = 3 /\ host[1] = e /\ host[2] = e /\ host[3] = one  BY <5>3
          <6>2. \A i \in DOMAIN host : host[i] \in {e, one}  BY <6>1
          <6> QED BY <5>2, <6>1, <6>2
        <5>5. Colons(host)  BY <5>4, Zenon DEF Colons
        <5>6. text.authority = host  BY <3>4, <4>1, <5>1, <5>3, Zenon
        <5> QED BY <3>4, <4>1, <5>5, <5>6, Zenon DEF LiteralText
      <4> QED BY <3>4, <3>5, <4>1, Zenon
    <3>7. text.path \in Seq({"v1", "users", "..", "x"})
      <4>1. CASE text.path = <<>>  BY <4>1
      <4>2. CASE text.path = <<"v1">>  BY <4>2
      <4> QED BY <3>4, <4>1, <4>2
    <3>8. PICK kind, further : /\ further \in {<<>>, <<"users">>, <<"..", "x">>}
                               /\ item.reference = Reference(kind, Elsewhere, further)
      BY <3>2
    <3>9. item.reference.path = further  BY <3>8 DEF Reference
    <3>10. further \in Seq({"v1", "users", "..", "x"})
      <4>1. CASE further = <<>>  BY <4>1
      <4>2. CASE further = <<"users">>  BY <4>2
      <4>3. CASE further = <<"..", "x">>  BY <4>3
      <4> QED BY <3>8, <4>1, <4>2, <4>3
    <3> QED BY <3>3, <3>6, <3>7, <3>9, <3>10, UrlFaithful, Zenon
  <2>2. ASSUME Is("escape") PROVE UrlDecode(UrlEncode(item.text)) = item.text
    <3>1. item \in EscapeItems  BY <2>2, ItemOf
    <3>2. item.text \in BoundedSeq(Characters, 4)  BY <3>1 DEF EscapeItems
    <3>3. item.text \in Seq(Characters)  BY <3>2, BoundedIsSeq, Zenon
    <3> QED BY <3>3, EscapesRestored, Zenon
  <2> QED BY <2>1, <2>2, Zenon DEF UrlsFaithful, Faithful
<1> QED BY <1>1, AlwaysItem, PTL

-----------------------------------------------------------------------------
(* Verdicts.                                                               *)

\* The evidence s is the most specific of the sequence, and the earliest such.
LeadingAt(evidence, i) ==
  /\ i \in DOMAIN evidence
  /\ \A j \in DOMAIN evidence : Specificity(evidence[j]) <= Specificity(evidence[i])
  /\ \A j \in 1..(i - 1) : Specificity(evidence[j]) < Specificity(evidence[i])
Leading(evidence, s) ==
  evidence \in Seq(Categories) /\ s \in Categories /\ \E i : LeadingAt(evidence, i) /\ s = evidence[i]

LEMMA SpecificityRange ==
  /\ \A c : Specificity(c) \in 0..4
  /\ \A c \in Categories : Specificity(c) = 0 => c = "None"
  /\ Specificity("None") = 0 /\ Specificity("Unknown") = 1 /\ Specificity("Timeout") = 4
  /\ \A c \in MessageCategories : c # "Unknown" => Specificity(c) > 1
  /\ MessageCategories \subseteq Categories /\ "absent" \notin MessageCategories
  /\ "None" \notin MessageCategories
BY DEF Specificity, Categories, MessageCategories

\* What leads is what Strongest() picks.
LEMMA LeadingIsStrongest ==
  ASSUME NEW evidence, NEW s, Leading(evidence, s) PROVE Strongest(evidence) = s
<1>1. PICK i : LeadingAt(evidence, i) /\ s = evidence[i]  BY DEF Leading
<1>2. PICK n \in Nat : DOMAIN evidence = 1..n  BY DEF Leading
<1>3. ASSUME NEW k, LeadingAt(evidence, k) PROVE k = i
  <2>1. Specificity(evidence[k]) \in Nat /\ Specificity(evidence[i]) \in Nat  BY SpecificityRange
  <2>2. k \in 1..n /\ i \in 1..n  BY <1>1, <1>2, <1>3 DEF LeadingAt
  <2>3. ~(k < i)
    <3>1. SUFFICES ASSUME k < i PROVE FALSE  OBVIOUS
    <3>2. k \in 1..(i - 1)  BY <2>2, <3>1
    <3>3. Specificity(evidence[k]) < Specificity(evidence[i])  BY <1>1, <3>2 DEF LeadingAt
    <3>4. Specificity(evidence[i]) <= Specificity(evidence[k])  BY <1>1, <1>3 DEF LeadingAt
    <3> QED BY <2>1, <3>3, <3>4
  <2>4. ~(i < k)
    <3>1. SUFFICES ASSUME i < k PROVE FALSE  OBVIOUS
    <3>2. i \in 1..(k - 1)  BY <2>2, <3>1
    <3>3. Specificity(evidence[i]) < Specificity(evidence[k])  BY <1>3, <3>2 DEF LeadingAt
    <3>4. Specificity(evidence[k]) <= Specificity(evidence[i])  BY <1>1, <1>3 DEF LeadingAt
    <3> QED BY <2>1, <3>3, <3>4
  <2> QED BY <2>2, <2>3, <2>4
<1>4. PICK k : k = CHOOSE j \in DOMAIN evidence :
                     /\ \A m \in DOMAIN evidence : Specificity(evidence[m]) <= Specificity(evidence[j])
                     /\ \A m \in 1..(j - 1) : Specificity(evidence[m]) < Specificity(evidence[j])
  OBVIOUS
<1>5. LeadingAt(evidence, k)  BY <1>1, <1>4, Zenon DEF LeadingAt
<1>6. Strongest(evidence) = evidence[k]  BY <1>4, Zenon DEF Strongest
<1> QED BY <1>1, <1>3, <1>5, <1>6

\* Promoting is asking for the leading evidence again when one more has come.
LEMMA PromoteLeads ==
  ASSUME NEW evidence, NEW s, Leading(evidence, s), NEW c \in Categories
  PROVE  Leading(evidence \o <<c>>, Promote(s, c))
<1>1. PICK i : LeadingAt(evidence, i) /\ s = evidence[i]  BY DEF Leading
<1>2. evidence \in Seq(Categories) /\ s \in Categories  BY DEF Leading
<1>3. PICK n \in Nat : n = Len(evidence) /\ DOMAIN evidence = 1..n  BY <1>2
<1>4. PICK longer : longer = evidence \o <<c>>  OBVIOUS
<1>5. /\ longer \in Seq(Categories) /\ DOMAIN longer = 1..(n + 1)
      /\ \A j \in 1..n : longer[j] = evidence[j]
      /\ longer[n + 1] = c
  BY <1>2, <1>3, <1>4
<1>6. i \in 1..n  BY <1>1, <1>3 DEF LeadingAt
<1>7. \A x : Specificity(x) \in Nat  BY SpecificityRange
<1>8. Promote(s, c) \in Categories  BY <1>2 DEF Promote
<1>9. \A j \in 1..n : Specificity(longer[j]) <= Specificity(s)
  BY <1>1, <1>3, <1>5 DEF LeadingAt
<1>10. CASE Specificity(c) > Specificity(s)
  <2>1. Promote(s, c) = c  BY <1>10 DEF Promote
  <2>2. LeadingAt(longer, n + 1)
    <3>1. \A j \in 1..n : Specificity(longer[j]) < Specificity(longer[n + 1])
      <4>1. ASSUME NEW j \in 1..n PROVE Specificity(longer[j]) < Specificity(longer[n + 1])
        <5>1. Specificity(longer[j]) <= Specificity(s) /\ Specificity(longer[n + 1]) = Specificity(c)
          BY <1>5, <1>9
        <5>2. Specificity(longer[j]) \in Nat /\ Specificity(s) \in Nat /\ Specificity(c) \in Nat  BY <1>7
        <5> QED BY <1>10, <5>1, <5>2
      <4> QED BY <4>1
    <3>2. Specificity(longer[n + 1]) \in Nat  BY <1>7
    <3>3. ASSUME NEW j \in 1..(n + 1) PROVE Specificity(longer[j]) <= Specificity(longer[n + 1])
      <4>1. CASE j = n + 1  BY <3>2, <4>1
      <4>2. CASE j # n + 1
        <5>1. j \in 1..n  BY <4>2
        <5>2. Specificity(longer[j]) \in Nat  BY <1>7
        <5> QED BY <3>1, <3>2, <5>1, <5>2
      <4> QED BY <4>1, <4>2
    <3>4. (n + 1) - 1 = n /\ n + 1 \in 1..(n + 1)  OBVIOUS
    <3> QED BY <1>5, <3>1, <3>3, <3>4 DEF LeadingAt
  <2> QED BY <1>4, <1>5, <1>8, <2>1, <2>2, Zenon DEF Leading
<1>11. CASE ~(Specificity(c) > Specificity(s))
  <2>1. Promote(s, c) = s  BY <1>11 DEF Promote
  <2>2. Specificity(c) <= Specificity(s)
    <3>1. Specificity(s) \in Nat /\ Specificity(c) \in Nat  BY <1>7
    <3> QED BY <1>11, <3>1
  <2>3. longer[i] = s  BY <1>1, <1>5, <1>6
  <2>4. LeadingAt(longer, i)
    <3>1. ASSUME NEW j \in 1..(n + 1) PROVE Specificity(longer[j]) <= Specificity(longer[i])
      <4>1. CASE j = n + 1  BY <1>5, <2>2, <2>3, <4>1
      <4>2. CASE j # n + 1
        <5>1. j \in 1..n  BY <4>2
        <5> QED BY <1>9, <2>3, <5>1
      <4> QED BY <4>1, <4>2
    <3>2. ASSUME NEW j \in 1..(i - 1) PROVE Specificity(longer[j]) < Specificity(longer[i])
      <4>1. j \in 1..n  BY <1>6
      <4>2. Specificity(evidence[j]) < Specificity(evidence[i])  BY <1>1 DEF LeadingAt
      <4> QED BY <1>1, <1>5, <2>3, <4>1, <4>2
    <3>3. i \in 1..(n + 1)  BY <1>6
    <3> QED BY <1>5, <3>1, <3>2, <3>3 DEF LeadingAt
  <2> QED BY <1>4, <1>5, <1>8, <2>1, <2>3, <2>4, Zenon DEF Leading
<1> QED BY <1>10, <1>11, Zenon

\* The same for evidence that may not be there.
LEMMA PromoteIfLeads ==
  ASSUME NEW evidence, NEW s, Leading(evidence, s), NEW condition, NEW c, condition => c \in Categories
  PROVE  Leading(evidence \o (IF condition THEN <<c>> ELSE <<>>), PromoteIf(condition, s, c))
<1>1. CASE condition
  <2>1. Leading(evidence \o <<c>>, Promote(s, c))  BY <1>1, PromoteLeads, Zenon
  <2> QED BY <1>1, <2>1, Zenon DEF PromoteIf
<1>2. CASE ~condition
  <2>1. evidence \o <<>> = evidence  BY DEF Leading
  <2> QED BY <1>2, <2>1, Zenon DEF PromoteIf
<1> QED BY <1>1, <1>2

\* refine() decides by the strongest evidence there is, and by the hint only if
\* that leaves the failure unexplained, for every category and all metadata.
THEOREM EvidenceDecides ==
  ASSUME NEW base \in Categories, NEW metadata \in Metadata
  PROVE  Refine(base, metadata) =
           IF Strongest(Evidence(base, metadata)) = "Unknown" /\ metadata.hint # "absent"
           THEN metadata.hint ELSE Strongest(Evidence(base, metadata))
<1>1. /\ metadata.transport \in MessageCategories \cup {"absent"}
      /\ metadata.hint \in MessageCategories \cup {"absent"}
  BY DEF Metadata
<1>2. "ApplicationFailure" \in Categories /\ "DependencyFailure" \in Categories  BY DEF Categories
<1>3. metadata.transport # "absent" => metadata.transport \in Categories  BY <1>1, SpecificityRange
<1>4. Leading(<<base>>, base)
  <2>1. <<base>> \in Seq(Categories) /\ DOMAIN <<base>> = 1..1 /\ <<base>>[1] = base  OBVIOUS
  <2>2. Specificity(base) \in Nat  BY SpecificityRange
  <2>3. LeadingAt(<<base>>, 1)
    <3>1. ASSUME NEW j \in 1..1 PROVE Specificity(<<base>>[j]) <= Specificity(<<base>>[1])
      <4>1. j = 1  OBVIOUS
      <4> QED BY <2>1, <2>2, <4>1
    <3>2. 1 \in 1..1 /\ \A j \in 1..(1 - 1) : FALSE  OBVIOUS
    <3> QED BY <2>1, <3>1, <3>2, Zenon DEF LeadingAt
  <2> QED BY <2>1, <2>3, Zenon DEF Leading
<1>5. PICK known : known = PromoteIf(metadata.serverError, base, "ApplicationFailure")  OBVIOUS
<1>6. PICK reached : reached = PromoteIf(metadata.transport # "absent", known, metadata.transport)  OBVIOUS
<1>7. PICK present : present = PromoteIf(metadata.missing, reached, "DependencyFailure")  OBVIOUS
<1>8. Leading(<<base>> \o (IF metadata.serverError THEN <<"ApplicationFailure">> ELSE <<>>), known)
  BY <1>2, <1>4, <1>5, PromoteIfLeads, Zenon
<1>9. Leading(<<base>> \o (IF metadata.serverError THEN <<"ApplicationFailure">> ELSE <<>>)
                       \o (IF metadata.transport # "absent" THEN <<metadata.transport>> ELSE <<>>), reached)
  BY <1>3, <1>6, <1>8, PromoteIfLeads, Zenon
<1>10. Leading(Evidence(base, metadata), present)
  BY <1>2, <1>7, <1>9, PromoteIfLeads, Zenon DEF Evidence
<1>11. Strongest(Evidence(base, metadata)) = present  BY <1>10, LeadingIsStrongest, Zenon
<1>12. Refine(base, metadata) = PromoteIf(present = "Unknown" /\ metadata.hint # "absent", present, metadata.hint)
  BY <1>5, <1>6, <1>7, Zenon DEF Refine
<1>13. present = "Unknown" /\ metadata.hint # "absent" => Promote(present, metadata.hint) = metadata.hint
  <2>1. SUFFICES ASSUME present = "Unknown", metadata.hint # "absent", metadata.hint # "Unknown"
                 PROVE  Promote(present, metadata.hint) = metadata.hint
    BY DEF Promote
  <2>2. Specificity(metadata.hint) > 1 /\ Specificity("Unknown") = 1  BY <1>1, <2>1, SpecificityRange
  <2> QED BY <2>1, <2>2 DEF Promote
<1> QED BY <1>11, <1>12, <1>13, Zenon DEF PromoteIf

\* The verdict of a body is a failure exactly if it has a category.
Sound(v) ==
  \E status, category :
    /\ v = Verdict(status, category) /\ category \in Categories
    /\ IsFailure(status) <=> category # "None"
    /\ status = "Timeout" => category = "Timeout"

LEMMA BodySound ==
  ASSUME NEW ending \in Endings, NEW inSetUp PROVE Sound(BodyVerdict(ending, inSetUp))
<1>1. PICK kind, category :
        /\ ending.kind = kind /\ ending.category = category
        /\ \/ kind \in {"returns", "SkipTest", "TestCancelled", "AssertionFailure", "bad_alloc", "other"}
           \/ kind = "forge" /\ category \in ForgeCategories
           \/ kind = "std" /\ category \in MessageCategories
  BY DEF Endings
<1>2. /\ ForgeCategories \subseteq Categories /\ "None" \notin ForgeCategories /\ "Timeout" \notin ForgeCategories
      /\ MessageCategories \subseteq Categories /\ "None" \notin MessageCategories
  BY DEF ForgeCategories, MessageCategories, Categories
<1>3. /\ ~IsFailure("Passed") /\ ~IsFailure("Skipped") /\ IsFailure("Failed") /\ IsFailure("Error")
      /\ IsFailure("Timeout")
  BY DEF IsFailure
<1>4. {"None", "Timeout", "AssertionFailure", "ResourceFailure", "Unknown"} \subseteq Categories  BY DEF Categories
<1>5. PICK v : v = FromException(ending)  OBVIOUS
<1>6. kind # "returns" =>
        \E status, of : /\ v = Verdict(status, of) /\ of \in Categories
                        /\ status \in {"Skipped", "Timeout", "Failed", "Error"}
                        /\ (status = "Skipped" <=> of = "None") /\ (status = "Timeout" => of = "Timeout")
  <2>1. CASE kind = "SkipTest"  BY <1>1, <1>4, <1>5, <2>1 DEF FromException
  <2>2. CASE kind = "TestCancelled"  BY <1>1, <1>4, <1>5, <2>2 DEF FromException
  <2>3. CASE kind = "AssertionFailure"  BY <1>1, <1>4, <1>5, <2>3 DEF FromException
  <2>4. CASE kind = "bad_alloc"  BY <1>1, <1>4, <1>5, <2>4 DEF FromException
  <2>5. CASE kind = "other"  BY <1>1, <1>4, <1>5, <2>5 DEF FromException
  <2>6. CASE kind = "forge" /\ category \in ForgeCategories
    <3>1. v = Verdict("Error", category)  BY <1>1, <1>2, <1>5, <2>6 DEF FromException
    <3> QED BY <1>2, <2>6, <3>1
  <2>7. CASE kind = "std" /\ category \in MessageCategories
    <3>1. v = Verdict("Error", category)  BY <1>1, <1>5, <2>7 DEF FromException
    <3> QED BY <1>2, <2>7, <3>1
  <2> QED BY <1>1, <2>1, <2>2, <2>3, <2>4, <2>5, <2>6, <2>7
<1>7. CASE kind = "returns"
  <2>1. BodyVerdict(ending, inSetUp) = Verdict("Passed", "None")  BY <1>1, <1>7, Zenon DEF BodyVerdict
  <2>2. "Passed" # "Timeout"  OBVIOUS
  <2> QED BY <1>3, <1>4, <2>1, <2>2 DEF Sound
<1>8. CASE kind # "returns"
  <2>1. PICK status, of : /\ v = Verdict(status, of) /\ of \in Categories
                          /\ status \in {"Skipped", "Timeout", "Failed", "Error"}
                          /\ (status = "Skipped" <=> of = "None") /\ (status = "Timeout" => of = "Timeout")
    BY <1>6, <1>8
  <2>2. PICK w : w = BodyVerdict(ending, inSetUp)  OBVIOUS
  <2>3. w = v \/ (v.status = "Failed" /\ w = [v EXCEPT !.status = "Error"])
    BY <1>1, <1>5, <1>8, <2>2, Zenon DEF BodyVerdict
  <2>4. w = v \/ (status = "Failed" /\ w = Verdict("Error", of))
    BY <2>1, <2>3 DEF Verdict
  <2>5. CASE w = v
    <3>1. IsFailure(status) <=> of # "None"  BY <1>3, <2>1
    <3> QED BY <2>1, <2>2, <2>5, <3>1, Zenon DEF Sound
  <2>6. CASE status = "Failed" /\ w = Verdict("Error", of)
    <3>1. (IsFailure("Error") <=> of # "None") /\ "Error" # "Timeout"  BY <1>3, <2>1, <2>6
    <3> QED BY <2>1, <2>2, <2>6, <3>1, Zenon DEF Sound
  <2> QED BY <2>4, <2>5, <2>6
<1> QED BY <1>7, <1>8

\* Promotion keeps a category and never takes a timeout away.
LEMMA PromoteKeeps ==
  ASSUME NEW from \in Categories, NEW c, NEW condition, condition => c \in Categories
  PROVE  /\ PromoteIf(condition, from, c) \in Categories
         /\ from # "None" => PromoteIf(condition, from, c) # "None"
         /\ from = "Timeout" => PromoteIf(condition, from, c) = "Timeout"
<1>1. CASE ~condition  BY <1>1, Zenon DEF PromoteIf
<1>2. CASE condition
  <2>1. PromoteIf(condition, from, c) = Promote(from, c)  BY <1>2, Zenon DEF PromoteIf
  <2>2. Specificity(c) \in 0..4 /\ Specificity(from) \in 0..4  BY SpecificityRange
  <2>3. Promote(from, c) \in Categories  BY <1>2 DEF Promote
  <2>4. from # "None" => Promote(from, c) # "None"
    <3>1. from # "None" => Specificity(from) # 0  BY SpecificityRange
    <3>2. c = "None" => Specificity(c) = 0  BY SpecificityRange
    <3> QED BY <2>2, <3>1, <3>2 DEF Promote
  <2>5. from = "Timeout" => Promote(from, c) = "Timeout"
    <3>1. from = "Timeout" => Specificity(from) = 4  BY SpecificityRange
    <3> QED BY <2>2, <3>1 DEF Promote
  <2> QED BY <2>1, <2>3, <2>4, <2>5, Zenon
<1> QED BY <1>1, <1>2

LEMMA RefineKeeps ==
  ASSUME NEW base \in Categories, NEW metadata \in Metadata
  PROVE  /\ base # "None" => Refine(base, metadata) # "None"
         /\ base = "Timeout" => Refine(base, metadata) = "Timeout"
<1>1. /\ metadata.transport \in MessageCategories \cup {"absent"}
      /\ metadata.hint \in MessageCategories \cup {"absent"}
  BY DEF Metadata
<1>2. "ApplicationFailure" \in Categories /\ "DependencyFailure" \in Categories  BY DEF Categories
<1>3. metadata.transport # "absent" => metadata.transport \in Categories  BY <1>1, SpecificityRange
<1>4. metadata.hint # "absent" => metadata.hint \in Categories  BY <1>1, SpecificityRange
<1>5. PICK known : known = PromoteIf(metadata.serverError, base, "ApplicationFailure")  OBVIOUS
<1>6. PICK reached : reached = PromoteIf(metadata.transport # "absent", known, metadata.transport)  OBVIOUS
<1>7. PICK present : present = PromoteIf(metadata.missing, reached, "DependencyFailure")  OBVIOUS
<1>8. known \in Categories /\ (base # "None" => known # "None") /\ (base = "Timeout" => known = "Timeout")
  BY <1>2, <1>5, PromoteKeeps, Zenon
<1>9. reached \in Categories /\ (known # "None" => reached # "None") /\ (known = "Timeout" => reached = "Timeout")
  BY <1>3, <1>6, <1>8, PromoteKeeps, Zenon
<1>10. /\ present \in Categories /\ (reached # "None" => present # "None")
       /\ (reached = "Timeout" => present = "Timeout")
  BY <1>2, <1>7, <1>9, PromoteKeeps, Zenon
<1>11. PICK refined, open : /\ open = (present = "Unknown" /\ metadata.hint # "absent")
                            /\ refined = PromoteIf(open, present, metadata.hint)
  OBVIOUS
<1>12. refined \in Categories /\ (present # "None" => refined # "None") /\ (present = "Timeout" => refined = "Timeout")
  BY <1>4, <1>10, <1>11, PromoteKeeps, Zenon
<1>13. Refine(base, metadata) = refined  BY <1>5, <1>6, <1>7, <1>11, Zenon DEF Refine
<1> QED BY <1>8, <1>9, <1>10, <1>12, <1>13, Zenon

\* What StrongestEvidenceWins says of a verdict.
Decided(body, metadata, deadline, cancelled) ==
  LET judged == Judge(body, metadata, deadline, cancelled)
      found == Strongest(Evidence(Override(body, deadline, cancelled).category, metadata))
  IN /\ IsFailure(judged.status) <=> judged.category # "None"
     /\ judged.status = "Timeout" => judged.category = "Timeout"
     /\ IsFailure(judged.status) =>
          judged.category = IF found = "Unknown" /\ metadata.hint # "absent" THEN metadata.hint ELSE found

LEMMA JudgeDecides ==
  ASSUME NEW body, Sound(body), NEW metadata \in Metadata, NEW deadline, NEW cancelled
  PROVE  Decided(body, metadata, deadline, cancelled)
<1>1. PICK o : o = Override(body, deadline, cancelled)  OBVIOUS
<1>2. Sound(o)
  <2>1. Sound(Verdict("Timeout", "Timeout")) /\ Sound(Verdict("Skipped", "None"))
    <3>1. "Timeout" \in Categories /\ "None" \in Categories /\ IsFailure("Timeout") /\ ~IsFailure("Skipped")
      BY DEF Categories, IsFailure
    <3>2. "Timeout" # "None" /\ "Skipped" # "Timeout"  OBVIOUS
    <3> QED BY <3>1, <3>2, Zenon DEF Sound
  <2> QED BY <1>1, <2>1, Zenon DEF Override
<1>3. PICK status, category : /\ o = Verdict(status, category) /\ category \in Categories
                              /\ IsFailure(status) <=> category # "None"
                              /\ status = "Timeout" => category = "Timeout"
  BY <1>2 DEF Sound
<1>4. o.status = status /\ o.category = category  BY <1>3 DEF Verdict
<1>5. PICK judged : judged = Judge(body, metadata, deadline, cancelled)  OBVIOUS
<1>6. judged = IF IsFailure(o.status) THEN [o EXCEPT !.category = Refine(o.category, metadata)] ELSE o
  BY <1>1, <1>5, Zenon DEF Judge
<1>7. CASE ~IsFailure(status)
  <2>1. judged = o  BY <1>4, <1>6, <1>7, Zenon
  <2> QED BY <1>3, <1>4, <1>5, <1>7, <2>1, Zenon DEF Decided
<1>8. CASE IsFailure(status)
  <2>1. PICK refined : refined = Refine(category, metadata)  OBVIOUS
  <2>2. judged = [o EXCEPT !.category = refined]  BY <1>4, <1>6, <1>8, <2>1, Zenon
  <2>3. judged.status = status /\ judged.category = refined  BY <1>3, <2>2 DEF Verdict
  <2>4. category # "None"  BY <1>3, <1>8
  <2>5. refined # "None" /\ (status = "Timeout" => refined = "Timeout")
    BY <1>3, <2>1, <2>4, RefineKeeps, Zenon
  <2>6. refined = IF Strongest(Evidence(category, metadata)) = "Unknown" /\ metadata.hint # "absent"
                  THEN metadata.hint ELSE Strongest(Evidence(category, metadata))
    BY <1>3, <2>1, EvidenceDecides, Zenon
  <2> QED BY <1>1, <1>4, <1>5, <1>8, <2>3, <2>5, <2>6, Zenon DEF Decided
<1> QED BY <1>7, <1>8

\* Every verdict of the items is decided by its strongest evidence.
THEOREM AlwaysStrongest == DecisionsSpec => []StrongestEvidenceWins
<1>1. IsItem => StrongestEvidenceWins
  <2> SUFFICES ASSUME IsItem, Is("verdict")
               PROVE  Decided(BodyVerdict(item.ending, item.inSetUp), item.metadata, item.deadline, item.cancelled)
    BY Zenon DEF StrongestEvidenceWins, Decided
  <2>1. VerdictItem  BY ItemOf
  <2>2. item.ending \in Endings /\ item.metadata \in Metadata
    <3>1. PICK ending \in Endings, inSetUp \in BOOLEAN, metadata \in Metadata,
                why \in {"neither", "deadline", "cancelled"} :
            /\ inSetUp => ending.kind # "returns"
            /\ item = [topic |-> "verdict", ending |-> ending, inSetUp |-> inSetUp, metadata |-> metadata,
                       deadline |-> why = "deadline", cancelled |-> why = "cancelled"]
      BY <2>1, Zenon DEF VerdictItem
    <3>2. PICK a, b, c : a = inSetUp /\ b = (why = "deadline") /\ c = (why = "cancelled")  OBVIOUS
    <3>3. item = [topic |-> "verdict", ending |-> ending, inSetUp |-> a, metadata |-> metadata,
                  deadline |-> b, cancelled |-> c]
      BY <3>1, <3>2, Zenon
    <3>4. item.ending = ending /\ item.metadata = metadata  BY <3>3
    <3> QED BY <3>4, Zenon
  <2>3. Sound(BodyVerdict(item.ending, item.inSetUp))  BY <2>2, BodySound, Zenon
  <2> QED BY <2>2, <2>3, JudgeDecides, Zenon
<1> QED BY <1>1, AlwaysItem, PTL

-----------------------------------------------------------------------------
(* Soft-assertion scopes.                                                  *)

\* Scopes as they come about: what was not verified was not thrown.
ScopeSet == {s \in [failures : Int, verified : BOOLEAN, thrown : Int] : ~s.verified => s.thrown = 0}

Waiting(scope) == scope.failures - scope.thrown

LEMMA ScopeParts ==
  ASSUME NEW s \in ScopeSet
  PROVE  /\ s.failures \in Int /\ s.thrown \in Int /\ Waiting(s) \in Int
         /\ ~s.verified => s.thrown = 0
         /\ \E f, v, th : s = [failures |-> f, verified |-> v, thrown |-> th]
BY DEF ScopeSet, Waiting

LEMMA MadeScope ==
  ASSUME NEW f \in Int, NEW v \in BOOLEAN, NEW th \in Int, ~v => th = 0
  PROVE  /\ [failures |-> f, verified |-> v, thrown |-> th] \in ScopeSet
         /\ Waiting([failures |-> f, verified |-> v, thrown |-> th]) = f - th
<1>1. [failures |-> f, verified |-> v, thrown |-> th].verified = v  BY Zenon
<1>2. [failures |-> f, verified |-> v, thrown |-> th].thrown = th  BY Zenon
<1>3. [failures |-> f, verified |-> v, thrown |-> th].failures = f  BY Zenon
<1>4. [failures |-> f, verified |-> v, thrown |-> th] \in [failures : Int, verified : BOOLEAN, thrown : Int]  BY Zenon
<1>5. [failures |-> f, verified |-> v, thrown |-> th] \in ScopeSet
  BY <1>1, <1>2, <1>4, Zenon DEF ScopeSet
<1>6. Waiting([failures |-> f, verified |-> v, thrown |-> th]) = f - th
  BY <1>2, <1>3, Zenon DEF Waiting
<1> QED BY <1>5, <1>6

\* What is done to a scope.
LEMMA ScopeSteps ==
  /\ NewScope \in ScopeSet /\ Waiting(NewScope) = 0
  /\ \A s \in ScopeSet :
       /\ [s EXCEPT !.failures = @ + 1] \in ScopeSet
       /\ Waiting([s EXCEPT !.failures = @ + 1]) = Waiting(s) + 1
       /\ [s EXCEPT !.verified = TRUE] \in ScopeSet
       /\ Waiting([s EXCEPT !.verified = TRUE]) = Waiting(s)
       /\ [[s EXCEPT !.verified = TRUE] EXCEPT !.thrown = s.failures] \in ScopeSet
       /\ Waiting([[s EXCEPT !.verified = TRUE] EXCEPT !.thrown = s.failures]) = 0
<1>1. NewScope \in ScopeSet /\ Waiting(NewScope) = 0
  <2>1. /\ [failures |-> 0, verified |-> FALSE, thrown |-> 0] \in ScopeSet
        /\ Waiting([failures |-> 0, verified |-> FALSE, thrown |-> 0]) = 0 - 0
    <3>1. 0 \in Int  OBVIOUS
    <3> QED BY <3>1, MadeScope, Zenon
  <2>2. 0 - 0 = 0  OBVIOUS
  <2> QED BY <2>1, <2>2, Zenon DEF NewScope
<1>2. ASSUME NEW s \in ScopeSet
      PROVE  /\ [s EXCEPT !.failures = @ + 1] \in ScopeSet
             /\ Waiting([s EXCEPT !.failures = @ + 1]) = Waiting(s) + 1
             /\ [s EXCEPT !.verified = TRUE] \in ScopeSet
             /\ Waiting([s EXCEPT !.verified = TRUE]) = Waiting(s)
             /\ [[s EXCEPT !.verified = TRUE] EXCEPT !.thrown = s.failures] \in ScopeSet
             /\ Waiting([[s EXCEPT !.verified = TRUE] EXCEPT !.thrown = s.failures]) = 0
  <2>1. PICK f, v, th : s = [failures |-> f, verified |-> v, thrown |-> th]  BY ScopeParts
  <2>2. s.failures = f /\ s.thrown = th /\ s.verified = v  BY <2>1, Zenon
  <2>3. f \in Int /\ th \in Int /\ (~v => th = 0)  BY <2>2, ScopeParts
  <2>4. v \in BOOLEAN  BY <2>2, Zenon DEF ScopeSet
  <2>5. Waiting(s) = f - th  BY <2>2, Zenon DEF Waiting
  <2>6. PICK yes : yes = TRUE  OBVIOUS
  <2>7. yes \in BOOLEAN  BY <2>6, Zenon
  <2>8. [s EXCEPT !.failures = @ + 1] = [failures |-> f + 1, verified |-> v, thrown |-> th]  BY <2>1
  <2>9. [s EXCEPT !.verified = yes] = [failures |-> f, verified |-> yes, thrown |-> th]  BY <2>1
  <2>10. [[s EXCEPT !.verified = yes] EXCEPT !.thrown = f] = [failures |-> f, verified |-> yes, thrown |-> f]
    <3>1. PICK mid : mid = [failures |-> f, verified |-> yes, thrown |-> th]  OBVIOUS
    <3>2. [mid EXCEPT !.thrown = f] = [failures |-> f, verified |-> yes, thrown |-> f]  BY <3>1
    <3> QED BY <2>9, <3>1, <3>2, Zenon
  <2>11. f + 1 \in Int /\ (f + 1) - th = (f - th) + 1 /\ f - f = 0  BY <2>3
  <2>12. /\ [failures |-> f + 1, verified |-> v, thrown |-> th] \in ScopeSet
         /\ Waiting([failures |-> f + 1, verified |-> v, thrown |-> th]) = (f + 1) - th
    BY <2>3, <2>4, <2>11, MadeScope, Zenon
  <2>13. /\ [failures |-> f, verified |-> yes, thrown |-> th] \in ScopeSet
         /\ Waiting([failures |-> f, verified |-> yes, thrown |-> th]) = f - th
    BY <2>3, <2>6, <2>7, MadeScope, Zenon
  <2>14. /\ [failures |-> f, verified |-> yes, thrown |-> f] \in ScopeSet
         /\ Waiting([failures |-> f, verified |-> yes, thrown |-> f]) = f - f
    BY <2>3, <2>6, <2>7, MadeScope, Zenon
  <2>15. [s EXCEPT !.verified = TRUE] = [failures |-> f, verified |-> yes, thrown |-> th]  BY <2>6, <2>9, Zenon
  <2>16. [[s EXCEPT !.verified = TRUE] EXCEPT !.thrown = s.failures] = [failures |-> f, verified |-> yes, thrown |-> f]
    BY <2>2, <2>6, <2>10, Zenon
  <2>17. Waiting([s EXCEPT !.failures = @ + 1]) = Waiting(s) + 1  BY <2>5, <2>8, <2>11, <2>12, Zenon
  <2>18. [s EXCEPT !.failures = @ + 1] \in ScopeSet  BY <2>8, <2>12, Zenon
  <2>19. [s EXCEPT !.verified = TRUE] \in ScopeSet /\ Waiting([s EXCEPT !.verified = TRUE]) = Waiting(s)
    BY <2>5, <2>13, <2>15, Zenon
  <2>20. /\ [[s EXCEPT !.verified = TRUE] EXCEPT !.thrown = s.failures] \in ScopeSet
         /\ Waiting([[s EXCEPT !.verified = TRUE] EXCEPT !.thrown = s.failures]) = 0
    BY <2>11, <2>14, <2>16, Zenon
  <2> QED BY <2>17, <2>18, <2>19, <2>20, Zenon
<1> QED BY <1>1, <1>2, Zenon

\* h adds up what the scopes hold, v is what they hold together.
Adds(h, scopes) ==
  /\ h \in [0..Len(scopes) -> Int] /\ h[0] = 0
  /\ \A n \in 1..Len(scopes) : h[n] = h[n - 1] + Waiting(scopes[n])
Holds(scopes, v) == scopes \in Seq(ScopeSet) /\ \E h : Adds(h, scopes) /\ v = h[Len(scopes)]

LEMMA HoldsNothing == Holds(<<>>, 0)
<1>1. PICK h : h = [n \in 0..0 |-> 0]  OBVIOUS
<1>2. Adds(h, <<>>)  BY <1>1 DEF Adds
<1>3. h[Len(<<>>)] = 0 /\ <<>> \in Seq(ScopeSet)  BY <1>1
<1> QED BY <1>2, <1>3 DEF Holds

LEMMA HoldsInt == ASSUME NEW scopes, NEW v, Holds(scopes, v) PROVE v \in Int
BY DEF Holds, Adds

LEMMA HoldsMore ==
  ASSUME NEW scopes, NEW v, Holds(scopes, v), NEW s \in ScopeSet
  PROVE  Holds(Append(scopes, s), v + Waiting(s))
<1>1. PICK h : Adds(h, scopes) /\ v = h[Len(scopes)] /\ scopes \in Seq(ScopeSet)  BY DEF Holds
<1>2. PICK n \in Nat : n = Len(scopes)  BY <1>1
<1>3. PICK more : more = Append(scopes, s)  OBVIOUS
<1>4. /\ more \in Seq(ScopeSet) /\ Len(more) = n + 1 /\ more[n + 1] = s
      /\ \A i \in 1..n : more[i] = scopes[i]
  BY <1>1, <1>2, <1>3, AppendProperties
<1>5. Waiting(s) \in Int  BY ScopeParts
<1>6. PICK g : g = [i \in 0..(n + 1) |-> IF i <= n THEN h[i] ELSE h[n] + Waiting(s)]  OBVIOUS
<1>7. h \in [0..n -> Int] /\ h[0] = 0 /\ \A i \in 1..n : h[i] = h[i - 1] + Waiting(scopes[i])
  BY <1>1, <1>2 DEF Adds
<1>8. g \in [0..(n + 1) -> Int]  BY <1>5, <1>6, <1>7
<1>9. g[0] = 0 /\ g[n + 1] = h[n] + Waiting(s)  BY <1>6, <1>7
<1>10. ASSUME NEW i \in 1..(n + 1) PROVE g[i] = g[i - 1] + Waiting(more[i])
  <2>1. CASE i = n + 1
    <3>1. g[i - 1] = h[n]  BY <1>6, <2>1
    <3> QED BY <1>4, <1>9, <2>1, <3>1
  <2>2. CASE i # n + 1
    <3>1. i \in 1..n /\ i - 1 \in 0..n  BY <2>2
    <3>2. g[i] = h[i] /\ g[i - 1] = h[i - 1]  BY <1>6, <3>1
    <3> QED BY <1>4, <1>7, <3>1, <3>2
  <2> QED BY <2>1, <2>2
<1>11. Adds(g, more)  BY <1>4, <1>8, <1>9, <1>10 DEF Adds
<1>12. v + Waiting(s) = g[Len(more)]  BY <1>1, <1>2, <1>4, <1>9
<1> QED BY <1>3, <1>4, <1>11, <1>12, Zenon DEF Holds

LEMMA HoldsLess ==
  ASSUME NEW scopes, NEW v, Holds(scopes, v), scopes # <<>>
  PROVE  /\ Holds(Front(scopes), v - Waiting(Last(scopes)))
         /\ Last(scopes) \in ScopeSet /\ Len(Front(scopes)) = Len(scopes) - 1
<1>1. PICK h : Adds(h, scopes) /\ v = h[Len(scopes)] /\ scopes \in Seq(ScopeSet)  BY DEF Holds
<1>2. PICK n \in Nat : n = Len(scopes)  BY <1>1
<1>3. n > 0  BY <1>1, <1>2
<1>4. PICK less : less = Front(scopes)  OBVIOUS
<1>5. /\ less \in Seq(ScopeSet) /\ Len(less) = n - 1
      /\ \A i \in 1..(n - 1) : less[i] = scopes[i]
  BY <1>1, <1>2, <1>3, <1>4 DEF Front
<1>6. Last(scopes) = scopes[n] /\ scopes[n] \in ScopeSet  BY <1>1, <1>2, <1>3 DEF Last
<1>7. Waiting(scopes[n]) \in Int  BY <1>6, ScopeParts
<1>8. PICK g : g = [i \in 0..(n - 1) |-> h[i]]  OBVIOUS
<1>9. h \in [0..n -> Int] /\ h[0] = 0 /\ \A i \in 1..n : h[i] = h[i - 1] + Waiting(scopes[i])
  BY <1>1, <1>2 DEF Adds
<1>10. g \in [0..(n - 1) -> Int] /\ g[0] = 0 /\ g[n - 1] = h[n - 1]  BY <1>3, <1>8, <1>9
<1>11. ASSUME NEW i \in 1..(n - 1) PROVE g[i] = g[i - 1] + Waiting(less[i])
  <2>1. g[i] = h[i] /\ g[i - 1] = h[i - 1]  BY <1>8
  <2> QED BY <1>5, <1>9, <2>1
<1>12. Adds(g, less)  BY <1>5, <1>10, <1>11 DEF Adds
<1>13. v - Waiting(scopes[n]) = g[Len(less)]
  <2>1. h[n] = h[n - 1] + Waiting(scopes[n]) /\ h[n - 1] \in Int  BY <1>3, <1>9
  <2> QED BY <1>1, <1>2, <1>5, <1>7, <1>10, <2>1
<1>14. Holds(less, v - Waiting(scopes[n]))  BY <1>5, <1>12, <1>13, Zenon DEF Holds
<1> QED BY <1>2, <1>4, <1>5, <1>6, <1>14

LEMMA HoldsChanged ==
  ASSUME NEW scopes, NEW v, Holds(scopes, v), NEW p \in DOMAIN scopes, NEW s \in ScopeSet
  PROVE  Holds([scopes EXCEPT ![p] = s], v - Waiting(scopes[p]) + Waiting(s))
<1>1. PICK h : Adds(h, scopes) /\ v = h[Len(scopes)] /\ scopes \in Seq(ScopeSet)  BY DEF Holds
<1>2. PICK n \in Nat : n = Len(scopes)  BY <1>1
<1>3. p \in 1..n /\ scopes[p] \in ScopeSet  BY <1>1, <1>2
<1>4. PICK now : now = [scopes EXCEPT ![p] = s]  OBVIOUS
<1>5. /\ now \in Seq(ScopeSet) /\ Len(now) = n /\ now[p] = s
      /\ \A i \in 1..n : i # p => now[i] = scopes[i]
  BY <1>1, <1>2, <1>3, <1>4
<1>6. PICK d \in Int : d = Waiting(s) - Waiting(scopes[p])
  <2>1. Waiting(s) \in Int /\ Waiting(scopes[p]) \in Int  BY <1>3, ScopeParts
  <2> QED BY <2>1
<1>7. Waiting(s) \in Int /\ Waiting(scopes[p]) \in Int  BY <1>3, ScopeParts
<1>8. PICK g : g = [i \in 0..n |-> IF i < p THEN h[i] ELSE h[i] + d]  OBVIOUS
<1>9. h \in [0..n -> Int] /\ h[0] = 0 /\ \A i \in 1..n : h[i] = h[i - 1] + Waiting(scopes[i])
  BY <1>1, <1>2 DEF Adds
<1>10. g \in [0..n -> Int] /\ g[0] = 0 /\ g[n] = h[n] + d  BY <1>3, <1>6, <1>8, <1>9
<1>11. ASSUME NEW i \in 1..n PROVE g[i] = g[i - 1] + Waiting(now[i])
  <2>1. Waiting(scopes[i]) \in Int
    <3>1. scopes[i] \in ScopeSet  BY <1>1, <1>2
    <3> QED BY <3>1, ScopeParts
  <2>2. h[i] = h[i - 1] + Waiting(scopes[i]) /\ h[i - 1] \in Int  BY <1>9
  <2>3. CASE i < p
    <3>1. g[i] = h[i] /\ g[i - 1] = h[i - 1]  BY <1>3, <1>8, <2>3
    <3> QED BY <1>3, <1>5, <2>2, <2>3, <3>1
  <2>4. CASE i = p
    <3>1. g[i] = h[i] + d /\ g[i - 1] = h[i - 1]  BY <1>3, <1>8, <2>4
    <3> QED BY <1>5, <1>6, <1>7, <2>2, <2>4, <3>1
  <2>5. CASE i > p
    <3>1. g[i] = h[i] + d /\ g[i - 1] = h[i - 1] + d  BY <1>3, <1>8, <2>5
    <3>2. now[i] = scopes[i]  BY <1>3, <1>5, <2>5
    <3> QED BY <1>6, <2>1, <2>2, <3>1, <3>2
  <2> QED BY <1>3, <2>3, <2>4, <2>5
<1>12. Adds(g, now)  BY <1>5, <1>10, <1>11 DEF Adds
<1>13. v - Waiting(scopes[p]) + Waiting(s) = g[Len(now)]
  <2>1. h[n] \in Int  BY <1>9
  <2> QED BY <1>1, <1>2, <1>5, <1>6, <1>7, <1>10, <2>1
<1> QED BY <1>4, <1>5, <1>12, <1>13, Zenon DEF Holds

\* Held() is that sum.
LEMMA HeldIs ==
  ASSUME NEW thread, NEW v, Holds(thread.scopes, v) PROVE Held(thread) = v
<1>1. PICK scopes : scopes = thread.scopes  OBVIOUS
<1>2. PICK h : Adds(h, scopes) /\ v = h[Len(scopes)] /\ scopes \in Seq(ScopeSet)  BY <1>1 DEF Holds
<1>3. PICK n \in Nat : n = Len(scopes)  BY <1>2
<1>4. h \in [0..n -> Int] /\ h[0] = 0 /\ \A i \in 1..n : h[i] = h[i - 1] + Waiting(scopes[i])
  BY <1>2, <1>3 DEF Adds
<1>5. \A i \in 1..n : h[i - 1] + Waiting(scopes[i]) = h[i - 1] + scopes[i].failures - scopes[i].thrown
  <2> SUFFICES ASSUME NEW i \in 1..n
               PROVE  h[i - 1] + Waiting(scopes[i]) = h[i - 1] + scopes[i].failures - scopes[i].thrown
    OBVIOUS
  <2>1. scopes[i] \in ScopeSet /\ h[i - 1] \in Int  BY <1>2, <1>3, <1>4
  <2>2. scopes[i].failures \in Int /\ scopes[i].thrown \in Int  BY <2>1, ScopeParts
  <2> QED BY <2>1, <2>2 DEF Waiting
<1> DEFINE Sum(g) == g = [i \in 0..Len(thread.scopes) |->
                            IF i = 0 THEN 0 ELSE g[i - 1] + thread.scopes[i].failures - thread.scopes[i].thrown]
           upTo == CHOOSE g : Sum(g)
<1>6. Sum(h)
  <2>1. h = [i \in 0..n |-> IF i = 0 THEN 0 ELSE h[i - 1] + scopes[i].failures - scopes[i].thrown]
    <3>1. \A i \in 0..n : h[i] = IF i = 0 THEN 0 ELSE h[i - 1] + scopes[i].failures - scopes[i].thrown
      <4> SUFFICES ASSUME NEW i \in 0..n, i # 0
                   PROVE  h[i] = h[i - 1] + scopes[i].failures - scopes[i].thrown
        BY <1>4
      <4>1. i \in 1..n  OBVIOUS
      <4> QED BY <1>4, <1>5, <4>1
    <3>2. h = [i \in 0..n |-> h[i]]  BY <1>4
    <3> QED BY <3>1, <3>2, Zenon
  <2> QED BY <1>1, <1>3, <2>1
<1>7. Sum(upTo)  BY <1>6, Zenon
<1>8. Held(thread) = upTo[n]  BY <1>1, <1>3 DEF Held
<1> HIDE DEF upTo
<1>9. \A i \in 0..n : upTo[i] = IF i = 0 THEN 0 ELSE upTo[i - 1] + scopes[i].failures - scopes[i].thrown
  BY <1>1, <1>3, <1>7
<1> HIDE DEF Sum
<1> DEFINE D == {i \in Nat : i <= n => upTo[i] = h[i]}
<1>10. 0 \in D  BY <1>4, <1>9
<1>11. ASSUME NEW i \in Nat, i \in D PROVE i + 1 \in D
  <2> SUFFICES ASSUME i + 1 <= n PROVE upTo[i + 1] = h[i + 1]  OBVIOUS
  <2>1. upTo[i] = h[i]  BY <1>11
  <2>2. i + 1 \in 1..n /\ i + 1 \in 0..n /\ i + 1 # 0 /\ (i + 1) - 1 = i  OBVIOUS
  <2>3. upTo[i + 1] = upTo[i] + scopes[i + 1].failures - scopes[i + 1].thrown  BY <1>9, <2>2
  <2>4. h[i + 1] = h[i] + scopes[i + 1].failures - scopes[i + 1].thrown  BY <1>4, <1>5, <2>2
  <2> QED BY <2>1, <2>3, <2>4
<1> HIDE DEF D
<1>12. n \in D  BY <1>10, <1>11, SetInduction
<1>13. upTo[n] = h[n]  BY <1>12 DEF D
<1> QED BY <1>2, <1>3, <1>8, <1>13

\* The stack of n scopes: innermost last, each once.
Stacked(active, n) ==
  /\ active \in Seq(1..n)
  /\ \A i, j \in DOMAIN active : i < j => active[i] < active[j]

Popped(active, place) == IF active # <<>> /\ Last(active) = place THEN Front(active) ELSE active

LEMMA StackSteps ==
  ASSUME NEW n \in Nat, NEW active, Stacked(active, n)
  PROVE  /\ Stacked(Append(active, n + 1), n + 1)
         /\ \A place : Stacked(Popped(active, place), n)
         /\ n > 0 => Stacked(Popped(active, n), n - 1)
         /\ active # <<>> => Last(active) \in 1..n
<1>1. active \in Seq(1..n)  BY DEF Stacked
<1>2. PICK m \in Nat : m = Len(active) /\ DOMAIN active = 1..m  BY <1>1
<1>3. \A i, j \in 1..m : i < j => active[i] < active[j]  BY <1>2 DEF Stacked
<1>4. \A i \in 1..m : active[i] \in 1..n  BY <1>1, <1>2
<1>5. Stacked(Append(active, n + 1), n + 1)
  <2>1. PICK more : more = Append(active, n + 1)  OBVIOUS
  <2>2. active \in Seq(1..(n + 1))
    <3>1. 1..n \subseteq 1..(n + 1)  OBVIOUS
    <3> QED BY <1>1, <3>1, SeqMonotonic
  <2>3. /\ more \in Seq(1..(n + 1)) /\ Len(more) = m + 1 /\ more[m + 1] = n + 1
        /\ \A i \in 1..m : more[i] = active[i]
    BY <1>2, <2>1, <2>2, AppendProperties
  <2>4. ASSUME NEW i \in 1..(m + 1), NEW j \in 1..(m + 1), i < j PROVE more[i] < more[j]
    <3>1. i \in 1..m /\ more[i] = active[i] /\ active[i] \in 1..n  BY <1>4, <2>3, <2>4
    <3>2. CASE j = m + 1  BY <2>3, <3>1, <3>2
    <3>3. CASE j # m + 1  BY <1>3, <2>3, <2>4, <3>1, <3>3
    <3> QED BY <3>2, <3>3
  <2>5. DOMAIN more = 1..(m + 1)  BY <2>3
  <2> QED BY <2>1, <2>3, <2>4, <2>5 DEF Stacked
<1>6. ASSUME active # <<>>
      PROVE  /\ m > 0 /\ Last(active) = active[m] /\ active[m] \in 1..n
             /\ Front(active) \in Seq(1..n) /\ DOMAIN Front(active) = 1..(m - 1)
             /\ \A i \in 1..(m - 1) : Front(active)[i] = active[i]
             /\ Stacked(Front(active), n)
  <2>1. m > 0  BY <1>1, <1>2, <1>6
  <2>2. Last(active) = active[m] /\ active[m] \in 1..n  BY <1>2, <1>4, <2>1 DEF Last
  <2>3. PICK less : less = Front(active)  OBVIOUS
  <2>4. less \in Seq(1..n) /\ Len(less) = m - 1 /\ \A i \in 1..(m - 1) : less[i] = active[i]
    BY <1>1, <1>2, <2>1, <2>3 DEF Front
  <2>5. DOMAIN less = 1..(m - 1)  BY <2>1, <2>4
  <2>6. ASSUME NEW i \in 1..(m - 1), NEW j \in 1..(m - 1), i < j PROVE less[i] < less[j]
    BY <1>3, <2>4, <2>6
  <2>7. Stacked(less, n)  BY <2>4, <2>5, <2>6 DEF Stacked
  <2> QED BY <2>1, <2>2, <2>3, <2>4, <2>5, <2>7
<1>7. \A place : Stacked(Popped(active, place), n)  BY <1>6, Zenon DEF Popped
<1>8. ASSUME n > 0 PROVE Stacked(Popped(active, n), n - 1)
  <2>1. PICK now : now = Popped(active, n)  OBVIOUS
  <2>2. Stacked(now, n)  BY <1>7, <2>1, Zenon
  <2>3. now \in Seq(1..n)  BY <2>2 DEF Stacked
  <2>4. PICK k \in Nat : k = Len(now) /\ DOMAIN now = 1..k  BY <2>3
  <2>5. ASSUME NEW i \in 1..k PROVE now[i] \in 1..(n - 1)
    <3>1. now[i] \in 1..n  BY <2>3, <2>4
    <3>2. CASE active # <<>> /\ Last(active) = n
      <4>1. now = Front(active)  BY <2>1, <3>2, Zenon DEF Popped
      <4>2. active[m] = n /\ m > 0 /\ i \in 1..(m - 1) /\ now[i] = active[i]
        BY <1>6, <2>4, <3>2, <4>1
      <4>3. active[i] < active[m]  BY <1>3, <4>2
      <4> QED BY <3>1, <4>2, <4>3
    <3>3. CASE active # <<>> /\ Last(active) # n
      <4>1. now = active  BY <2>1, <3>3, Zenon DEF Popped
      <4>2. active[m] # n /\ m > 0 /\ active[m] \in 1..n /\ k = m  BY <1>2, <1>6, <2>4, <3>3, <4>1
      <4>3. CASE i = m  BY <4>1, <4>2, <4>3
      <4>4. CASE i # m
        <5>1. active[i] < active[m] /\ active[i] \in 1..n  BY <1>3, <1>4, <4>2, <4>4
        <5> QED BY <4>1, <4>2, <5>1
      <4> QED BY <4>3, <4>4
    <3>4. CASE active = <<>>
      <4>1. now = <<>>  BY <2>1, <3>4, Zenon DEF Popped
      <4> QED BY <2>4, <4>1
    <3> QED BY <3>2, <3>3, <3>4
  <2>6. now \in Seq(1..(n - 1))
    <3>1. now = [i \in 1..k |-> now[i]]  BY <2>3, <2>4
    <3>2. PICK S : S = 1..(n - 1)  OBVIOUS
    <3>3. \A i \in 1..k : now[i] \in S  BY <2>5, <3>2
    <3>4. now \in [1..k -> S]  BY <3>1, <3>3
    <3>5. now \in Seq(S)  BY <3>4
    <3> QED BY <3>2, <3>5
  <2> QED BY <2>1, <2>2, <2>6 DEF Stacked
<1> QED BY <1>5, <1>6, <1>7, <1>8, Zenon

ThreadOf(scopes, active, failed, thrown, logged, unseen, how, careful, caught) ==
  [scopes |-> scopes, active |-> active, failed |-> failed, thrown |-> thrown, logged |-> logged,
   unseen |-> unseen, ended |-> how, careful |-> careful, caught |-> caught]

\* A thread with n scopes on which each failed check is accounted for.
Accounted(scopes, active, failed, thrown, logged, unseen, n) ==
  /\ Len(scopes) = n /\ Stacked(active, n)
  /\ failed \in Int /\ thrown \in Int /\ logged \in Int /\ unseen \in Int
  /\ \E v : Holds(scopes, v) /\ failed = thrown + logged + unseen + v
Whole(thread, n, how) ==
  \E scopes, active, failed, thrown, logged, unseen, careful, caught :
    /\ thread = ThreadOf(scopes, active, failed, thrown, logged, unseen, how, careful, caught)
    /\ Accounted(scopes, active, failed, thrown, logged, unseen, n)

LEMMA WholeParts ==
  ASSUME NEW thread, NEW n, NEW how, Whole(thread, n, how)
  PROVE  /\ Len(thread.scopes) = n /\ thread.ended = how
         /\ thread.scopes \in Seq(ScopeSet) /\ Stacked(thread.active, n)
         /\ thread.failed = thread.thrown + thread.logged + thread.unseen + Held(thread)
         /\ n \in Nat /\ DOMAIN thread.scopes = 1..n
<1>1. PICK scopes, active, failed, thrown, logged, unseen, careful, caught :
        /\ thread = ThreadOf(scopes, active, failed, thrown, logged, unseen, how, careful, caught)
        /\ Accounted(scopes, active, failed, thrown, logged, unseen, n)
  BY DEF Whole
<1>2. PICK v : Holds(scopes, v) /\ failed = thrown + logged + unseen + v  BY <1>1 DEF Accounted
<1>3. /\ thread.scopes = scopes /\ thread.active = active /\ thread.failed = failed /\ thread.thrown = thrown
      /\ thread.logged = logged /\ thread.unseen = unseen /\ thread.ended = how
  BY <1>1 DEF ThreadOf
<1>4. scopes \in Seq(ScopeSet) /\ Len(scopes) = n /\ Stacked(active, n)  BY <1>1, <1>2 DEF Accounted, Holds
<1>5. Held(thread) = v  BY <1>2, <1>3, HeldIs, Zenon
<1>6. n \in Nat /\ DOMAIN scopes = 1..n  BY <1>4
<1> QED BY <1>2, <1>3, <1>4, <1>5, <1>6

\* The destructor accounts for what its scope holds.
LEMMA DestroyWhole ==
  ASSUME NEW thread, NEW n \in Nat, NEW how, Whole(thread, n + 1, how)
  PROVE  Whole(Destroy(thread), n, how)
<1>1. PICK scopes, active, failed, thrown, logged, unseen, careful, caught :
        /\ thread = ThreadOf(scopes, active, failed, thrown, logged, unseen, how, careful, caught)
        /\ Accounted(scopes, active, failed, thrown, logged, unseen, n + 1)
  BY DEF Whole
<1>2. PICK v : Holds(scopes, v) /\ failed = thrown + logged + unseen + v  BY <1>1 DEF Accounted
<1>3. /\ thread.scopes = scopes /\ thread.active = active /\ thread.logged = logged /\ thread.unseen = unseen
  BY <1>1 DEF ThreadOf
<1>4. /\ Len(scopes) = n + 1 /\ Stacked(active, n + 1)
      /\ failed \in Int /\ thrown \in Int /\ logged \in Int /\ unseen \in Int
  BY <1>1 DEF Accounted
<1>5. scopes # <<>>
  <2>1. Len(<<>>) = 0  OBVIOUS
  <2> QED BY <1>4, <2>1
<1>6. PICK scope : scope = Last(scopes)  OBVIOUS
<1>7. /\ Holds(Front(scopes), v - Waiting(scope)) /\ scope \in ScopeSet /\ Len(Front(scopes)) = (n + 1) - 1
  BY <1>2, <1>4, <1>5, <1>6, HoldsLess, Zenon
<1>8. Stacked(Popped(active, n + 1), n)
  <2>1. n + 1 \in Nat /\ n + 1 > 0 /\ (n + 1) - 1 = n  OBVIOUS
  <2>2. Stacked(Popped(active, n + 1), (n + 1) - 1)  BY <1>4, <2>1, StackSteps, Zenon
  <2> QED BY <2>1, <2>2, Zenon
<1> DEFINE a == IF thread.active # <<>> /\ Last(thread.active) = Len(thread.scopes)
                THEN Front(thread.active) ELSE thread.active
           l == IF Last(thread.scopes).verified THEN thread.logged
                ELSE thread.logged + Last(thread.scopes).failures
           u == IF Last(thread.scopes).verified
                THEN thread.unseen + Last(thread.scopes).failures - Last(thread.scopes).thrown ELSE thread.unseen
<1>9. Destroy(thread) = [thread EXCEPT !.scopes = Front(thread.scopes), !.active = a, !.logged = l, !.unseen = u]
  BY DEF Destroy
<1>10. a = Popped(active, n + 1)  BY <1>3, <1>4, Zenon DEF Popped
<1>11. /\ scope.verified => l = logged /\ u = unseen + scope.failures - scope.thrown
       /\ ~scope.verified => l = logged + scope.failures /\ u = unseen
  BY <1>3, <1>6, Zenon
<1> HIDE DEF a, l, u
<1>12. Destroy(thread) = ThreadOf(Front(scopes), a, failed, thrown, l, u, how, careful, caught)
  <2>1. PICK less : less = Front(scopes)  OBVIOUS
  <2>2. Destroy(thread) = [thread EXCEPT !.scopes = less, !.active = a, !.logged = l, !.unseen = u]
    BY <1>3, <1>9, <2>1, Zenon
  <2> QED BY <1>1, <2>1, <2>2 DEF ThreadOf
<1>13. /\ scope.failures \in Int /\ scope.thrown \in Int /\ Waiting(scope) = scope.failures - scope.thrown
       /\ ~scope.verified => scope.thrown = 0
  <2>1. scope \in ScopeSet  BY <1>7
  <2> QED BY <2>1, ScopeParts, Zenon DEF Waiting
<1>14. v \in Int  BY <1>2, HoldsInt
<1>15. l \in Int /\ u \in Int /\ failed = thrown + l + u + (v - Waiting(scope))
  <2>1. CASE scope.verified
    <3>1. l = logged /\ u = unseen + scope.failures - scope.thrown  BY <1>11, <2>1, Zenon
    <3> QED BY <1>2, <1>4, <1>13, <1>14, <3>1
  <2>2. CASE ~scope.verified
    <3>1. l = logged + scope.failures /\ u = unseen /\ scope.thrown = 0  BY <1>11, <1>13, <2>2, Zenon
    <3> QED BY <1>2, <1>4, <1>13, <1>14, <3>1
  <2> QED BY <2>1, <2>2, Zenon
<1>16. (n + 1) - 1 = n  OBVIOUS
<1>17. Accounted(Front(scopes), a, failed, thrown, l, u, n)
  BY <1>4, <1>7, <1>8, <1>10, <1>15, <1>16, Zenon DEF Accounted
<1> QED BY <1>12, <1>17, Zenon DEF Whole

\* The blocks that an exception leaves, down to the depth from.
Unwinds(left, thread, from) ==
  left = [n \in from..Len(thread.scopes) |-> IF n = Len(thread.scopes) THEN thread ELSE Destroy(left[n + 1])]

LEMMA UnwindingExists ==
  ASSUME NEW thread, NEW m \in Nat, Len(thread.scopes) = m, NEW from \in 0..m
  PROVE  \E left : Unwinds(left, thread, from)
<1> DEFINE D == {d \in Nat : d <= m => \E f : Unwinds(f, thread, m - d)}
<1>1. 0 \in D
  <2>1. PICK f : f = [n \in m..m |-> thread]  OBVIOUS
  <2>2. f = [n \in m..m |-> IF n = m THEN thread ELSE Destroy(f[n + 1])]  BY <2>1
  <2>3. Unwinds(f, thread, m)  BY <2>2, Zenon DEF Unwinds
  <2>4. m - 0 = m  OBVIOUS
  <2> QED BY <2>3, <2>4
<1>2. ASSUME NEW d \in Nat, d \in D PROVE d + 1 \in D
  <2> SUFFICES ASSUME d + 1 <= m PROVE \E f : Unwinds(f, thread, m - (d + 1))  OBVIOUS
  <2>1. PICK k : k = m - d  OBVIOUS
  <2>2. k \in 1..m /\ m - (d + 1) = k - 1  BY <2>1
  <2>3. PICK f : Unwinds(f, thread, k)  BY <1>2, <2>1, <2>2
  <2>4. f = [n \in k..m |-> IF n = m THEN thread ELSE Destroy(f[n + 1])]  BY <2>3, Zenon DEF Unwinds
  <2>5. PICK g : g = [n \in k - 1..m |-> IF n >= k THEN f[n] ELSE Destroy(f[n + 1])]  OBVIOUS
  <2>6. \A n \in k..m : g[n] = f[n]  BY <2>2, <2>5
  <2>7. ASSUME NEW n \in k - 1..m PROVE g[n] = IF n = m THEN thread ELSE Destroy(g[n + 1])
    <3>1. CASE n >= k
      <4>1. n \in k..m  BY <2>2, <3>1
      <4>2. g[n] = IF n = m THEN thread ELSE Destroy(f[n + 1])  BY <2>4, <2>6, <4>1
      <4>3. n # m => g[n + 1] = f[n + 1]
        <5>1. n # m => n + 1 \in k..m  BY <2>2, <4>1
        <5> QED BY <2>6, <5>1
      <4> QED BY <4>2, <4>3
    <3>2. CASE ~(n >= k)
      <4>1. n = k - 1 /\ n + 1 \in k..m /\ n # m  BY <2>2, <3>2
      <4>2. g[n] = Destroy(f[n + 1])  BY <2>5, <3>2
      <4> QED BY <2>6, <4>1, <4>2
    <3> QED BY <3>1, <3>2
  <2>8. g = [n \in k - 1..m |-> IF n = m THEN thread ELSE Destroy(g[n + 1])]
    <3>1. g = [n \in k - 1..m |-> g[n]]  BY <2>5
    <3> QED BY <2>7, <3>1, Zenon
  <2>9. Unwinds(g, thread, k - 1)  BY <2>8, Zenon DEF Unwinds
  <2> QED BY <2>2, <2>9
<1> HIDE DEF D
<1>3. PICK d \in Nat : d = m - from  OBVIOUS
<1>4. d \in D /\ d <= m /\ m - d = from  BY <1>1, <1>2, <1>3, SetInduction
<1>5. \E f : Unwinds(f, thread, m - d)  BY <1>4 DEF D
<1> QED BY <1>4, <1>5

LEMMA UnwindingWhole ==
  ASSUME NEW thread, NEW m \in Nat, NEW how, Whole(thread, m, how), NEW from \in 0..m,
         NEW left, Unwinds(left, thread, from)
  PROVE  Whole(left[from], from, how)
<1>1. Len(thread.scopes) = m  BY WholeParts
<1>2. left = [n \in from..m |-> IF n = m THEN thread ELSE Destroy(left[n + 1])]  BY <1>1, Zenon DEF Unwinds
<1>3. \A n \in from..m : left[n] = IF n = m THEN thread ELSE Destroy(left[n + 1])  BY <1>2, Zenon
<1> DEFINE D == {d \in Nat : d <= m - from => Whole(left[m - d], m - d, how)}
<1>4. 0 \in D
  <2>1. m - 0 = m /\ m \in from..m  OBVIOUS
  <2>2. left[m] = thread  BY <1>3, <2>1
  <2> QED BY <2>1, <2>2
<1>5. ASSUME NEW d \in Nat, d \in D PROVE d + 1 \in D
  <2> SUFFICES ASSUME d + 1 <= m - from PROVE Whole(left[m - (d + 1)], m - (d + 1), how)  OBVIOUS
  <2>1. PICK k : k = m - (d + 1)  OBVIOUS
  <2>2. k \in Nat /\ k \in from..m /\ k # m /\ m - d = k + 1 /\ d <= m - from  BY <2>1
  <2>3. Whole(left[k + 1], k + 1, how)  BY <1>5, <2>2
  <2>4. left[k] = Destroy(left[k + 1])  BY <1>3, <2>2
  <2>5. Whole(left[k], k, how)  BY <2>2, <2>3, <2>4, DestroyWhole, Zenon
  <2> QED BY <2>1, <2>5
<1> HIDE DEF D
<1>6. PICK d \in Nat : d = m - from  OBVIOUS
<1>7. d \in D /\ d <= m - from /\ m - d = from  BY <1>4, <1>5, <1>6, SetInduction
<1>8. Whole(left[m - d], m - d, how)  BY <1>7 DEF D
<1> QED BY <1>7, <1>8, Zenon

LEMMA EndedWhole ==
  ASSUME NEW thread, NEW n, NEW how, Whole(thread, n, how), NEW new
  PROVE  /\ Whole([thread EXCEPT !.ended = new], n, new)
         /\ Whole([thread EXCEPT !.careful = new], n, how)
         /\ Whole([thread EXCEPT !.caught = new], n, how)
<1>1. PICK scopes, active, failed, thrown, logged, unseen, careful, caught :
        /\ thread = ThreadOf(scopes, active, failed, thrown, logged, unseen, how, careful, caught)
        /\ Accounted(scopes, active, failed, thrown, logged, unseen, n)
  BY DEF Whole
<1>2. /\ [thread EXCEPT !.ended = new] = ThreadOf(scopes, active, failed, thrown, logged, unseen, new, careful, caught)
      /\ [thread EXCEPT !.careful = new] = ThreadOf(scopes, active, failed, thrown, logged, unseen, how, new, caught)
      /\ [thread EXCEPT !.caught = new] = ThreadOf(scopes, active, failed, thrown, logged, unseen, how, careful, new)
  BY <1>1 DEF ThreadOf
<1> QED BY <1>1, <1>2, Zenon DEF Whole

\* A block that ends leaves as much behind.
LEMMA LeaveWhole ==
  ASSUME NEW thread, NEW n \in Nat, NEW how, Whole(thread, n + 1, how)
  PROVE  Whole(Leave(thread), n, how)
<1>1. PICK left : left = Destroy(thread)  OBVIOUS
<1>2. PICK mark : mark = (left.careful /\ Last(thread.scopes).verified)  OBVIOUS
<1>3. Leave(thread) = [left EXCEPT !.careful = mark]  BY <1>1, <1>2, Zenon DEF Leave
<1>4. Whole(left, n, how)  BY <1>1, DestroyWhole, Zenon
<1>5. Whole([left EXCEPT !.careful = mark], n, how)
  <2> HIDE <1>1, <1>2, <1>3
  <2> QED BY <1>4, EndedWhole, Zenon
<1> QED BY <1>3, <1>5, Zenon

\* The handlers that an exception from under m scopes can meet, how many scopes
\* it leaves there, and how the body then stands.
DepthOf(handler) == IF handler = Escapes THEN 0 ELSE handler
EndOf(handler, how) == IF handler = Escapes THEN "failed" ELSE how

\* An exception leaves every scope accounted for.
LEMMA ThrowWhole ==
  ASSUME NEW thread, NEW m \in Nat, NEW how, Whole(thread, m, how), NEW handler \in {Escapes} \cup 0..m
  PROVE  /\ Whole(Throw(thread, handler), DepthOf(handler), EndOf(handler, how)) /\ DepthOf(handler) \in 0..m
         /\ handler # Escapes => Throw(thread, handler).caught
<1>1. Len(thread.scopes) = m  BY WholeParts
<1>2. PICK depth : depth = DepthOf(handler)  OBVIOUS
<1>3. depth \in 0..m  BY <1>2 DEF DepthOf, Escapes
<1> DEFINE left == CHOOSE left : Unwinds(left, thread, DepthOf(handler))
<1>4. Throw(thread, handler) = IF handler = Escapes THEN [left[DepthOf(handler)] EXCEPT !.ended = "failed"]
                               ELSE [left[DepthOf(handler)] EXCEPT !.caught = TRUE]
  BY DEF Throw, Unwinds, DepthOf
<1>5. Unwinds(left, thread, depth)
  <2>1. \E f : Unwinds(f, thread, DepthOf(handler))  BY <1>1, <1>2, <1>3, UnwindingExists, Zenon
  <2> QED BY <1>2, <2>1, Zenon
<1> HIDE DEF left
<1>6. PICK at : at = left[depth]  OBVIOUS
<1>7. Whole(at, depth, how)  BY <1>3, <1>5, <1>6, UnwindingWhole, Zenon
<1>8. /\ Whole([at EXCEPT !.ended = "failed"], depth, "failed")
      /\ Whole([at EXCEPT !.caught = TRUE], depth, how)
  BY <1>7, EndedWhole, Zenon
<1>9. Whole(Throw(thread, handler), depth, EndOf(handler, how))
  <2>1. CASE handler = Escapes
    <3>1. Throw(thread, handler) = [at EXCEPT !.ended = "failed"]  BY <1>2, <1>4, <1>6, <2>1, Zenon
    <3> QED BY <1>8, <2>1, <3>1, Zenon DEF EndOf
  <2>2. CASE handler # Escapes
    <3>1. Throw(thread, handler) = [at EXCEPT !.caught = TRUE]  BY <1>2, <1>4, <1>6, <2>2, Zenon
    <3> QED BY <1>8, <2>2, <3>1, Zenon DEF EndOf
  <2> QED BY <2>1, <2>2
<1>10. ASSUME handler # Escapes PROVE Throw(thread, handler).caught
  <2>1. Throw(thread, handler) = [at EXCEPT !.caught = TRUE]  BY <1>2, <1>4, <1>6, <1>10, Zenon
  <2>2. PICK yes : yes = TRUE  OBVIOUS
  <2>3. Throw(thread, handler) = [at EXCEPT !.caught = yes]  BY <2>1, <2>2, Zenon
  <2>4. Throw(thread, handler).caught = yes  BY <1>7, <2>3 DEF Whole, ThreadOf
  <2> QED BY <2>2, <2>4, Zenon
<1> QED BY <1>2, <1>3, <1>9, <1>10, Zenon

\* The steps of a body that throw nothing.
LEMMA OpenWhole ==
  ASSUME NEW thread, NEW n \in Nat, NEW how, Whole(thread, n, how)
  PROVE  Whole(Open(thread), n + 1, how)
<1>1. PICK scopes, active, failed, thrown, logged, unseen, careful, caught :
        /\ thread = ThreadOf(scopes, active, failed, thrown, logged, unseen, how, careful, caught)
        /\ Accounted(scopes, active, failed, thrown, logged, unseen, n)
  BY DEF Whole
<1>2. PICK v : Holds(scopes, v) /\ failed = thrown + logged + unseen + v  BY <1>1 DEF Accounted
<1>3. Len(scopes) = n /\ Stacked(active, n)  BY <1>1 DEF Accounted
<1>4. thread.scopes = scopes /\ thread.active = active  BY <1>1 DEF ThreadOf
<1>5. PICK more, deeper : more = Append(scopes, NewScope) /\ deeper = Append(active, n + 1)  OBVIOUS
<1>6. Open(thread) = [thread EXCEPT !.scopes = more, !.active = deeper]  BY <1>3, <1>4, <1>5, Zenon DEF Open
<1>7. Open(thread) = ThreadOf(more, deeper, failed, thrown, logged, unseen, how, careful, caught)  BY <1>1, <1>6 DEF ThreadOf
<1>8. Holds(more, v + 0)
  <2>1. NewScope \in ScopeSet /\ Waiting(NewScope) = 0  BY ScopeSteps, Zenon
  <2> QED BY <1>2, <1>5, <2>1, HoldsMore, Zenon
<1>9. v + 0 = v  BY <1>2, HoldsInt
<1>10. Stacked(deeper, n + 1)  BY <1>3, <1>5, StackSteps, Zenon
<1>11. Len(more) = n + 1
  <2>1. scopes \in Seq(ScopeSet)  BY <1>2 DEF Holds
  <2>2. NewScope \in ScopeSet  BY ScopeSteps, Zenon
  <2> QED BY <1>3, <1>5, <2>1, <2>2, AppendProperties
<1>12. Accounted(more, deeper, failed, thrown, logged, unseen, n + 1)
  BY <1>1, <1>2, <1>8, <1>9, <1>10, <1>11, Zenon DEF Accounted
<1> QED BY <1>7, <1>12, Zenon DEF Whole

\* A check that failed is recorded in the innermost scope of the stack.
LEMMA RecordWhole ==
  ASSUME NEW thread, NEW n \in Nat, NEW how, Whole(thread, n, how), thread.active # <<>>
  PROVE  Whole(Record([thread EXCEPT !.failed = @ + 1]), n, how)
<1>1. PICK scopes, active, failed, thrown, logged, unseen, careful, caught :
        /\ thread = ThreadOf(scopes, active, failed, thrown, logged, unseen, how, careful, caught)
        /\ Accounted(scopes, active, failed, thrown, logged, unseen, n)
  BY DEF Whole
<1>2. PICK v : Holds(scopes, v) /\ failed = thrown + logged + unseen + v  BY <1>1 DEF Accounted
<1>3. /\ Len(scopes) = n /\ Stacked(active, n)
      /\ failed \in Int /\ thrown \in Int /\ logged \in Int /\ unseen \in Int
  BY <1>1 DEF Accounted
<1>4. active # <<>>
  <2>1. thread.active = active  BY <1>1 DEF ThreadOf
  <2> QED BY <2>1
<1>5. PICK p : p = Last(active)  OBVIOUS
<1>6. p \in 1..n  BY <1>3, <1>4, <1>5, StackSteps, Zenon
<1>7. scopes \in Seq(ScopeSet) /\ p \in DOMAIN scopes  BY <1>2, <1>3, <1>6 DEF Holds
<1>8. PICK scope : scope = scopes[p] /\ scope \in ScopeSet  BY <1>7
<1>9. PICK one : one = [scope EXCEPT !.failures = @ + 1]  OBVIOUS
<1>10. one \in ScopeSet /\ Waiting(one) = Waiting(scope) + 1  BY <1>8, <1>9, ScopeSteps, Zenon
<1>11. PICK now : now = [scopes EXCEPT ![p] = one]  OBVIOUS
<1>12. PICK counted : counted = [thread EXCEPT !.failed = @ + 1]  OBVIOUS
<1>13. counted = ThreadOf(scopes, active, failed + 1, thrown, logged, unseen, how, careful, caught)  BY <1>1, <1>12 DEF ThreadOf
<1>14. counted.scopes = scopes /\ counted.active = active  BY <1>13 DEF ThreadOf
<1>a. PICK mark : mark = (counted.careful /\ ~counted.scopes[p].verified)  OBVIOUS
<1>15. Record(counted) = [[counted EXCEPT !.scopes = now] EXCEPT !.careful = mark]
  <2>1. Record(counted) = [counted EXCEPT !.scopes[p].failures = @ + 1, !.careful = mark]
    BY <1>5, <1>14, <1>a, Zenon DEF Record
  <2>2. [counted EXCEPT !.scopes[p].failures = @ + 1] = [counted EXCEPT !.scopes = now]
    BY <1>8, <1>9, <1>11, <1>14
  <2> QED BY <2>1, <2>2, Zenon
<1>16. Record(counted) = ThreadOf(now, active, failed + 1, thrown, logged, unseen, how, mark, caught)
  <2>1. PICK recorded : recorded = [counted EXCEPT !.scopes = now]  OBVIOUS
  <2>2. recorded = ThreadOf(now, active, failed + 1, thrown, logged, unseen, how, careful, caught)
    BY <1>13, <2>1 DEF ThreadOf
  <2>3. [recorded EXCEPT !.careful = mark] = ThreadOf(now, active, failed + 1, thrown, logged, unseen, how, mark, caught)
    BY <2>2 DEF ThreadOf
  <2> QED BY <1>15, <2>1, <2>3, Zenon
<1>17. Holds(now, v - Waiting(scope) + Waiting(one))  BY <1>2, <1>7, <1>8, <1>10, <1>11, HoldsChanged, Zenon
<1>18. v - Waiting(scope) + Waiting(one) = v + 1 /\ v \in Int
  <2>1. v \in Int /\ Waiting(scope) \in Int  BY <1>2, <1>8, HoldsInt, ScopeParts
  <2> QED BY <1>10, <2>1
<1>19. failed + 1 = thrown + logged + unseen + (v + 1) /\ failed + 1 \in Int  BY <1>2, <1>3, <1>18
<1>20. Len(now) = n  BY <1>3, <1>7, <1>8, <1>10, <1>11
<1>21. Accounted(now, active, failed + 1, thrown, logged, unseen, n)
  BY <1>3, <1>17, <1>18, <1>19, <1>20, Zenon DEF Accounted
<1> QED BY <1>12, <1>16, <1>21, Zenon DEF Whole

\* A failure that is thrown at once.
LEMMA CountWhole ==
  ASSUME NEW thread, NEW n, NEW how, Whole(thread, n, how)
  PROVE  /\ Whole([[thread EXCEPT !.failed = @ + 1] EXCEPT !.thrown = @ + 1], n, how)
         /\ Whole([thread EXCEPT !.failed = @ + 1, !.thrown = @ + 1], n, how)
<1>1. PICK scopes, active, failed, thrown, logged, unseen, careful, caught :
        /\ thread = ThreadOf(scopes, active, failed, thrown, logged, unseen, how, careful, caught)
        /\ Accounted(scopes, active, failed, thrown, logged, unseen, n)
  BY DEF Whole
<1>2. PICK v : Holds(scopes, v) /\ failed = thrown + logged + unseen + v  BY <1>1 DEF Accounted
<1>3. v \in Int /\ failed \in Int /\ thrown \in Int /\ logged \in Int /\ unseen \in Int
  BY <1>1, <1>2, HoldsInt DEF Accounted
<1>4. failed + 1 \in Int /\ thrown + 1 \in Int /\ failed + 1 = (thrown + 1) + logged + unseen + v  BY <1>2, <1>3
<1>5. Accounted(scopes, active, failed + 1, thrown + 1, logged, unseen, n)
  BY <1>1, <1>2, <1>4, Zenon DEF Accounted
<1>6. PICK counted : counted = [thread EXCEPT !.failed = @ + 1]  OBVIOUS
<1>7. counted = ThreadOf(scopes, active, failed + 1, thrown, logged, unseen, how, careful, caught)  BY <1>1, <1>6 DEF ThreadOf
<1>8. [counted EXCEPT !.thrown = @ + 1] = ThreadOf(scopes, active, failed + 1, thrown + 1, logged, unseen, how, careful, caught)
  BY <1>7 DEF ThreadOf
<1>9. [thread EXCEPT !.failed = @ + 1, !.thrown = @ + 1]
        = ThreadOf(scopes, active, failed + 1, thrown + 1, logged, unseen, how, careful, caught)
  <2>1. [counted EXCEPT !.thrown = thrown + 1]
          = ThreadOf(scopes, active, failed + 1, thrown + 1, logged, unseen, how, careful, caught)
    BY <1>7 DEF ThreadOf
  <2>2. thread.thrown = thrown  BY <1>1 DEF ThreadOf
  <2> QED BY <1>6, <2>1, <2>2, Zenon
<1> QED BY <1>5, <1>6, <1>8, <1>9, Zenon DEF Whole

\* Each step leaves some number of scopes, and none if the body has ended.
Stands(thread) ==
  \E n, how : n \in Nat /\ Whole(thread, n, how) /\ (how # "running" => n = 0)

LEMMA ThrowStands ==
  ASSUME NEW thread, NEW n \in Nat, Whole(thread, n, "running"), NEW handler \in {Escapes} \cup 0..n
  PROVE  Stands(Throw(thread, handler))
<1>1. PICK depth, how : depth = DepthOf(handler) /\ how = EndOf(handler, "running")  OBVIOUS
<1>2. Whole(Throw(thread, handler), depth, how) /\ depth \in 0..n  BY <1>1, ThrowWhole, Zenon
<1>3. how # "running" => depth = 0  BY <1>1 DEF EndOf, DepthOf
<1>4. depth \in Nat  BY <1>2
<1> QED BY <1>2, <1>3, <1>4, Zenon DEF Stands

LEMMA ReportStands ==
  ASSUME NEW thread, NEW n \in Nat, Whole(thread, n, "running"), NEW handler \in {Escapes} \cup 0..n
  PROVE  /\ Stands(Report(thread, FALSE, handler))
         /\ Stands(Fail(thread, handler))
<1>1. PICK counted : counted = [thread EXCEPT !.failed = @ + 1]  OBVIOUS
<1>2. /\ thread.active # <<>> => Report(thread, FALSE, handler) = Record(counted)
      /\ thread.active = <<>> => Report(thread, FALSE, handler) = Throw([counted EXCEPT !.thrown = @ + 1], handler)
  <2>1. CASE thread.active # <<>>  BY <1>1, <2>1, Zenon DEF Report
  <2>2. CASE thread.active = <<>>  BY <1>1, <2>2, Zenon DEF Report
  <2> QED BY <2>1, <2>2
<1>3. CASE thread.active = <<>>
  <2>1. Whole([counted EXCEPT !.thrown = @ + 1], n, "running")  BY <1>1, CountWhole, Zenon
  <2>2. Stands(Throw([counted EXCEPT !.thrown = @ + 1], handler))  BY <2>1, ThrowStands, Zenon
  <2>3. Fail(thread, handler) = Report(thread, FALSE, handler)  BY <1>3, Zenon DEF Fail
  <2> QED BY <1>2, <1>3, <2>2, <2>3, Zenon
<1>4. CASE thread.active # <<>>
  <2>1. PICK recorded : recorded = Record(counted)  OBVIOUS
  <2>2. Whole(recorded, n, "running")  BY <1>1, <1>4, <2>1, RecordWhole, Zenon
  <2>3. Stands(recorded)  BY <2>2, Zenon DEF Stands
  <2>4. Report(thread, FALSE, handler) = recorded  BY <1>2, <1>4, <2>1, Zenon
  <2>5. Fail(thread, handler) = Throw([recorded EXCEPT !.failed = @ + 1, !.thrown = @ + 1], handler)
    BY <1>4, <2>4, Zenon DEF Fail
  <2>6. Whole([recorded EXCEPT !.failed = @ + 1, !.thrown = @ + 1], n, "running")  BY <2>2, CountWhole, Zenon
  <2>7. Stands(Fail(thread, handler))  BY <2>5, <2>6, ThrowStands, Zenon
  <2> QED BY <2>3, <2>4, <2>7, Zenon
<1> QED BY <1>3, <1>4

\* verify() throws unless it has nothing to tell.
Quiet(scope) == scope.verified \/ scope.failures = 0

LEMMA VerifyWhole ==
  ASSUME NEW thread, NEW n \in Nat, Whole(thread, n, "running"), NEW handler, NEW place \in DOMAIN thread.scopes
  PROVE  /\ Quiet(thread.scopes[place]) => Whole(Verify(thread, place, handler), n, "running")
         /\ ~Quiet(thread.scopes[place]) =>
              \E popped : Whole(popped, n, "running") /\ Verify(thread, place, handler) = Throw(popped, handler)
<1>1. PICK scopes, active, failed, thrown, logged, unseen, careful, caught :
        /\ thread = ThreadOf(scopes, active, failed, thrown, logged, unseen, "running", careful, caught)
        /\ Accounted(scopes, active, failed, thrown, logged, unseen, n)
  BY DEF Whole
<1>2. PICK v : Holds(scopes, v) /\ failed = thrown + logged + unseen + v  BY <1>1 DEF Accounted
<1>3. /\ Len(scopes) = n /\ Stacked(active, n)
      /\ failed \in Int /\ thrown \in Int /\ logged \in Int /\ unseen \in Int /\ v \in Int
  BY <1>1, <1>2, HoldsInt DEF Accounted
<1>4. thread.scopes = scopes /\ thread.active = active /\ thread.thrown = thrown  BY <1>1 DEF ThreadOf
<1>5. scopes \in Seq(ScopeSet) /\ place \in DOMAIN scopes  BY <1>2, <1>4 DEF Holds
<1>6. PICK scope : scope = scopes[place] /\ scope \in ScopeSet  BY <1>5
<1>7. PICK yes : yes = TRUE  OBVIOUS
<1>8. PICK seen : seen = [scope EXCEPT !.verified = yes]  OBVIOUS
<1>9. seen \in ScopeSet /\ Waiting(seen) = Waiting(scope)  BY <1>6, <1>7, <1>8, ScopeSteps, Zenon
<1>10. PICK now : now = [scopes EXCEPT ![place] = seen]  OBVIOUS
<1>11. PICK verified : verified = [thread EXCEPT !.scopes[place].verified = yes]  OBVIOUS
<1>12. verified = ThreadOf(now, active, failed, thrown, logged, unseen, "running", careful, caught)
  <2>1. verified = [thread EXCEPT !.scopes = now]  BY <1>4, <1>6, <1>8, <1>10, <1>11
  <2> QED BY <1>1, <2>1 DEF ThreadOf
<1>13. Waiting(scope) \in Int  BY <1>6, ScopeParts
<1>14. ASSUME scope.verified \/ scope.failures = 0 PROVE Whole(Verify(thread, place, handler), n, "running")
  <2>1. Verify(thread, place, handler) = verified  BY <1>4, <1>6, <1>7, <1>11, <1>14, Zenon DEF Verify
  <2>2. Holds(now, v - Waiting(scope) + Waiting(seen))  BY <1>2, <1>5, <1>6, <1>9, <1>10, HoldsChanged, Zenon
  <2>3. v - Waiting(scope) + Waiting(seen) = v  BY <1>3, <1>9, <1>13
  <2>4. Len(now) = n  BY <1>3, <1>5, <1>9, <1>10
  <2>5. Accounted(now, active, failed, thrown, logged, unseen, n)
    BY <1>2, <1>3, <2>2, <2>3, <2>4, Zenon DEF Accounted
  <2>6. Whole(verified, n, "running")  BY <1>12, <2>5, Zenon DEF Whole
  <2> QED BY <2>1, <2>6, Zenon
<1>15. ASSUME ~(scope.verified \/ scope.failures = 0)
       PROVE  \E popped : Whole(popped, n, "running") /\ Verify(thread, place, handler) = Throw(popped, handler)
  <2>1. PICK told : told = [seen EXCEPT !.thrown = scope.failures]  OBVIOUS
  <2>2. told \in ScopeSet /\ Waiting(told) = 0  BY <1>6, <1>7, <1>8, <2>1, ScopeSteps, Zenon
  <2>3. PICK after : after = [scopes EXCEPT ![place] = told]  OBVIOUS
  <2>4. PICK rest : rest = Popped(active, place)  OBVIOUS
  <2>5. PICK popped :
          popped = [verified EXCEPT !.scopes[place].thrown = scope.failures, !.active = rest,
                      !.thrown = thrown + scope.failures]
    OBVIOUS
  <2>6. verified.active = active /\ verified.thrown = thrown /\ verified.scopes = now  BY <1>12 DEF ThreadOf
  <2>7. Verify(thread, place, handler) = Throw(popped, handler)
    <3> DEFINE paused == [verified EXCEPT !.scopes[place].thrown = scope.failures,
                   !.active = IF @ # <<>> /\ Last(@) = place THEN Front(@) ELSE @,
                   !.thrown = @ + scope.failures]
    <3>1. Verify(thread, place, handler) = Throw(paused, handler)
      BY <1>4, <1>6, <1>7, <1>11, <1>15, Zenon DEF Verify
    <3>2. paused = popped  BY <2>4, <2>5, <2>6, Zenon DEF Popped
    <3> QED BY <3>1, <3>2, Zenon
  <2>8. popped = ThreadOf(after, rest, failed, thrown + scope.failures, logged, unseen, "running", careful, caught)
    <3>1. now[place] = seen /\ place \in DOMAIN now  BY <1>5, <1>10
    <3>2. [now EXCEPT ![place] = told] = after  BY <1>5, <1>10, <2>3
    <3>3. popped = [verified EXCEPT !.scopes = after, !.active = rest, !.thrown = thrown + scope.failures]
      BY <2>1, <2>5, <2>6, <3>1, <3>2
    <3> QED BY <1>12, <3>3 DEF ThreadOf
  <2>9. Holds(after, v - Waiting(scope) + Waiting(told))  BY <1>2, <1>5, <1>6, <2>2, <2>3, HoldsChanged, Zenon
  <2>10. scope.thrown = 0 /\ scope.failures \in Int  BY <1>6, <1>15, ScopeParts, Zenon
  <2>11. Waiting(scope) = scope.failures  BY <2>10 DEF Waiting
  <2>12. v - Waiting(scope) + Waiting(told) = v - scope.failures  BY <1>3, <2>2, <2>10, <2>11
  <2>13. /\ failed = (thrown + scope.failures) + logged + unseen + (v - scope.failures)
         /\ thrown + scope.failures \in Int
    BY <1>2, <1>3, <2>10
  <2>14. Stacked(rest, n)  BY <1>3, <2>4, StackSteps, Zenon
  <2>15. Len(after) = n  BY <1>3, <1>5, <2>2, <2>3
  <2>16. Accounted(after, rest, failed, thrown + scope.failures, logged, unseen, n)
    BY <1>3, <2>9, <2>12, <2>13, <2>14, <2>15, Zenon DEF Accounted
  <2>17. Whole(popped, n, "running")  BY <2>8, <2>16, Zenon DEF Whole
  <2> QED BY <2>7, <2>17, Zenon
<1>16. thread.scopes[place] = scope  BY <1>4, <1>6
<1> QED BY <1>14, <1>15, <1>16, Zenon DEF Quiet

LEMMA VerifyStands ==
  ASSUME NEW thread, NEW n \in Nat, Whole(thread, n, "running"), NEW handler \in {Escapes} \cup 0..n,
         NEW place \in DOMAIN thread.scopes
  PROVE  Stands(Verify(thread, place, handler))
<1>1. CASE Quiet(thread.scopes[place])
  <2>1. Whole(Verify(thread, place, handler), n, "running")  BY <1>1, VerifyWhole, Zenon
  <2> QED BY <2>1, Zenon DEF Stands
<1>2. CASE ~Quiet(thread.scopes[place])
  <2>1. PICK popped : Whole(popped, n, "running") /\ Verify(thread, place, handler) = Throw(popped, handler)
    BY <1>2, VerifyWhole, Zenon
  <2>2. Stands(Throw(popped, handler))  BY <2>1, ThrowStands, Zenon
  <2> QED BY <2>1, <2>2, Zenon
<1> QED BY <1>1, <1>2, Zenon

\* What a body does next.
Moved(thread, new) ==
  \/ new = Open(thread)
  \/ DOMAIN thread.scopes # {} /\ new = Leave(thread)
  \/ DOMAIN thread.scopes = {} /\ new = Return(thread)
  \/ \E place \in DOMAIN thread.scopes, handler \in Handlers(thread) : new = Verify(thread, place, handler)
  \/ \E handler \in Handlers(thread) : new = Report(thread, FALSE, handler)
  \/ \E handler \in Handlers(thread) : new = Fail(thread, handler)

LEMMA MovesAre == ASSUME NEW thread, NEW new \in Moves(thread) PROVE Moved(thread, new)
<1> DEFINE opened == IF Len(thread.scopes) < 2 THEN {Open(thread)} ELSE {}
           left == IF DOMAIN thread.scopes # {} THEN {Leave(thread)} ELSE {Return(thread)}
           verified == {Verify(thread, place, handler) : place \in DOMAIN thread.scopes,
                                                         handler \in Handlers(thread)}
           reported == IF thread.failed < MaxChecks
                       THEN {Report(thread, FALSE, handler) : handler \in Handlers(thread)} ELSE {}
           failed == IF thread.failed < MaxChecks
                     THEN {Fail(thread, handler) : handler \in Handlers(thread)} ELSE {}
<1>1. Moves(thread) = opened \cup left \cup verified \cup reported \cup failed  BY DEF Moves
<1>2. new \in opened => new = Open(thread)  BY Zenon
<1>3. new \in left => \/ DOMAIN thread.scopes # {} /\ new = Leave(thread)
                      \/ DOMAIN thread.scopes = {} /\ new = Return(thread)
  BY Zenon
<1>4. new \in verified =>
        \E place \in DOMAIN thread.scopes, handler \in Handlers(thread) : new = Verify(thread, place, handler)
  OBVIOUS
<1>5. new \in reported => \E handler \in Handlers(thread) : new = Report(thread, FALSE, handler)  BY Zenon
<1>6. new \in failed => \E handler \in Handlers(thread) : new = Fail(thread, handler)  BY Zenon
<1> HIDE DEF opened, left, verified, reported, failed
<1>7. new \in opened \/ new \in left \/ new \in verified \/ new \in reported \/ new \in failed  BY <1>1
<1> QED BY <1>2, <1>3, <1>4, <1>5, <1>6, <1>7, Zenon DEF Moved

\* Whatever a body does next, each of its failed checks stays accounted for.
LEMMA MovesStand ==
  ASSUME NEW thread, Stands(thread), thread.ended = "running", NEW new, Moved(thread, new)
  PROVE  Stands(new)
<1>0. PICK n \in Nat : \E how : Whole(thread, n, how)  BY DEF Stands
<1>1. PICK how : Whole(thread, n, how)  BY <1>0
<1>2. /\ Len(thread.scopes) = n /\ thread.ended = how /\ DOMAIN thread.scopes = 1..n
  BY <1>1, WholeParts, Zenon
<1>3. Whole(thread, n, "running")  BY <1>1, <1>2, Zenon
<1>4. Handlers(thread) = {Escapes} \cup 0..n  BY <1>2, Zenon DEF Handlers
<1>6. CASE new = Open(thread)
  <2>1. Whole(new, n + 1, "running") /\ n + 1 \in Nat  BY <1>3, <1>6, OpenWhole
  <2> QED BY <2>1, Zenon DEF Stands
<1>7. CASE DOMAIN thread.scopes # {} /\ new = Leave(thread)
  <2>1. PICK k \in Nat : n = k + 1
    <3>1. n # 0 /\ n - 1 \in Nat /\ n = (n - 1) + 1  BY <1>2, <1>7
    <3> QED BY <3>1
  <2>2. Whole(new, k, "running")  BY <1>3, <1>7, <2>1, LeaveWhole, Zenon
  <2> QED BY <2>2, Zenon DEF Stands
<1>8. CASE DOMAIN thread.scopes = {} /\ new = Return(thread)
  <2>1. n = 0
    <3>1. n # 0 => 1 \in 1..n  OBVIOUS
    <3> QED BY <1>2, <1>8, <3>1, Zenon
  <2>2. Whole(new, n, "passed")  BY <1>3, <1>8, EndedWhole, Zenon DEF Return
  <2> QED BY <2>1, <2>2, Zenon DEF Stands
<1>9. CASE \E place \in DOMAIN thread.scopes, handler \in Handlers(thread) : new = Verify(thread, place, handler)
  BY <1>3, <1>4, <1>9, VerifyStands, Zenon
<1>10. CASE \E handler \in Handlers(thread) : new = Report(thread, FALSE, handler)
  BY <1>3, <1>4, <1>10, ReportStands, Zenon
<1>11. CASE \E handler \in Handlers(thread) : new = Fail(thread, handler)
  BY <1>3, <1>4, <1>11, ReportStands, Zenon
<1> QED BY <1>6, <1>7, <1>8, <1>9, <1>10, <1>11, Zenon DEF Moved

\* Nothing is lost to a body that verifies each scope at its end and catches
\* nothing: as long as it goes on, no failure has left a scope.
Harmless(scope) == scope.verified => scope.failures = 0 /\ scope.thrown = 0

Honest(thread) ==
  thread.careful /\ ~thread.caught /\ thread.ended # "failed" =>
    /\ thread.thrown = 0 /\ thread.logged = 0 /\ thread.unseen = 0
    /\ \A i \in DOMAIN thread.scopes : Harmless(thread.scopes[i])

\* An exception ends such a body, or is caught.
LEMMA ThrowHonest ==
  ASSUME NEW thread, NEW n \in Nat, Whole(thread, n, "running"), NEW handler \in {Escapes} \cup 0..n
  PROVE  Honest(Throw(thread, handler))
<1>1. /\ Whole(Throw(thread, handler), DepthOf(handler), EndOf(handler, "running"))
      /\ handler # Escapes => Throw(thread, handler).caught
  BY ThrowWhole, Zenon
<1>2. handler = Escapes => Throw(thread, handler).ended = "failed"  BY <1>1, WholeParts, Zenon DEF EndOf
<1> QED BY <1>1, <1>2, Zenon DEF Honest

LEMMA OpenHonest ==
  ASSUME NEW thread, NEW n \in Nat, Whole(thread, n, "running"), Honest(thread)
  PROVE  Honest(Open(thread))
<1>1. PICK scopes, active, failed, thrown, logged, unseen, careful, caught :
        /\ thread = ThreadOf(scopes, active, failed, thrown, logged, unseen, "running", careful, caught)
        /\ Accounted(scopes, active, failed, thrown, logged, unseen, n)
  BY DEF Whole
<1>2. scopes \in Seq(ScopeSet)  BY <1>1, Zenon DEF Accounted, Holds
<1>3. PICK new, no : new = NewScope /\ no = FALSE  OBVIOUS
<1>4. new = [failures |-> 0, verified |-> no, thrown |-> 0]  BY <1>3, Zenon DEF NewScope
<1>5. PICK more, deeper : more = Append(scopes, new) /\ deeper = Append(active, Len(scopes) + 1)  OBVIOUS
<1>6. thread.scopes = scopes /\ thread.active = active  BY <1>1 DEF ThreadOf
<1>7. Open(thread) = [thread EXCEPT !.scopes = more, !.active = deeper]  BY <1>3, <1>5, <1>6, Zenon DEF Open
<1>8. Open(thread) = ThreadOf(more, deeper, failed, thrown, logged, unseen, "running", careful, caught)
  BY <1>1, <1>7 DEF ThreadOf
<1>9. /\ Open(thread).careful = thread.careful /\ Open(thread).caught = thread.caught
      /\ Open(thread).ended = thread.ended /\ Open(thread).thrown = thread.thrown
      /\ Open(thread).logged = thread.logged /\ Open(thread).unseen = thread.unseen /\ Open(thread).scopes = more
  BY <1>1, <1>8 DEF ThreadOf
<1>10. Harmless(new)
  <2>1. new.verified = no  BY <1>4
  <2> QED BY <1>3, <2>1, Zenon DEF Harmless
<1>11. \A i \in DOMAIN more : more[i] = new \/ (i \in DOMAIN scopes /\ more[i] = scopes[i])  BY <1>2, <1>5
<1> QED BY <1>6, <1>9, <1>10, <1>11, Zenon DEF Honest

LEMMA LeaveHonest ==
  ASSUME NEW thread, NEW n \in Nat, Whole(thread, n + 1, "running"), Honest(thread)
  PROVE  Honest(Leave(thread))
<1>1. PICK scopes, active, failed, thrown, logged, unseen, careful, caught :
        /\ thread = ThreadOf(scopes, active, failed, thrown, logged, unseen, "running", careful, caught)
        /\ Accounted(scopes, active, failed, thrown, logged, unseen, n + 1)
  BY DEF Whole
<1>2. scopes \in Seq(ScopeSet) /\ Len(scopes) = n + 1  BY <1>1, Zenon DEF Accounted, Holds
<1>3. PICK scope, rest : scope = Last(scopes) /\ rest = Front(scopes)  OBVIOUS
<1>4. /\ n + 1 \in DOMAIN scopes /\ scope = scopes[n + 1]
      /\ \A i \in DOMAIN rest : i \in DOMAIN scopes /\ rest[i] = scopes[i]
  BY <1>2, <1>3 DEF Last, Front
<1>5. thread.scopes = scopes  BY <1>1 DEF ThreadOf
<1>6. PICK a, l, u :
        /\ Destroy(thread) = [thread EXCEPT !.scopes = rest, !.active = a, !.logged = l, !.unseen = u]
        /\ l = IF scope.verified THEN thread.logged ELSE thread.logged + scope.failures
        /\ u = IF scope.verified THEN thread.unseen + scope.failures - scope.thrown ELSE thread.unseen
  <2>0. PICK a, l, u :
          /\ a = IF thread.active # <<>> /\ Last(thread.active) = Len(thread.scopes)
                 THEN Front(thread.active) ELSE thread.active
          /\ l = IF Last(thread.scopes).verified THEN thread.logged
                 ELSE thread.logged + Last(thread.scopes).failures
          /\ u = IF Last(thread.scopes).verified
                 THEN thread.unseen + Last(thread.scopes).failures - Last(thread.scopes).thrown ELSE thread.unseen
    OBVIOUS
  <2>1. Destroy(thread) = [thread EXCEPT !.scopes = Front(thread.scopes), !.active = a, !.logged = l, !.unseen = u]
    BY <2>0, Zenon DEF Destroy
  <2>2. /\ l = IF scope.verified THEN thread.logged ELSE thread.logged + scope.failures
        /\ u = IF scope.verified THEN thread.unseen + scope.failures - scope.thrown ELSE thread.unseen
    BY <1>3, <1>5, <2>0, Zenon
  <2>3. Destroy(thread) = [thread EXCEPT !.scopes = rest, !.active = a, !.logged = l, !.unseen = u]
    BY <1>3, <1>5, <2>1, Zenon
  <2> QED BY <2>2, <2>3, Zenon
<1>7. PICK left, mark : left = Destroy(thread) /\ mark = (left.careful /\ scope.verified)  OBVIOUS
<1>8. Leave(thread) = [left EXCEPT !.careful = mark]  BY <1>3, <1>5, <1>7, Zenon DEF Leave
<1>9. left = ThreadOf(rest, a, failed, thrown, l, u, "running", careful, caught)
  BY <1>1, <1>6, <1>7 DEF ThreadOf
<1>10. Leave(thread) = ThreadOf(rest, a, failed, thrown, l, u, "running", mark, caught)
  BY <1>8, <1>9 DEF ThreadOf
<1>11. /\ Leave(thread).careful = mark /\ Leave(thread).caught = caught /\ Leave(thread).ended = "running"
       /\ Leave(thread).thrown = thrown /\ Leave(thread).logged = l /\ Leave(thread).unseen = u
       /\ Leave(thread).scopes = rest
  BY <1>10 DEF ThreadOf
<1>12. /\ thread.careful = careful /\ thread.caught = caught /\ thread.ended = "running"
       /\ thread.thrown = thrown /\ thread.logged = logged /\ thread.unseen = unseen /\ left.careful = careful
  BY <1>1, <1>9 DEF ThreadOf
<1>13. ASSUME mark, ~caught
       PROVE  thrown = 0 /\ l = 0 /\ u = 0 /\ \A i \in DOMAIN rest : Harmless(rest[i])
  <2>1. careful /\ scope.verified  BY <1>7, <1>12, <1>13, Zenon
  <2>2. "running" # "failed"  OBVIOUS
  <2>3. thrown = 0 /\ logged = 0 /\ unseen = 0 /\ \A i \in DOMAIN scopes : Harmless(scopes[i])
    BY <1>5, <1>12, <1>13, <2>1, <2>2, Zenon DEF Honest
  <2>4. scope.failures = 0 /\ scope.thrown = 0  BY <1>4, <2>1, <2>3, Zenon DEF Harmless
  <2>5. l = logged /\ u = unseen + scope.failures - scope.thrown  BY <1>6, <1>12, <2>1, Zenon
  <2> QED BY <1>4, <2>3, <2>4, <2>5
<1> QED BY <1>11, <1>13, Zenon DEF Honest

LEMMA RecordHonest ==
  ASSUME NEW thread, NEW n \in Nat, Whole(thread, n, "running"), Honest(thread), thread.active # <<>>
  PROVE  Honest(Record([thread EXCEPT !.failed = @ + 1]))
<1>1. PICK scopes, active, failed, thrown, logged, unseen, careful, caught :
        /\ thread = ThreadOf(scopes, active, failed, thrown, logged, unseen, "running", careful, caught)
        /\ Accounted(scopes, active, failed, thrown, logged, unseen, n)
  BY DEF Whole
<1>2. scopes \in Seq(ScopeSet) /\ Len(scopes) = n /\ Stacked(active, n)  BY <1>1, Zenon DEF Accounted, Holds
<1>3. thread.active = active /\ thread.scopes = scopes  BY <1>1 DEF ThreadOf
<1>4. PICK p : p = Last(active)  OBVIOUS
<1>5. p \in DOMAIN scopes
  <2>1. p \in 1..n  BY <1>2, <1>3, <1>4, StackSteps, Zenon
  <2> QED BY <1>2, <2>1
<1>6. PICK scope : scope = scopes[p] /\ scope \in ScopeSet  BY <1>2, <1>5
<1>7. PICK one : one = [scope EXCEPT !.failures = @ + 1]  OBVIOUS
<1>8. one.verified = scope.verified  BY <1>6, <1>7 DEF ScopeSet
<1>9. PICK now : now = [scopes EXCEPT ![p] = one]  OBVIOUS
<1>10. PICK counted, mark : /\ counted = [thread EXCEPT !.failed = @ + 1]
                            /\ mark = (careful /\ ~scope.verified)
  OBVIOUS
<1>11. counted = ThreadOf(scopes, active, failed + 1, thrown, logged, unseen, "running", careful, caught)
  BY <1>1, <1>10 DEF ThreadOf
<1>12. counted.scopes = scopes /\ counted.active = active /\ counted.careful = careful  BY <1>11 DEF ThreadOf
<1>13. PICK set : set = [counted EXCEPT !.scopes[p].failures = @ + 1]  OBVIOUS
<1>14. Record(counted) = [set EXCEPT !.careful = mark]
  BY <1>4, <1>6, <1>10, <1>12, <1>13, Zenon DEF Record
<1>15. set = [counted EXCEPT !.scopes = now]  BY <1>6, <1>7, <1>9, <1>12, <1>13
<1>16. set = ThreadOf(now, active, failed + 1, thrown, logged, unseen, "running", careful, caught)
  BY <1>11, <1>15 DEF ThreadOf
<1>17. Record(counted) = ThreadOf(now, active, failed + 1, thrown, logged, unseen, "running", mark, caught)
  BY <1>14, <1>16 DEF ThreadOf
<1>18. /\ Record(counted).careful = mark /\ Record(counted).caught = caught /\ Record(counted).ended = "running"
       /\ Record(counted).thrown = thrown /\ Record(counted).logged = logged /\ Record(counted).unseen = unseen
       /\ Record(counted).scopes = now
  BY <1>17 DEF ThreadOf
<1>19. /\ thread.careful = careful /\ thread.caught = caught /\ thread.ended = "running"
       /\ thread.thrown = thrown /\ thread.logged = logged /\ thread.unseen = unseen
  BY <1>1 DEF ThreadOf
<1>20. DOMAIN now = DOMAIN scopes /\ now[p] = one /\ \A i \in DOMAIN scopes : i # p => now[i] = scopes[i]
  BY <1>2, <1>5, <1>9
<1>21. ASSUME mark, ~caught
       PROVE  thrown = 0 /\ logged = 0 /\ unseen = 0 /\ \A i \in DOMAIN now : Harmless(now[i])
  <2>1. careful /\ ~scope.verified  BY <1>10, <1>21, Zenon
  <2>2. "running" # "failed"  OBVIOUS
  <2>3. thrown = 0 /\ logged = 0 /\ unseen = 0 /\ \A i \in DOMAIN scopes : Harmless(scopes[i])
    BY <1>3, <1>19, <1>21, <2>1, <2>2, Zenon DEF Honest
  <2>4. Harmless(one)  BY <1>8, <2>1, Zenon DEF Harmless
  <2> QED BY <1>20, <2>3, <2>4, Zenon
<1> QED BY <1>10, <1>18, <1>21, Zenon DEF Honest

LEMMA ReportHonest ==
  ASSUME NEW thread, NEW n \in Nat, Whole(thread, n, "running"), Honest(thread), NEW handler \in {Escapes} \cup 0..n
  PROVE  Honest(Report(thread, FALSE, handler)) /\ Honest(Fail(thread, handler))
<1>1. PICK counted : counted = [thread EXCEPT !.failed = @ + 1]  OBVIOUS
<1>2. /\ thread.active # <<>> => Report(thread, FALSE, handler) = Record(counted)
      /\ thread.active = <<>> => Report(thread, FALSE, handler) = Throw([counted EXCEPT !.thrown = @ + 1], handler)
  <2>1. CASE thread.active # <<>>  BY <1>1, <2>1, Zenon DEF Report
  <2>2. CASE thread.active = <<>>  BY <1>1, <2>2, Zenon DEF Report
  <2> QED BY <2>1, <2>2
<1>3. CASE thread.active = <<>>
  <2>1. Whole([counted EXCEPT !.thrown = @ + 1], n, "running")  BY <1>1, CountWhole, Zenon
  <2>2. Honest(Throw([counted EXCEPT !.thrown = @ + 1], handler))  BY <2>1, ThrowHonest, Zenon
  <2>3. Fail(thread, handler) = Report(thread, FALSE, handler)  BY <1>3, Zenon DEF Fail
  <2> QED BY <1>2, <1>3, <2>2, <2>3, Zenon
<1>4. CASE thread.active # <<>>
  <2>1. PICK recorded : recorded = Record(counted)  OBVIOUS
  <2>2. Whole(recorded, n, "running")  BY <1>1, <1>4, <2>1, RecordWhole, Zenon
  <2>3. Honest(recorded)  BY <1>1, <1>4, <2>1, RecordHonest, Zenon
  <2>4. Report(thread, FALSE, handler) = recorded  BY <1>2, <1>4, <2>1, Zenon
  <2>5. Fail(thread, handler) = Throw([recorded EXCEPT !.failed = @ + 1, !.thrown = @ + 1], handler)
    BY <1>4, <2>4, Zenon DEF Fail
  <2>6. Whole([recorded EXCEPT !.failed = @ + 1, !.thrown = @ + 1], n, "running")  BY <2>2, CountWhole, Zenon
  <2>7. Honest(Fail(thread, handler))  BY <2>5, <2>6, ThrowHonest, Zenon
  <2> QED BY <2>3, <2>4, <2>7, Zenon
<1> QED BY <1>3, <1>4

LEMMA VerifyHonest ==
  ASSUME NEW thread, NEW n \in Nat, Whole(thread, n, "running"), Honest(thread),
         NEW handler \in {Escapes} \cup 0..n, NEW place \in DOMAIN thread.scopes
  PROVE  Honest(Verify(thread, place, handler))
<1>1. CASE ~Quiet(thread.scopes[place])
  <2>1. PICK popped : Whole(popped, n, "running") /\ Verify(thread, place, handler) = Throw(popped, handler)
    BY <1>1, VerifyWhole, Zenon
  <2>2. Honest(Throw(popped, handler))  BY <2>1, ThrowHonest, Zenon
  <2> QED BY <2>1, <2>2, Zenon
<1>2. CASE Quiet(thread.scopes[place])
  <2>1. PICK scopes, active, failed, thrown, logged, unseen, careful, caught :
          /\ thread = ThreadOf(scopes, active, failed, thrown, logged, unseen, "running", careful, caught)
          /\ Accounted(scopes, active, failed, thrown, logged, unseen, n)
    BY DEF Whole
  <2>2. thread.scopes = scopes  BY <2>1 DEF ThreadOf
  <2>3. scopes \in Seq(ScopeSet) /\ place \in DOMAIN scopes  BY <2>1, <2>2, Zenon DEF Accounted, Holds
  <2>4. PICK scope, yes : scope = scopes[place] /\ scope \in ScopeSet /\ yes = TRUE  BY <2>3
  <2>5. PICK seen, now : seen = [scope EXCEPT !.verified = yes] /\ now = [scopes EXCEPT ![place] = seen]  OBVIOUS
  <2>6. PICK verified : verified = [thread EXCEPT !.scopes[place].verified = yes]  OBVIOUS
  <2>7. Verify(thread, place, handler) = verified  BY <1>2, <2>2, <2>4, <2>6, Zenon DEF Verify, Quiet
  <2>8. verified = [thread EXCEPT !.scopes = now]  BY <2>2, <2>4, <2>5, <2>6
  <2>9. verified = ThreadOf(now, active, failed, thrown, logged, unseen, "running", careful, caught)
    BY <2>1, <2>8 DEF ThreadOf
  <2>10. /\ verified.careful = thread.careful /\ verified.caught = thread.caught
         /\ verified.ended = thread.ended /\ verified.thrown = thread.thrown
         /\ verified.logged = thread.logged /\ verified.unseen = thread.unseen /\ verified.scopes = now
    BY <2>1, <2>9 DEF ThreadOf
  <2>11. /\ DOMAIN now = DOMAIN scopes /\ now[place] = seen
         /\ \A i \in DOMAIN scopes : i # place => now[i] = scopes[i]
    BY <2>3, <2>5
  <2>12. seen.failures = scope.failures /\ seen.thrown = scope.thrown  BY <2>4, <2>5 DEF ScopeSet
  <2>13. ~scope.verified => scope.thrown = 0  BY <2>4, ScopeParts, Zenon
  <2>14. Harmless(scope) => Harmless(seen)
    BY <1>2, <2>2, <2>4, <2>12, <2>13, Zenon DEF Harmless, Quiet
  <2> QED BY <2>2, <2>4, <2>7, <2>10, <2>11, <2>14, Zenon DEF Honest
<1> QED BY <1>1, <1>2

\* Whatever a body does next, it stays so.
LEMMA MovesHonest ==
  ASSUME NEW thread, Stands(thread), Honest(thread), thread.ended = "running", NEW new, Moved(thread, new)
  PROVE  Honest(new)
<1>0. PICK n \in Nat : \E how : Whole(thread, n, how)  BY DEF Stands
<1>1. PICK how : Whole(thread, n, how)  BY <1>0
<1>2. /\ Len(thread.scopes) = n /\ thread.ended = how /\ DOMAIN thread.scopes = 1..n
  BY <1>1, WholeParts, Zenon
<1>3. Whole(thread, n, "running")  BY <1>1, <1>2, Zenon
<1>4. Handlers(thread) = {Escapes} \cup 0..n  BY <1>2, Zenon DEF Handlers
<1>5. CASE new = Open(thread)  BY <1>3, <1>5, OpenHonest, Zenon
<1>6. CASE DOMAIN thread.scopes # {} /\ new = Leave(thread)
  <2>1. PICK k \in Nat : n = k + 1
    <3>1. n # 0 /\ n - 1 \in Nat /\ n = (n - 1) + 1  BY <1>2, <1>6
    <3> QED BY <3>1
  <2> QED BY <1>3, <1>6, <2>1, LeaveHonest, Zenon
<1>7. CASE new = Return(thread)
  <2>1. PICK passed : passed = "passed"  OBVIOUS
  <2>2. new = [thread EXCEPT !.ended = passed]  BY <1>7, <2>1, Zenon DEF Return
  <2>3. /\ new.careful = thread.careful /\ new.caught = thread.caught /\ new.thrown = thread.thrown
        /\ new.logged = thread.logged /\ new.unseen = thread.unseen /\ new.scopes = thread.scopes
    BY <1>3, <2>2 DEF Whole, ThreadOf
  <2>4. thread.ended # "failed"
    <3>1. "running" # "failed"  OBVIOUS
    <3> QED BY <3>1, Zenon
  <2> QED BY <2>3, <2>4, Zenon DEF Honest
<1>8. CASE \E place \in DOMAIN thread.scopes, handler \in Handlers(thread) : new = Verify(thread, place, handler)
  BY <1>3, <1>4, <1>8, VerifyHonest, Zenon
<1>9. CASE \E handler \in Handlers(thread) : new = Report(thread, FALSE, handler)
  BY <1>3, <1>4, <1>9, ReportHonest, Zenon
<1>10. CASE \E handler \in Handlers(thread) : new = Fail(thread, handler)
  BY <1>3, <1>4, <1>10, ReportHonest, Zenon
<1> QED BY <1>5, <1>6, <1>7, <1>8, <1>9, <1>10, Zenon DEF Moved

-----------------------------------------------------------------------------
(* Generated tests.                                                        *)

\* A generated test under its only scope, which has recorded k failures.
Checking(thread, k) ==
  /\ k \in Nat
  /\ \E failed, thrown, logged, unseen, careful, caught :
       /\ failed \in Int /\ thrown \in Int /\ logged \in Int /\ unseen \in Int
       /\ failed = thrown + logged + unseen + k
       /\ thread = ThreadOf(<<[failures |-> k, verified |-> FALSE, thrown |-> 0]>>, <<1>>,
                            failed, thrown, logged, unseen, "running", careful, caught)

LEMMA CheckingWhole ==
  ASSUME NEW thread, NEW k, Checking(thread, k)
  PROVE  /\ Whole(thread, 1, "running") /\ thread.active # <<>> /\ 1 \in DOMAIN thread.scopes
         /\ thread.ended = "running"
         /\ Quiet(thread.scopes[1]) <=> k = 0
<1>1. PICK failed, thrown, logged, unseen, careful, caught :
        /\ failed \in Int /\ thrown \in Int /\ logged \in Int /\ unseen \in Int
        /\ failed = thrown + logged + unseen + k
        /\ thread = ThreadOf(<<[failures |-> k, verified |-> FALSE, thrown |-> 0]>>, <<1>>,
                             failed, thrown, logged, unseen, "running", careful, caught)
  BY DEF Checking
<1>2. k \in Nat  BY DEF Checking
<1>3. PICK scope : scope = [failures |-> k, verified |-> FALSE, thrown |-> 0]  OBVIOUS
<1>4. scope \in ScopeSet /\ Waiting(scope) = k
  <2>1. k \in Int /\ 0 \in Int /\ k - 0 = k  BY <1>2
  <2> QED BY <1>3, <2>1, MadeScope, Zenon
<1>5. PICK scopes : scopes = <<scope>>  OBVIOUS
<1>6. thread = ThreadOf(scopes, <<1>>, failed, thrown, logged, unseen, "running", careful, caught)  BY <1>1, <1>3, <1>5, Zenon
<1>7. scopes = Append(<<>>, scope) /\ Len(scopes) = 1 /\ scopes[1] = scope  BY <1>5
<1>8. Holds(scopes, 0 + Waiting(scope))  BY <1>4, <1>7, HoldsNothing, HoldsMore, Zenon
<1>9. 0 + Waiting(scope) = k  BY <1>2, <1>4
<1>10. Stacked(<<1>>, 1)
  <2>1. <<1>> \in Seq(1..1) /\ DOMAIN <<1>> = 1..1  OBVIOUS
  <2>2. \A i, j \in 1..1 : ~(i < j)  OBVIOUS
  <2> QED BY <2>1, <2>2, Zenon DEF Stacked
<1>11. Accounted(scopes, <<1>>, failed, thrown, logged, unseen, 1)
  BY <1>1, <1>7, <1>8, <1>9, <1>10, Zenon DEF Accounted
<1>12. Whole(thread, 1, "running")  BY <1>6, <1>11, Zenon DEF Whole
<1>13. thread.active = <<1>> /\ thread.scopes = scopes /\ thread.ended = "running"  BY <1>6 DEF ThreadOf
<1>14. <<1>> # <<>> /\ 1 \in DOMAIN scopes  BY <1>5
<1>15. Quiet(scope) <=> k = 0
  <2>1. scope.verified = FALSE /\ scope.failures = k  BY <1>3, Zenon
  <2> QED BY <2>1, Zenon DEF Quiet
<1> QED BY <1>7, <1>12, <1>13, <1>14, <1>15, Zenon

\* A check under the scope throws nothing: it is recorded.
LEMMA ReportChecks ==
  ASSUME NEW thread, NEW k, Checking(thread, k), NEW succeeded
  PROVE  /\ succeeded => Report(thread, succeeded, Escapes) = thread
         /\ ~succeeded => Checking(Report(thread, succeeded, Escapes), k + 1)
<1>1. succeeded => Report(thread, succeeded, Escapes) = thread  BY Zenon DEF Report
<1>2. ASSUME ~succeeded PROVE Checking(Report(thread, succeeded, Escapes), k + 1)
  <2>1. PICK failed, thrown, logged, unseen, careful, caught :
          /\ failed \in Int /\ thrown \in Int /\ logged \in Int /\ unseen \in Int
          /\ failed = thrown + logged + unseen + k
          /\ thread = ThreadOf(<<[failures |-> k, verified |-> FALSE, thrown |-> 0]>>, <<1>>,
                               failed, thrown, logged, unseen, "running", careful, caught)
    BY DEF Checking
  <2>2. k \in Nat  BY DEF Checking
  <2>3. PICK no : no = FALSE  OBVIOUS
  <2>4. PICK scope, more : /\ scope = [failures |-> k, verified |-> no, thrown |-> 0]
                           /\ more = [failures |-> k + 1, verified |-> no, thrown |-> 0]
    OBVIOUS
  <2>5. thread = ThreadOf(<<scope>>, <<1>>, failed, thrown, logged, unseen, "running", careful, caught)
    BY <2>1, <2>3, <2>4, Zenon
  <2>6. PICK counted : counted = [thread EXCEPT !.failed = @ + 1]  OBVIOUS
  <2>7. counted = ThreadOf(<<scope>>, <<1>>, failed + 1, thrown, logged, unseen, "running", careful, caught)
    BY <2>5, <2>6 DEF ThreadOf
  <2>8. thread.active # <<>>  BY CheckingWhole
  <2>9. Report(thread, succeeded, Escapes) = Record(counted)  BY <1>2, <2>6, <2>8, Zenon DEF Report
  <2>10. \E mark : Record(counted)
                      = ThreadOf(<<more>>, <<1>>, failed + 1, thrown, logged, unseen, "running", mark, caught)
    <3>1. counted.scopes = <<scope>> /\ counted.active = <<1>>  BY <2>7 DEF ThreadOf
    <3>2. Last(<<1>>) = 1  BY DEF Last
    <3>a. PICK mark : mark = (counted.careful /\ ~counted.scopes[1].verified)  OBVIOUS
    <3>b. PICK set : set = [counted EXCEPT !.scopes[1].failures = @ + 1]  OBVIOUS
    <3>3. Record(counted) = [set EXCEPT !.careful = mark]
      BY <3>1, <3>2, <3>a, <3>b, Zenon DEF Record
    <3>4. [scope EXCEPT !.failures = @ + 1] = more  BY <2>4
    <3>5. [<<scope>> EXCEPT ![1] = more] = <<more>>  OBVIOUS
    <3>6. <<scope>>[1] = scope  OBVIOUS
    <3>7. PICK before, after : before = <<scope>> /\ after = <<more>>  OBVIOUS
    <3>8. set = [counted EXCEPT !.scopes = after]
      <4>1. counted.scopes = before /\ before[1] = scope /\ [before EXCEPT ![1] = more] = after
        BY <3>1, <3>5, <3>6, <3>7
      <4> QED BY <3>b, <3>4, <4>1
    <3>9. counted = ThreadOf(before, <<1>>, failed + 1, thrown, logged, unseen, "running", careful, caught)  BY <2>7, <3>7
    <3>10. set = ThreadOf(after, <<1>>, failed + 1, thrown, logged, unseen, "running", careful, caught)
      BY <3>8, <3>9 DEF ThreadOf
    <3>11. [set EXCEPT !.careful = mark]
             = ThreadOf(after, <<1>>, failed + 1, thrown, logged, unseen, "running", mark, caught)
      BY <3>10 DEF ThreadOf
    <3> QED BY <3>3, <3>7, <3>11, Zenon
  <2>11. failed + 1 \in Int /\ k + 1 \in Nat /\ failed + 1 = thrown + logged + unseen + (k + 1)  BY <2>1, <2>2
  <2> QED BY <2>1, <2>3, <2>4, <2>9, <2>10, <2>11, Zenon DEF Checking
<1> QED BY <1>1, <1>2, Zenon

LEMMA OpenChecks == Checking(Open(NewThread), 0)
<1>1. PICK no : no = FALSE  OBVIOUS
<1>2. PICK scope : scope = [failures |-> 0, verified |-> no, thrown |-> 0]  OBVIOUS
<1>3. NewScope = scope  BY <1>1, <1>2, Zenon DEF NewScope
<1>4. NewThread = ThreadOf(<<>>, <<>>, 0, 0, 0, 0, "running", TRUE, FALSE)  BY Zenon DEF NewThread, ThreadOf
<1>5. PICK thread, yes : thread = NewThread /\ yes = TRUE  OBVIOUS
<1>a. thread = ThreadOf(<<>>, <<>>, 0, 0, 0, 0, "running", yes, no)  BY <1>1, <1>4, <1>5, Zenon
<1>6. thread.scopes = <<>> /\ thread.active = <<>>  BY <1>a DEF ThreadOf
<1>7. Open(thread) = [thread EXCEPT !.scopes = Append(<<>>, scope), !.active = Append(<<>>, 0 + 1)]
  <2>1. Len(<<>>) = 0  OBVIOUS
  <2> QED BY <1>3, <1>6, <2>1, Zenon DEF Open
<1>8. Append(<<>>, scope) = <<scope>> /\ Append(<<>>, 0 + 1) = <<1>>  OBVIOUS
<1>9. Open(thread) = ThreadOf(<<scope>>, <<1>>, 0, 0, 0, 0, "running", yes, no)
  <2>1. PICK one, in : one = <<scope>> /\ in = <<1>>  OBVIOUS
  <2>2. Open(thread) = [thread EXCEPT !.scopes = one, !.active = in]  BY <1>7, <1>8, <2>1, Zenon
  <2>3. Open(thread) = ThreadOf(one, in, 0, 0, 0, 0, "running", yes, no)  BY <1>a, <2>2 DEF ThreadOf
  <2> QED BY <2>1, <2>3
<1>10. 0 \in Int /\ 0 \in Nat /\ 0 = 0 + 0 + 0 + 0  OBVIOUS
<1> QED BY <1>1, <1>2, <1>5, <1>9, <1>10, Zenon DEF Checking

\* One assertion of a generated test.
CheckOne(thread, assertion, response) ==
  IF thread.ended # "running" THEN thread
  ELSE IF NeedsDocument(assertion) /\ response.json = "invalid"
    THEN Throw([thread EXCEPT !.failed = @ + 1, !.thrown = @ + 1], Escapes)
  ELSE Report(thread, Evaluate(assertion, response), Escapes)

Checks(f, first, assertions, response, n) ==
  f = [i \in 0..n |-> IF i = 0 THEN first ELSE CheckOne(f[i - 1], assertions[i], response)]

LEMMA CheckingExists ==
  ASSUME NEW first, NEW assertions, NEW response, NEW m \in Nat
  PROVE  \E f : Checks(f, first, assertions, response, m)
<1> DEFINE D == {n \in Nat : \E f : Checks(f, first, assertions, response, n)}
<1>1. 0 \in D
  <2>1. PICK f : f = [i \in 0..0 |-> first]  OBVIOUS
  <2>2. f = [i \in 0..0 |-> IF i = 0 THEN first ELSE CheckOne(f[i - 1], assertions[i], response)]  BY <2>1
  <2>3. Checks(f, first, assertions, response, 0)  BY <2>2, Zenon DEF Checks
  <2> QED BY <2>3
<1>2. ASSUME NEW n \in Nat, n \in D PROVE n + 1 \in D
  <2>1. PICK f : Checks(f, first, assertions, response, n)  BY <1>2
  <2>2. f = [i \in 0..n |-> IF i = 0 THEN first ELSE CheckOne(f[i - 1], assertions[i], response)]
    BY <2>1, Zenon DEF Checks
  <2>3. PICK g : g = [i \in 0..(n + 1) |-> IF i <= n THEN f[i] ELSE CheckOne(f[n], assertions[i], response)]
    OBVIOUS
  <2>4. \A i \in 0..n : g[i] = f[i]  BY <2>3
  <2>5. ASSUME NEW i \in 0..(n + 1)
        PROVE  g[i] = IF i = 0 THEN first ELSE CheckOne(g[i - 1], assertions[i], response)
    <3>1. CASE i = 0
      <4>1. g[0] = f[0] /\ f[0] = first  BY <2>2, <2>4
      <4> QED BY <3>1, <4>1
    <3>2. CASE i \in 1..n
      <4>1. i \in 0..n /\ i - 1 \in 0..n /\ i # 0  BY <3>2
      <4>2. f[i] = CheckOne(f[i - 1], assertions[i], response)  BY <2>2, <4>1
      <4> QED BY <2>4, <4>1, <4>2
    <3>3. CASE i = n + 1
      <4>1. ~(i <= n) /\ i # 0 /\ i - 1 = n /\ n \in 0..n  BY <3>3
      <4>2. g[i] = CheckOne(f[n], assertions[i], response)  BY <2>3, <4>1
      <4> QED BY <2>4, <4>1, <4>2
    <3> QED BY <3>1, <3>2, <3>3
  <2>6. g = [i \in 0..(n + 1) |-> IF i = 0 THEN first ELSE CheckOne(g[i - 1], assertions[i], response)]
    <3>1. g = [i \in 0..(n + 1) |-> g[i]]  BY <2>3
    <3> QED BY <2>5, <3>1, Zenon
  <2>7. Checks(g, first, assertions, response, n + 1)  BY <2>6, Zenon DEF Checks
  <2> QED BY <2>7
<1> HIDE DEF D
<1>3. m \in D  BY <1>1, <1>2, SetInduction
<1> QED BY <1>3 DEF D

\* What is asserted up to the i-th assertion.
Asserted(spec, response, i) ==
  /\ StatusAccepted(spec, response) /\ (spec.budget > 0 => response.elapsed <= spec.budget)
  /\ \A j \in 1..i : Evaluate(spec.assertions[j], response)

\* The test goes on with a clean record, or with failures, or has been left.
Reached(thread, spec, response, i) ==
  \/ thread.ended = "failed" /\ ~Asserted(spec, response, i)
  \/ \E k : Checking(thread, k) /\ (k = 0 <=> Asserted(spec, response, i))

\* A body that is no JSON has no fields.
LEMMA NoDocument ==
  ASSUME NEW assertion, NEW response, NeedsDocument(assertion), response.fields = <<>>
  PROVE  ~Evaluate(assertion, response)
<1>1. assertion.kind = "json_field_exists" \/ assertion.kind = "json_field_equals"  BY DEF NeedsDocument
<1>2. \A target : target \notin DOMAIN response.fields  OBVIOUS
<1>3. CASE assertion.kind = "json_field_exists"
  <2>1. Evaluate(assertion, response) <=> JsonHasField(response.fields, assertion.target)  BY <1>3 DEF Evaluate
  <2> QED BY <1>2, <2>1 DEF JsonHasField
<1>4. CASE assertion.kind = "json_field_equals"
  <2>1. Evaluate(assertion, response) <=> JsonFieldEquals(response.fields, assertion.target, assertion.expected)
    BY <1>4 DEF Evaluate
  <2> QED BY <1>2, <2>1 DEF JsonFieldEquals
<1> QED BY <1>1, <1>3, <1>4

\* An exception out of the test leaves it failed.
LEMMA EscapeFails ==
  ASSUME NEW thread, Whole(thread, 1, "running") PROVE Throw(thread, Escapes).ended = "failed"
<1>1. Escapes \in {Escapes} \cup 0..1 /\ 1 \in Nat  OBVIOUS
<1>2. Whole(Throw(thread, Escapes), DepthOf(Escapes), EndOf(Escapes, "running"))  BY <1>1, ThrowWhole, Zenon
<1>3. EndOf(Escapes, "running") = "failed"  BY Zenon DEF EndOf
<1> QED BY <1>2, <1>3, WholeParts, Zenon

LEMMA CheckOneReaches ==
  ASSUME NEW thread, NEW spec, NEW response, response.json = "invalid" => response.fields = <<>>,
         NEW i \in Nat, Reached(thread, spec, response, i)
  PROVE  Reached(CheckOne(thread, spec.assertions[i + 1], response), spec, response, i + 1)
<1>1. PICK a : a = spec.assertions[i + 1]  OBVIOUS
<1>2. Asserted(spec, response, i + 1) <=> Asserted(spec, response, i) /\ Evaluate(a, response)
  <2>1. \A j \in 1..(i + 1) : j \in 1..i \/ j = i + 1  OBVIOUS
  <2>2. i + 1 \in 1..(i + 1) /\ \A j \in 1..i : j \in 1..(i + 1)  OBVIOUS
  <2> QED BY <1>1, <2>1, <2>2, Zenon DEF Asserted
<1>3. CASE thread.ended = "failed" /\ ~Asserted(spec, response, i)
  <2>1. "failed" # "running"  OBVIOUS
  <2>2. CheckOne(thread, a, response) = thread  BY <1>3, <2>1, Zenon DEF CheckOne
  <2> QED BY <1>1, <1>2, <1>3, <2>2, Zenon DEF Reached
<1>4. ASSUME NEW k, Checking(thread, k), k = 0 <=> Asserted(spec, response, i)
      PROVE  Reached(CheckOne(thread, a, response), spec, response, i + 1)
  <2>1. Whole(thread, 1, "running") /\ thread.ended = "running"  BY <1>4, CheckingWhole, Zenon
  <2>2. CASE NeedsDocument(a) /\ response.json = "invalid"
    <3>1. PICK counted : counted = [thread EXCEPT !.failed = @ + 1, !.thrown = @ + 1]  OBVIOUS
    <3>2. CheckOne(thread, a, response) = Throw(counted, Escapes)  BY <2>1, <2>2, <3>1, Zenon DEF CheckOne
    <3>3. Whole(counted, 1, "running")  BY <2>1, <3>1, CountWhole, Zenon
    <3>4. CheckOne(thread, a, response).ended = "failed"
      <4>1. Throw(counted, Escapes).ended = "failed"  BY <3>3, EscapeFails, Zenon
      <4> QED BY <3>2, <4>1, Zenon
    <3>5. ~Evaluate(a, response)  BY <2>2, NoDocument, Zenon
    <3> QED BY <1>2, <3>4, <3>5, Zenon DEF Reached
  <2>3. CASE ~(NeedsDocument(a) /\ response.json = "invalid")
    <3>1. CheckOne(thread, a, response) = Report(thread, Evaluate(a, response), Escapes)
      BY <2>1, <2>3, Zenon DEF CheckOne
    <3>2. CASE Evaluate(a, response)
      <4>1. Report(thread, Evaluate(a, response), Escapes) = thread  BY <1>4, <3>2, ReportChecks, Zenon
      <4>2. Checking(CheckOne(thread, a, response), k)  BY <1>4, <3>1, <4>1, Zenon
      <4> QED BY <1>2, <1>4, <3>2, <4>2, Zenon DEF Reached
    <3>3. CASE ~Evaluate(a, response)
      <4>1. Checking(Report(thread, Evaluate(a, response), Escapes), k + 1)  BY <1>4, <3>3, ReportChecks, Zenon
      <4>2. k + 1 # 0
        <5>1. k \in Nat  BY <1>4 DEF Checking
        <5> QED BY <5>1
      <4> QED BY <1>2, <3>1, <3>3, <4>1, <4>2, Zenon DEF Reached
    <3> QED BY <3>2, <3>3
  <2> QED BY <2>2, <2>3
<1> QED BY <1>1, <1>3, <1>4, Zenon DEF Reached

\* The status and the latency come first.
LEMMA FirstChecks ==
  ASSUME NEW spec, NEW response, NEW status, NEW latency,
         status = Report(Open(NewThread), StatusAccepted(spec, response), Escapes),
         latency = Report(status, spec.budget > 0 => ResponseTime(response.elapsed, spec.budget), Escapes)
  PROVE  Reached(latency, spec, response, 0)
<1>1. PICK k : Checking(status, k) /\ (k = 0 <=> StatusAccepted(spec, response))
  <2>1. CASE StatusAccepted(spec, response)
    <3>1. status = Open(NewThread)  BY <2>1, OpenChecks, ReportChecks, Zenon
    <3> QED BY <2>1, <3>1, OpenChecks, Zenon
  <2>2. CASE ~StatusAccepted(spec, response)
    <3>1. Checking(status, 0 + 1)  BY <2>2, OpenChecks, ReportChecks, Zenon
    <3>2. 0 + 1 # 0  OBVIOUS
    <3> QED BY <2>2, <3>1, <3>2, Zenon
  <2> QED BY <2>1, <2>2
<1>2. (spec.budget > 0 => ResponseTime(response.elapsed, spec.budget))
        <=> (spec.budget > 0 => response.elapsed <= spec.budget)
  BY Zenon DEF ResponseTime
<1>3. \A j \in 1..0 : FALSE  OBVIOUS
<1>4. Asserted(spec, response, 0) <=>
        StatusAccepted(spec, response) /\ (spec.budget > 0 => ResponseTime(response.elapsed, spec.budget))
  BY <1>2, <1>3, Zenon DEF Asserted
<1>5. CASE spec.budget > 0 => ResponseTime(response.elapsed, spec.budget)
  <2>1. latency = status  BY <1>1, <1>5, ReportChecks, Zenon
  <2> QED BY <1>1, <1>4, <1>5, <2>1, Zenon DEF Reached
<1>6. CASE ~(spec.budget > 0 => ResponseTime(response.elapsed, spec.budget))
  <2>1. Checking(latency, k + 1)  BY <1>1, <1>6, ReportChecks, Zenon
  <2>2. k + 1 # 0
    <3>1. k \in Nat  BY <1>1 DEF Checking
    <3> QED BY <3>1
  <2> QED BY <1>4, <1>6, <2>1, <2>2, Zenon DEF Reached
<1> QED BY <1>5, <1>6, Zenon

\* How the test is left.
Left(checked) ==
  LET verified == IF checked.ended = "running" THEN Verify(checked, 1, Escapes) ELSE checked
  IN IF verified.ended = "running" THEN Return(Leave(verified)) ELSE verified

LEMMA LastCheck ==
  ASSUME NEW checked, NEW spec, NEW response, NEW n, Reached(checked, spec, response, n)
  PROVE  Left(checked).ended = "passed" <=> Asserted(spec, response, n)
<1> DEFINE verified == IF checked.ended = "running" THEN Verify(checked, 1, Escapes) ELSE checked
           result == IF verified.ended = "running" THEN Return(Leave(verified)) ELSE verified
<1>3. Left(checked) = result  BY DEF Left
<1>4. (checked.ended = "running" => verified = Verify(checked, 1, Escapes))
      /\ (checked.ended # "running" => verified = checked)
  BY Zenon
<1> HIDE DEF verified
<1>5. (verified.ended = "running" => result = Return(Leave(verified)))
      /\ (verified.ended # "running" => result = verified)
  BY Zenon
<1> HIDE DEF result
<1>1. CASE checked.ended = "failed" /\ ~Asserted(spec, response, n)
  <2>1. "failed" # "running" /\ "failed" # "passed"  OBVIOUS
  <2>2. verified = checked /\ result = checked  BY <1>1, <1>4, <1>5, <2>1, Zenon
  <2> QED BY <1>1, <1>3, <2>1, <2>2, Zenon
<1>2. ASSUME NEW k, Checking(checked, k), k = 0 <=> Asserted(spec, response, n)
      PROVE  result.ended = "passed" <=> Asserted(spec, response, n)
  <2>1. /\ Whole(checked, 1, "running") /\ checked.ended = "running" /\ 1 \in DOMAIN checked.scopes
        /\ Quiet(checked.scopes[1]) <=> k = 0
    BY <1>2, CheckingWhole, Zenon
  <2>2. verified = Verify(checked, 1, Escapes)  BY <1>4, <2>1, Zenon
  <2>3. CASE k = 0
    <3>1. 1 \in Nat /\ 1 = 0 + 1 /\ 0 \in Nat  OBVIOUS
    <3>2. Whole(verified, 0 + 1, "running")  BY <2>1, <2>2, <2>3, <3>1, VerifyWhole, Zenon
    <3>3. verified.ended = "running"  BY <3>2, WholeParts, Zenon
    <3>4. Whole(Leave(verified), 0, "running")  BY <3>1, <3>2, LeaveWhole, Zenon
    <3>5. Whole(Return(Leave(verified)), 0, "passed")  BY <3>4, EndedWhole, Zenon DEF Return
    <3>6. result.ended = "passed"
      <4>1. Return(Leave(verified)).ended = "passed"  BY <3>5, WholeParts, Zenon
      <4> QED BY <1>5, <3>3, <4>1, Zenon
    <3> QED BY <1>2, <2>3, <3>6, Zenon
  <2>4. CASE k # 0
    <3>1. 1 \in Nat  OBVIOUS
    <3>2. PICK popped : Whole(popped, 1, "running") /\ verified = Throw(popped, Escapes)
      <4>1. ~Quiet(checked.scopes[1])  BY <2>1, <2>4, Zenon
      <4>2. \E popped : Whole(popped, 1, "running") /\ Verify(checked, 1, Escapes) = Throw(popped, Escapes)
        BY <2>1, <3>1, <4>1, VerifyWhole, Zenon
      <4> QED BY <2>2, <4>2, Zenon
    <3>3. verified.ended = "failed"
      <4>1. Throw(popped, Escapes).ended = "failed"  BY <3>2, EscapeFails, Zenon
      <4> QED BY <3>2, <4>1, Zenon
    <3>4. "failed" # "running" /\ "failed" # "passed"  OBVIOUS
    <3>5. result = verified  BY <1>5, <3>3, <3>4, Zenon
    <3> QED BY <1>2, <2>4, <3>3, <3>4, <3>5, Zenon
  <2> QED BY <2>3, <2>4
<1> QED BY <1>1, <1>2, <1>3, Zenon DEF Reached

\* A generated test passes exactly when its status, its latency and each of its
\* assertions hold, for any number of assertions and any response: neither the
\* scope nor the exception of a body that is no JSON loses one.
THEOREM SpecTestDecides ==
  ASSUME NEW spec, NEW response, Len(spec.assertions) \in Nat,
         response.json = "invalid" => response.fields = <<>>
  PROVE  ExecuteSpec(spec, response).ended = "passed" <=> Asserted(spec, response, Len(spec.assertions))
<1> DEFINE status == Report(Open(NewThread), StatusAccepted(spec, response), Escapes)
           latency == Report(status, spec.budget > 0 => ResponseTime(response.elapsed, spec.budget), Escapes)
           after == CHOOSE f : Checks(f, latency, spec.assertions, response, Len(spec.assertions))
           checked == after[Len(spec.assertions)]
           verified == IF checked.ended = "running" THEN Verify(checked, 1, Escapes) ELSE checked
           result == IF verified.ended = "running" THEN Return(Leave(verified)) ELSE verified
<1>1. ExecuteSpec(spec, response) = result  BY DEF ExecuteSpec, Checks, CheckOne
<1>2. Reached(latency, spec, response, 0)  BY FirstChecks, Zenon
<1> HIDE DEF status, latency
<1>3. PICK n \in Nat : n = Len(spec.assertions)  OBVIOUS
<1>4. Checks(after, latency, spec.assertions, response, Len(spec.assertions))
  <2>1. \E f : Checks(f, latency, spec.assertions, response, Len(spec.assertions))  BY CheckingExists, Zenon
  <2> QED BY <2>1, Zenon
<1> HIDE DEF after
<1>5. after = [i \in 0..n |-> IF i = 0 THEN latency ELSE CheckOne(after[i - 1], spec.assertions[i], response)]
  BY <1>3, <1>4, Zenon DEF Checks
<1>6. \A i \in 0..n : after[i] = IF i = 0 THEN latency ELSE CheckOne(after[i - 1], spec.assertions[i], response)
  BY <1>5, Zenon
<1> DEFINE D == {i \in Nat : i <= n => Reached(after[i], spec, response, i)}
<1>7. 0 \in D
  <2>1. after[0] = latency  BY <1>6
  <2> QED BY <1>2, <2>1
<1>8. ASSUME NEW i \in Nat, i \in D PROVE i + 1 \in D
  <2> SUFFICES ASSUME i + 1 <= n PROVE Reached(after[i + 1], spec, response, i + 1)  OBVIOUS
  <2>1. i <= n /\ i + 1 \in 0..n /\ i + 1 # 0 /\ (i + 1) - 1 = i  OBVIOUS
  <2>2. Reached(after[i], spec, response, i)  BY <1>8, <2>1
  <2>3. after[i + 1] = CheckOne(after[i], spec.assertions[i + 1], response)  BY <1>6, <2>1
  <2> QED BY <2>2, <2>3, CheckOneReaches, Zenon
<1> HIDE DEF D
<1>9. n \in D  BY <1>7, <1>8, SetInduction
<1>10. Reached(checked, spec, response, Len(spec.assertions))  BY <1>3, <1>9 DEF D
<1>11. result = Left(checked)  BY DEF Left
<1> HIDE DEF checked, verified, result
<1>12. Left(checked).ended = "passed" <=> Asserted(spec, response, Len(spec.assertions))
  BY <1>10, LastCheck, Zenon
<1> QED BY <1>1, <1>11, <1>12, Zenon

\* The invariant that carries it through a body: how many scopes are open, what
\* they hold, that a body that has ended has none, and that nothing is lost to an
\* honest one.
BodyInv == IsItem /\ (Is("body") => Stands(item.thread) /\ Honest(item.thread))

\* However scopes are nested, verified and unwound, no test is left with a scope
\* on the stack, each failed check is thrown, held, logged or recorded after
\* verify(), and a body that ends each scope with verify() and catches nothing
\* passes only if none failed.
THEOREM AlwaysAccounted == DecisionsSpec => []NoVerdictLost
<1>1. DecisionsInit => BodyInv
  <2> SUFFICES ASSUME DecisionsInit PROVE BodyInv  OBVIOUS
  <2>1. IsItem  BY DEF IsItem
  <2>2. ASSUME Is("body") PROVE Stands(item.thread) /\ Honest(item.thread)
    <3>1. item = [topic |-> "body", thread |-> NewThread]
      <4>1. PICK topic : topic = item.topic  OBVIOUS
      <4>2. \A t : Is(t) <=> topic = t  BY <4>1 DEF Is
      <4> QED BY <2>2, <4>2, Topics DEF DecisionsInit
    <3>2. item.thread = NewThread  BY <3>1, Zenon
    <3>3. NewThread = ThreadOf(<<>>, <<>>, 0, 0, 0, 0, "running", TRUE, FALSE)  BY Zenon DEF NewThread, ThreadOf
    <3>4. Stacked(<<>>, 0)
      <4>1. <<>> \in Seq(1..0) /\ DOMAIN <<>> = {}  OBVIOUS
      <4> QED BY <4>1, Zenon DEF Stacked
    <3>5. 0 \in Int /\ 0 \in Nat /\ 0 = 0 + 0 + 0 + 0 /\ Len(<<>>) = 0  OBVIOUS
    <3>6. Accounted(<<>>, <<>>, 0, 0, 0, 0, 0)  BY <3>4, <3>5, HoldsNothing, Zenon DEF Accounted
    <3>7. Whole(NewThread, 0, "running")  BY <3>3, <3>6, Zenon DEF Whole
    <3>8. Honest(NewThread)
      <4>1. PICK thread, yes, no, empty : thread = NewThread /\ yes = TRUE /\ no = FALSE /\ empty = <<>>  OBVIOUS
      <4>2. thread = ThreadOf(empty, empty, 0, 0, 0, 0, "running", yes, no)  BY <3>3, <4>1, Zenon
      <4>3. thread.thrown = 0 /\ thread.logged = 0 /\ thread.unseen = 0 /\ thread.scopes = empty
        BY <4>2 DEF ThreadOf
      <4>4. \A i \in DOMAIN empty : FALSE  BY <4>1
      <4> QED BY <4>1, <4>3, <4>4, Zenon DEF Honest
    <3> QED BY <3>2, <3>5, <3>7, <3>8, Zenon DEF Stands
  <2> QED BY <2>1, <2>2 DEF BodyInv
<1>2. BodyInv /\ IsItem' /\ [BodyStep]_item => BodyInv'
  <2> SUFFICES ASSUME BodyInv, IsItem', [BodyStep]_item PROVE BodyInv'  OBVIOUS
  <2>1. CASE BodyStep
    <3>1. Is("body") /\ item.thread.ended = "running"  BY <2>1 DEF BodyStep
    <3>2. PICK new \in Moves(item.thread) : item' = [item EXCEPT !.thread = new]  BY <2>1 DEF BodyStep
    <3>3. \E thread : item = [topic |-> "body", thread |-> thread]  BY <3>1, ItemOf DEF BodyInv
    <3>4. item'.thread = new  BY <3>2, <3>3
    <3>5. Moved(item.thread, new)  BY <3>2, MovesAre
    <3>6. Stands(new) /\ Honest(new)  BY <3>1, <3>5, MovesStand, MovesHonest, Zenon DEF BodyInv
    <3> QED BY <3>4, <3>6, Zenon DEF BodyInv, Stands, Honest
  <2>2. CASE UNCHANGED item
    <3>1. item' = item  BY <2>2
    <3>2. Is("body")' <=> Is("body")  BY <3>1 DEF Is
    <3> QED BY <3>1, <3>2, Zenon DEF BodyInv, Stands, Honest
  <2> QED BY <2>1, <2>2
<1>3. BodyInv => NoVerdictLost
  <2> SUFFICES ASSUME BodyInv PROVE NoVerdictLost  OBVIOUS
  <2>1. ASSUME Is("body")
        PROVE  /\ \A i \in DOMAIN item.thread.active : item.thread.active[i] \in DOMAIN item.thread.scopes
               /\ item.thread.ended # "running" => item.thread.active = <<>>
               /\ item.thread.failed = item.thread.thrown + item.thread.logged + item.thread.unseen + Held(item.thread)
               /\ item.thread.careful /\ ~item.thread.caught /\ item.thread.ended = "passed" => item.thread.failed = 0
    <3>1. PICK thread : thread = item.thread  OBVIOUS
    <3>2. PICK n, how : n \in Nat /\ Whole(thread, n, how) /\ (how # "running" => n = 0)
      BY <2>1, <3>1, Zenon DEF BodyInv, Stands
    <3>3. /\ thread.ended = how /\ Stacked(thread.active, n) /\ DOMAIN thread.scopes = 1..n
          /\ thread.failed = thread.thrown + thread.logged + thread.unseen + Held(thread)
      BY <3>2, WholeParts, Zenon
    <3>4. PICK active : active = thread.active  OBVIOUS
    <3>5. active \in Seq(1..n)  BY <3>3, <3>4 DEF Stacked
    <3>6. \A i \in DOMAIN active : active[i] \in 1..n
      <4>1. PICK S : S = 1..n  OBVIOUS
      <4>2. active \in Seq(S)  BY <3>5, <4>1, Zenon
      <4>3. \A i \in DOMAIN active : active[i] \in S  BY <4>2
      <4> QED BY <4>1, <4>3, Zenon
    <3>7. n = 0 => active = <<>>
      <4>1. n = 0 => 1..n = {}  OBVIOUS
      <4>2. active # <<>> => active[1] \in 1..n
        <5>1. active # <<>> => 1 \in DOMAIN active
          <6>1. PICK S : S = 1..n  OBVIOUS
          <6>2. active \in Seq(S)  BY <3>5, <6>1, Zenon
          <6> QED BY <6>2
        <5> QED BY <3>6, <5>1, Zenon
      <4> QED BY <4>1, <4>2
    <3>8. ASSUME thread.careful, ~thread.caught, thread.ended = "passed" PROVE thread.failed = 0
      <4>1. "passed" # "running" /\ "passed" # "failed"  OBVIOUS
      <4>2. thread.thrown = 0 /\ thread.logged = 0 /\ thread.unseen = 0
        BY <2>1, <3>1, <3>8, <4>1, Zenon DEF BodyInv, Honest
      <4>3. n = 0  BY <3>2, <3>3, <3>8, <4>1, Zenon
      <4>4. Held(thread) = 0
        <5>1. thread.scopes \in Seq(ScopeSet) /\ Len(thread.scopes) = 0  BY <3>2, <4>3, WholeParts, Zenon
        <5>2. thread.scopes = <<>>  BY <5>1
        <5> QED BY <5>2, HoldsNothing, HeldIs, Zenon
      <4> QED BY <3>3, <4>2, <4>4
    <3> QED BY <3>1, <3>2, <3>3, <3>4, <3>6, <3>7, <3>8, Zenon
  <2>2. ASSUME Is("response")
        PROVE  /\ (ExecuteSpec(item.spec, item.response).ended = "passed"
                     <=> Asserted(item.spec, item.response, Len(item.spec.assertions)))
               /\ Len(item.spec.assertions) \in Nat /\ DOMAIN item.spec.assertions = 1..Len(item.spec.assertions)
    <3>1. item \in ResponseItems  BY <2>2, ItemOf DEF BodyInv
    <3> DEFINE K == {<<>>, <<"json_field_exists">>, <<"status_code", "json_field_equals">>,
                     <<"header_equals", "header_exists">>, <<"body_contains", "response_time_under_ms">>}
               specs == {SpecOf(acceptable, budget, kinds) : acceptable \in {{}, {200, 500}}, budget \in {0, 1}, kinds \in K}
               responses == {ResponseOf(status, json, has, elapsed) : status \in {200, 500},
                               json \in {"object", "empty", "invalid"}, has \in BOOLEAN, elapsed \in 1..2}
    <3>2. \A s \in specs : \E acceptable, budget, kinds : kinds \in K /\ s = SpecOf(acceptable, budget, kinds)
      <4> HIDE DEF K
      <4> QED OBVIOUS
    <3>3. \A r \in responses : \E status, json, has, elapsed : r = ResponseOf(status, json, has, elapsed)
      OBVIOUS
    <3>4. item \in [topic : {"response"}, spec : specs, response : responses]  BY <3>1 DEF ResponseItems
    <3> HIDE DEF K, specs, responses
    <3>12. item.spec \in specs /\ item.response \in responses  BY <3>4
    <3>5. PICK acceptable, budget, kinds : kinds \in K /\ item.spec = SpecOf(acceptable, budget, kinds)
      BY <3>2, <3>12, Zenon
    <3>6. PICK status, json, has, elapsed : item.response = ResponseOf(status, json, has, elapsed)
      BY <3>3, <3>12, Zenon
    <3>7. PICK assertions : assertions = item.spec.assertions  OBVIOUS
    <3>8. DOMAIN assertions = DOMAIN kinds /\ assertions = [i \in DOMAIN kinds |-> assertions[i]]
      BY <3>5, <3>7 DEF SpecOf
    <3>9. PICK m \in Nat : DOMAIN kinds = 1..m
      <4>1. CASE kinds = <<>>
        <5>1. DOMAIN kinds = 1..0  BY <4>1
        <5> QED BY <5>1
      <4>2. CASE \E a : kinds = <<a>>
        <5>1. DOMAIN kinds = 1..1  BY <4>2
        <5> QED BY <5>1
      <4>3. CASE \E a, b : kinds = <<a, b>>
        <5>1. DOMAIN kinds = 1..2  BY <4>3
        <5> QED BY <5>1
      <4> QED BY <3>5, <4>1, <4>2, <4>3, Zenon DEF K
    <3>10. Len(assertions) = m  BY <3>8, <3>9
    <3>11. item.response.json = "invalid" => item.response.fields = <<>>
      <4>1. item.response.json = json  BY <3>6 DEF ResponseOf
      <4>2. json = "invalid" => item.response.fields = <<>>
        <5> SUFFICES ASSUME json = "invalid" PROVE item.response.fields = <<>>  OBVIOUS
        <5>1. ~(has /\ json = "object")  OBVIOUS
        <5> DEFINE texts == IF has THEN {"v"} ELSE {}
                   fields == IF has /\ json = "object" THEN [id |-> "v"] ELSE <<>>
                   headers == IF has THEN [id |-> "v"] ELSE <<>>
        <5>2. item.response = [status |-> status, elapsed |-> elapsed, json |-> json, texts |-> texts,
                               fields |-> fields, headers |-> headers]
          BY <3>6 DEF ResponseOf
        <5>3. fields = <<>>  BY <5>1, Zenon
        <5> HIDE DEF texts, fields, headers
        <5>4. item.response.fields = fields  BY <5>2
        <5> QED BY <5>3, <5>4, Zenon
      <4> QED BY <4>1, <4>2
    <3> QED BY <3>7, <3>8, <3>9, <3>10, <3>11, SpecTestDecides, Zenon
  <2>3. NoVerdictLost <=>
          /\ Is("body") =>
               /\ \A i \in DOMAIN item.thread.active : item.thread.active[i] \in DOMAIN item.thread.scopes
               /\ item.thread.ended # "running" => item.thread.active = <<>>
               /\ item.thread.failed = item.thread.thrown + item.thread.logged + item.thread.unseen + Held(item.thread)
               /\ item.thread.careful /\ ~item.thread.caught /\ item.thread.ended = "passed" => item.thread.failed = 0
          /\ Is("response") =>
               (ExecuteSpec(item.spec, item.response).ended = "passed" <=>
                  /\ StatusAccepted(item.spec, item.response)
                  /\ (item.spec.budget > 0 => item.response.elapsed <= item.spec.budget)
                  /\ \A i \in DOMAIN item.spec.assertions : Evaluate(item.spec.assertions[i], item.response))
    BY DEF NoVerdictLost
  <2> QED BY <2>1, <2>2, <2>3, Zenon DEF Asserted
<1> QED BY <1>1, <1>2, <1>3, AlwaysItem, PTL DEF DecisionsSpec
=============================================================================
