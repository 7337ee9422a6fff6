-------------------------------- MODULE Url ---------------------------------
(***************************************************************************)
(* URLs and the policy about which of them may be requested (net/Url.cpp). *)
(*                                                                         *)
(* A text is a URL cut where the parser looks for its separators:          *)
(* authority is the sequence of its parts between colons ("::1" is three   *)
(* of them), path the sequence of its segments.  The labels of a host and  *)
(* the number a port text stands for are facts about the names used.       *)
(***************************************************************************)
EXTENDS Integers, Sequences, SequencesExt

\* The text without a character.
Empty == ""

\* The dotted labels of a host: their values, -1 for what is not a number.
Labels(name) ==
  CASE name = "127.0.0.1" -> <<127, 0, 0, 1>>
    [] name = "169.254.1.1" -> <<169, 254, 1, 1>>
    [] name = "10.0.0.1" -> <<10, 0, 0, 1>>
    [] name = "172.31.0.1" -> <<172, 31, 0, 1>>
    [] name = "172.32.0.1" -> <<172, 32, 0, 1>>
    [] name = "10.0.0.256" -> <<10, 0, 0, 256>>
    [] name = "10.0.1" -> <<10, 0, 1>>
    [] OTHER -> <<-1>>

\* strings::parseInt() of a port; -1 when it is not a number.
PortNumber(text) ==
  CASE text = "80" -> 80 [] text = "8000" -> 8000 [] text = "443" -> 443
    [] text = "1" -> 1 [] text = "0" -> 0 [] text = "65536" -> 65536
    [] OTHER -> -1

PortText(port) == CASE port = 80 -> "80" [] port = 8000 -> "8000" [] port = 443 -> "443" [] OTHER -> "1"

Lower(name) == IF name = "API" THEN "api" ELSE name

-----------------------------------------------------------------------------
(* Parsing                                                                 *)

NoUrl == [scheme |-> "none", host |-> <<>>, port |-> 0, path |-> <<>>, query |-> Empty]

MaxPort == 65535

DefaultPortFor(scheme) == CASE scheme = "https" -> 443 [] scheme = "http" -> 80 [] OTHER -> 0

\* [::1]:8080 keeps its colons, otherwise the last colon introduces the port.
HostAndPort(text) ==
  IF text.bracketed THEN [host |-> text.authority, port |-> text.port, given |-> text.port # Empty]
  ELSE LET parts == IF text.port = Empty THEN text.authority ELSE Append(text.authority, text.port)
       IN IF Len(parts) > 1 THEN [host |-> Front(parts), port |-> Last(parts), given |-> TRUE]
          ELSE [host |-> parts, port |-> Empty, given |-> FALSE]

ParseUrl(text) ==
  LET cut == HostAndPort(text)
      port == PortNumber(cut.port)
  IN IF \/ text.scheme \in {Empty, "b@d"}
        \/ cut.host \in {<<>>, <<Empty>>}
        \/ cut.given /\ port \notin 1..MaxPort
     THEN NoUrl
     ELSE [scheme |-> text.scheme, host |-> [i \in DOMAIN cut.host |-> Lower(cut.host[i])],
           port |-> IF cut.given THEN port ELSE DefaultPortFor(text.scheme),
           path |-> text.path, query |-> text.query]

\* Url::toString(); authority() leaves the default port out, and never brackets.
ToText(url) ==
  [scheme |-> url.scheme, bracketed |-> FALSE, authority |-> url.host,
   port |-> IF url.port \in {0, DefaultPortFor(url.scheme)} THEN Empty ELSE PortText(url.port),
   path |-> url.path, query |-> url.query]

\* The endpoint of a test or the Location of a redirect: an absolute URL, or a
\* path, with or without a slash before it.
Reference(kind, text, path) == [kind |-> kind, text |-> text, path |-> path]

NoText == [scheme |-> Empty, bracketed |-> FALSE, authority |-> <<>>, port |-> Empty, path |-> <<>>, query |-> Empty]

\* Mutant: the path of the base is dropped.
BugJoinReplaces(base, reference) ==
  LET parsed == ParseUrl(base)
  IN IF reference.kind = "absolute" THEN reference.text
     ELSE ToText([parsed EXCEPT !.path = reference.path, !.query = reference.text.query])

JoinUrl(base, reference) ==
  LET parsed == ParseUrl(base)
  IN IF \E i \in DOMAIN reference.path : reference.path[i] = ".." THEN NoText
     ELSE IF reference.kind = "absolute"
       THEN IF ParseUrl(reference.text) = NoUrl THEN NoText ELSE reference.text
     ELSE IF parsed = NoUrl THEN NoText
     ELSE ToText([parsed EXCEPT !.path = parsed.path \o reference.path,
                                !.query = reference.text.query])

\* Where a redirect leads: a Location that starts with a slash replaces the path.
ResolveLocation(url, location) ==
  CASE location.kind = "absolute" -> location.text
    [] location.kind = "rooted" ->
         ToText([url EXCEPT !.path = location.path, !.query = location.text.query])
    [] OTHER -> JoinUrl(ToText(url), location)

SameOrigin(url, target) ==
  target.scheme = url.scheme /\ target.host = url.host /\ target.port = url.port

-----------------------------------------------------------------------------
(* The policy                                                              *)

DefaultPolicy == [schemes |-> {"http", "https"}, hosts |-> {}, linkLocal |-> TRUE,
                  loopback |-> FALSE, private |-> FALSE]

IsIpv4Literal(labels) == Len(labels) = 4 /\ \A i \in 1..4 : labels[i] \in 0..255

\* Mutant: the ranges are consulted before the allow-list only.
BugRejectForgetsHosts(policy, url) ==
  url.scheme \notin policy.schemes

\* UrlPolicy::reject(): an allow-list overrides the address ranges.
Reject(policy, url) ==
  LET octets == Labels(url.host[1])
      ipv4 == Len(url.host) = 1 /\ IsIpv4Literal(octets)
  IN \/ url.scheme \notin policy.schemes
     \/ policy.hosts # {} /\ url.host \notin policy.hosts
     \/ policy.hosts = {} /\
          \/ policy.loopback /\ (url.host \in {<<"localhost">>, <<Empty, Empty, "1">>} \/ (ipv4 /\ octets[1] = 127))
          \/ policy.linkLocal /\ (url.host[1] = "fe80" \/ (ipv4 /\ octets[1] = 169 /\ octets[2] = 254))
          \/ policy.private /\ ipv4 /\
               \/ octets[1] = 10
               \/ octets[1] = 172 /\ octets[2] \in 16..31
               \/ octets[1] = 192 /\ octets[2] = 168

\* A base that cannot be parsed leaves the allow-list empty.
RestrictedTo(base) ==
  LET parsed == ParseUrl(base)
  IN IF parsed = NoUrl THEN DefaultPolicy ELSE [DefaultPolicy EXCEPT !.hosts = {parsed.host}]

-----------------------------------------------------------------------------
(* Percent-encoding; a text is a sequence of one-character strings.  "^"   *)
(* stands for a byte that has to be escaped, its code is <<"5", "E">>.      *)

UrlEncode(text) ==
  FlattenSeq([i \in DOMAIN text |->
    CASE text[i] = "^" -> <<"%", "5", "E">>
      [] text[i] = "%" -> <<"%", "2", "5">>
      [] text[i] = "+" -> <<"%", "2", "B">>
      [] text[i] = " " -> <<"%", "2", "0">>
      [] OTHER -> <<text[i]>>])

\* The bytes the escapes of UrlEncode stand for, "" for what is not an escape.
Escaped(high, low) ==
  CASE high = "5" /\ low = "E" -> "^" [] high = "2" /\ low = "5" -> "%"
    [] high = "2" /\ low = "B" -> "+" [] high = "2" /\ low = "0" -> " "
    [] OTHER -> Empty

\* Mutant: an escape at the very end of the text is not seen.
BugDecodeEnd(text) ==
  LET from[i \in 1..Len(text) + 3] ==
        IF i > Len(text) THEN <<>>
        ELSE IF text[i] = "+" THEN <<" ">> \o from[i + 1]
        ELSE IF text[i] = "%" /\ i + 2 < Len(text) /\ Escaped(text[i + 1], text[i + 2]) # Empty
          THEN <<Escaped(text[i + 1], text[i + 2])>> \o from[i + 3]
        ELSE <<text[i]>> \o from[i + 1]
  IN from[1]

\* urlDecode(): a percent sign that introduces no escape stands for itself.
UrlDecode(text) ==
  LET from[i \in 1..Len(text) + 3] ==
        IF i > Len(text) THEN <<>>
        ELSE IF text[i] = "+" THEN <<" ">> \o from[i + 1]
        ELSE IF text[i] = "%" /\ i + 2 <= Len(text) /\ Escaped(text[i + 1], text[i + 2]) # Empty
          THEN <<Escaped(text[i + 1], text[i + 2])>> \o from[i + 3]
        ELSE <<text[i]>> \o from[i + 1]
  IN from[1]
=============================================================================
