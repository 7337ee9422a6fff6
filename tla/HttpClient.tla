----------------------------- MODULE HttpClient -----------------------------
(***************************************************************************)
(* One call of HttpClient::send() at a time, against a server that answers *)
(* as it likes: it stalls, closes early, frames its body in three ways and *)
(* redirects.  The deadline of a hop and the cancellation of the caller's  *)
(* token come at any moment.                                               *)
(*                                                                         *)
(* Bytes are counted in units: the head of a response is one, and so are a *)
(* piece of a body, a chunk and the chunk of size zero that ends a body.   *)
(***************************************************************************)
EXTENDS Url, FiniteSets, TLC

CONSTANTS MaxRedirects,     \* options.maxRedirects
          MaxResponse,      \* options.maxResponseBytes, in units
          ReadChunk,        \* kReadChunk, in units
          MaxBody,          \* units of the longest body
          MaxAddresses      \* addresses a name resolves to

ASSUME ClientAssumption ==
  {MaxRedirects, MaxResponse, ReadChunk, MaxBody, MaxAddresses} \subseteq Nat \ {0}

VARIABLES options,     \* follow and policy of the client
          call,        \* the locals of perform()
          server,      \* the peer of the open connection
          expired,     \* the deadline of this hop has passed
          cancelled,   \* the caller's token
          response,    \* what send() returned
          contacts     \* ghost: [url, credentials] of every connection made

clientVars == <<options, call, server, expired, cancelled, response, contacts>>

-----------------------------------------------------------------------------
(* Requests and replies                                                    *)

Http(host, path) == [scheme |-> "http", bracketed |-> FALSE, authority |-> <<host>>,
                     port |-> "", path |-> path, query |-> ""]

Home == Http("api", <<"v1">>)
Other == Http("b", <<"x">>)

\* What a Location header can hold: this host, another one, https, something
\* that does not parse, and paths of three kinds.
Locations == { Reference("absolute", Home, <<>>), Reference("absolute", Other, <<>>),
               Reference("absolute", [Home EXCEPT !.scheme = "https"], <<>>),
               Reference("absolute", [Home EXCEPT !.port = "0"], <<>>),
               Reference("rooted", NoText, <<"y">>),
               Reference("relative", NoText, <<"..">>) }

NoLocation == Reference("none", NoText, <<>>)

Redirects == {301, 302, 303, 307, 308}

\* framing: how the reply says where its body ends.  length: units it holds.
Reply(status, framing, length, location) ==
  [status |-> status, framing |-> framing, length |-> length, location |-> location]

Replies ==
  [status : {200}, framing : {"length", "chunked", "close"}, length : 0..MaxBody, location : {NoLocation}]
  \cup [status : {204, 500}, framing : {"length"}, length : {1}, location : {NoLocation}]
  \cup [status : {302, 303, 307}, framing : {"length"}, length : {0}, location : Locations \cup {NoLocation}]

\* A status line that does not parse, and a head that never ends.
BadHeads == {Reply(0, "length", 0, NoLocation), Reply(-1, "length", 0, NoLocation)}

\* Units on the wire: the head, the body, and the last chunk.
Wire(reply) == 1 + reply.length + (IF reply.framing = "chunked" THEN 1 ELSE 0)

NoServer == [reply |-> Reply(0, "none", 0, NoLocation), reading |-> FALSE, sent |-> 0, closed |-> TRUE]

-----------------------------------------------------------------------------
(* The call                                                                *)

\* pc: "idle", or the part of perform() the thread is in.  got: units read.
NoCall == [pc |-> "idle", text |-> NoText, method |-> "GET", body |-> FALSE,
           credentials |-> FALSE, remaining |-> 0, addresses |-> 0, got |-> 0, eof |-> FALSE]

\* cut: ghost, the peer closed before its framing said that the body is over.
NoResponse == [error |-> FALSE, status |-> 0, body |-> 0, raw |-> FALSE,
               truncated |-> FALSE, cut |-> FALSE]

Failure == [NoResponse EXCEPT !.error = TRUE]

Fail == /\ response' = Failure
        /\ call' = [call EXCEPT !.pc = "returned"]
        /\ server' = NoServer
        /\ UNCHANGED <<options, expired, cancelled, contacts>>

\* send(): text, method, body and credentials come from the caller.
Send(text, method, credentials) ==
  /\ call.pc = "idle"
  /\ call' = [NoCall EXCEPT !.pc = "check", !.text = text, !.method = method,
                            !.body = method \in {"POST", "PUT", "PATCH"},
                            !.credentials = credentials, !.remaining = MaxRedirects]
  /\ expired' = FALSE
  /\ response' = NoResponse
  /\ UNCHANGED <<options, server, cancelled, contacts>>

\* Mutant: only the first URL of a call is held against the policy.
BugRefusedFirstOnly(text) ==
  LET url == ParseUrl(text)
  IN url = NoUrl \/ url.scheme = "https"
     \/ (call.remaining = MaxRedirects /\ Reject(options.policy, url))

\* A URL that cannot be parsed, that the policy rejects, or that needs TLS.
Refused(text) ==
  LET url == ParseUrl(text)
  IN url = NoUrl \/ Reject(options.policy, url) \/ url.scheme = "https"

Check ==
  /\ call.pc = "check"
  /\ \/ Fail                              \* refused, or the name does not resolve
     \/ /\ Refused(call.text) = FALSE
        /\ \E n \in 1..MaxAddresses : call' = [call EXCEPT !.pc = "connect", !.addresses = n]
        /\ UNCHANGED <<options, server, expired, cancelled, response, contacts>>

\* An attempt that is refused, gives up at its timeout or sees the
\* cancellation leads to the next address.
ConnectFails ==
  /\ call.pc = "connect"
  /\ IF call.addresses = 1 THEN Fail
     ELSE /\ call' = [call EXCEPT !.addresses = @ - 1]
          /\ UNCHANGED <<options, server, expired, cancelled, response, contacts>>

\* connect() may succeed at once, whatever the token and the clock say.
Connects ==
  /\ call.pc = "connect"
  /\ call' = [call EXCEPT !.pc = "send"]
  /\ \E reply \in Replies \cup BadHeads, reading \in BOOLEAN :
       server' = [reply |-> reply, reading |-> reading, sent |-> 0, closed |-> FALSE]
  /\ contacts' = contacts \cup {[url |-> ParseUrl(call.text), credentials |-> call.credentials]}
  /\ UNCHANGED <<options, expired, cancelled, response>>

\* Mutant: a blocked send or read is waited for without looking at the clock.
BugGivesUpNever == FALSE

GivesUp == cancelled \/ expired

\* sendAll(): a peer that does not read lets it wait for the deadline.
SendRequest ==
  /\ call.pc = "send"
  /\ \/ (GivesUp \/ server.closed) /\ Fail
     \/ /\ ~cancelled /\ ~expired /\ server.reading
        /\ call' = [call EXCEPT !.pc = "head"]
        /\ UNCHANGED <<options, server, expired, cancelled, response, contacts>>

-----------------------------------------------------------------------------
(* Reading                                                                 *)

\* readSome() gives up, or meets an error, before any data.
ReadFails ==
  /\ call.pc \in {"head", "body"}
  /\ GivesUp \/ (server.closed /\ server.sent > call.got)     \* a reset connection
  /\ Fail

Bodyless(reply) == call.method = "HEAD" \/ reply.status \in {204, 304}

\* Mutant: the whole declared body is waited for, however long it is.
BugSettledUnbounded(got, eof) ==
  LET reply == server.reply
      body == got - 1
  IN IF Bodyless(reply) THEN [NoResponse EXCEPT !.status = reply.status]
     ELSE IF reply.framing # "close" /\ got >= Wire(reply)
       THEN [NoResponse EXCEPT !.status = reply.status, !.body = reply.length]
     ELSE IF eof
       THEN [NoResponse EXCEPT !.status = reply.status, !.body = body, !.raw = reply.framing = "chunked",
                               !.cut = body < reply.length]
     ELSE NoResponse

\* Mutant: the end of the connection ends the body even before it is read.
BugSettledEarly(got, eof) ==
  [NoResponse EXCEPT !.status = server.reply.status, !.body = got - 1]

\* What the loop over the body makes of the units it holds: NoResponse to read
\* on.  A body cut short by the end of the connection is taken as it is, chunk
\* sizes included.
Settled(got, eof) ==
  LET reply == server.reply
      body == got - 1
      answer == [NoResponse EXCEPT !.status = reply.status]
  IN IF Bodyless(reply) THEN answer
     ELSE IF reply.framing # "close" /\ got >= Wire(reply) THEN [answer EXCEPT !.body = reply.length]
     ELSE IF eof THEN [answer EXCEPT !.body = body, !.raw = reply.framing = "chunked",
                                     !.cut = got < Wire(reply)]
     ELSE IF body > MaxResponse
       THEN [answer EXCEPT !.body = MaxResponse, !.truncated = TRUE,
                           !.raw = reply.framing = "chunked"]
     ELSE NoResponse

\* A redirect is followed only while redirects remain.
Follows(reply) ==
  options.follow /\ call.remaining > 0 /\ reply.status \in Redirects /\ reply.location # NoLocation

\* Mutant: a redirect takes the headers of the request along.
BugCredentialsKept(url, target) == call.credentials

CredentialsFor(url, target) == call.credentials /\ target # NoUrl /\ SameOrigin(url, target)

\* 303, and 301/302 of anything but GET and HEAD, turn into a GET.
DegradesToGet(status) ==
  status = 303 \/ (status \in {301, 302} /\ call.method \notin {"GET", "HEAD"})

\* perform() calls itself with one redirect less and a deadline of its own.
Redirect(reply) ==
  LET url == ParseUrl(call.text)
      next == ResolveLocation(url, reply.location)
  IN call' = [NoCall EXCEPT
       !.pc = "check", !.text = next, !.remaining = call.remaining - 1,
       !.method = IF DegradesToGet(reply.status) THEN "GET" ELSE call.method,
       !.body = call.body /\ ~DegradesToGet(reply.status),
       !.credentials = CredentialsFor(url, ParseUrl(next))]

\* The rest of perform() once units have been read.
Proceed(got, eof) ==
  LET reply == server.reply
      answer == Settled(got, eof)
  IN IF answer = NoResponse
     THEN /\ call' = [call EXCEPT !.pc = "body", !.got = got, !.eof = eof]
          /\ UNCHANGED <<options, server, expired, cancelled, response, contacts>>
     ELSE /\ server' = NoServer
          /\ IF Follows(reply) /\ ResolveLocation(ParseUrl(call.text), reply.location) # NoText
             THEN Redirect(reply) /\ expired' = FALSE /\ UNCHANGED response
             ELSE /\ call' = [call EXCEPT !.pc = "returned"]
                  /\ response' = answer
                  /\ UNCHANGED expired
          /\ UNCHANGED <<options, cancelled, contacts>>

\* recv() returns what is there, up to its buffer; a head that is malformed or
\* too long ends the call.
ReadHead ==
  /\ call.pc = "head" /\ ~cancelled /\ ~expired
  /\ \/ server.sent = 0 /\ server.closed /\ Fail
     \/ \E n \in 1..ReadChunk :
          /\ n <= server.sent
          /\ IF server.reply.status <= 0 THEN Fail ELSE Proceed(n, FALSE)

ReadBody ==
  /\ call.pc = "body" /\ ~cancelled /\ ~expired
  /\ \/ server.sent = call.got /\ server.closed /\ Proceed(call.got, TRUE)
     \/ \E n \in 1..ReadChunk : call.got + n <= server.sent /\ Proceed(call.got + n, FALSE)

\* send() returns to its caller.
Return == /\ call.pc = "returned"
          /\ call' = NoCall
          /\ UNCHANGED <<options, server, expired, cancelled, response, contacts>>

-----------------------------------------------------------------------------
(* The world around it                                                     *)

ServerSends ==
  /\ ~server.closed /\ call.pc \in {"head", "body"}
  /\ server.sent < Wire(server.reply)
  /\ server' = [server EXCEPT !.sent = @ + 1]
  /\ UNCHANGED <<options, call, expired, cancelled, response, contacts>>

ServerCloses ==
  /\ ~server.closed /\ call.pc \in {"send", "head", "body"}
  /\ server' = [server EXCEPT !.closed = TRUE]
  /\ UNCHANGED <<options, call, expired, cancelled, response, contacts>>

DeadlinePasses ==
  /\ call.pc \in {"connect", "send", "head", "body"} /\ ~expired
  /\ expired' = TRUE
  /\ UNCHANGED <<options, call, server, cancelled, response, contacts>>

Cancel ==
  /\ call.pc # "idle" /\ ~cancelled
  /\ cancelled' = TRUE
  /\ UNCHANGED <<options, call, server, expired, response, contacts>>

ClientInit ==
  /\ call = NoCall
  /\ server = NoServer
  /\ expired = FALSE
  /\ cancelled = FALSE
  /\ response = NoResponse
  /\ contacts = {}

ClientStep == \/ Check \/ ConnectFails \/ Connects \/ SendRequest
              \/ ReadFails \/ ReadHead \/ ReadBody

Environment == ServerSends \/ ServerCloses \/ DeadlinePasses \/ Cancel

\* The thread runs and the clock advances; the server owes nothing.
ClientFairness == WF_clientVars(ClientStep) /\ WF_clientVars(DeadlinePasses)

-----------------------------------------------------------------------------
\* Every host a call contacts, on the first hop and on every redirect, passes
\* the policy of the client, and no https URL is ever spoken to in the clear.
PolicyOnEveryHop ==
  \A c \in contacts : ~Reject(options.policy, c.url) /\ c.url.scheme = "http"

\* The credentials of a request never reach another origin than its own, over
\* any chain of redirects, and once dropped they do not come back on the way
\* home.
CredentialsStayHome ==
  /\ \A c \in contacts' \ contacts : c.credentials => SameOrigin(ParseUrl(Home), c.url)
  /\ call.pc # "idle" /\ call'.credentials => call.credentials

\* The memory of a call is bounded whatever a server sends: a body is never
\* longer than the limit plus what one read can add to it.
ResponseBounded == call.got <= 1 + MaxResponse + ReadChunk

\* The peer has sent all that its head announced.
PeerFinished == server.sent = Wire(server.reply)

\* The client never shortens a body on its own: of a peer that sent all it announced, the
\* body is handed back whole and without its chunk sizes, or marked as truncated; it is
\* marked only past the limit, and cut there.  A body that is handed back before the peer
\* had finished is that of a peer that closed the connection, and nothing that was not
\* sent is in it.  Such a body carries no mark (HttpClient.cpp:556-561): the caller cannot
\* tell it from a whole one.
BodyFaithful ==
  call.pc \in {"head", "body"} /\ call'.pc = "returned" /\ ~response'.error
    /\ ~Bodyless(server.reply)
  => IF response'.truncated
     THEN response'.body = MaxResponse /\ server.sent > 1 + MaxResponse
     ELSE /\ PeerFinished => response'.body = server.reply.length /\ ~response'.raw
          /\ ~PeerFinished => server.closed /\ response'.body < server.sent

\* Following redirects is safe: every hop obeys the policy and the credentials
\* stay with the origin they were given for.
HopsAreSafe == [][PolicyOnEveryHop' /\ CredentialsStayHome]_clientVars

\* A body is bounded in size, and complete or marked unless the peer closed the
\* connection before it had sent what it announced (HttpClient.cpp:502-594).
BodiesBoundedAndFaithful == [][ResponseBounded' /\ BodyFaithful]_clientVars
=============================================================================
