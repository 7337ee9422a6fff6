-------------------------- MODULE HttpCallersProofs --------------------------
(***************************************************************************)
(* Proofs about the HTTP client and its callers, for every limit on        *)
(* redirects, responses, reads and exchanges.                              *)
(*                                                                         *)
(* HopsAreSafe and BodiesBoundedAndFaithful constrain steps.  They need to *)
(* know what perform() has established when it reaches a place: a URL that *)
(* is connected to was not refused, credentials that are still held belong *)
(* to the origin of the URL at hand, and no more has been read than the    *)
(* server has sent.                                                        *)
(***************************************************************************)
EXTENDS HttpCallers, TLAPS

\* A record of perform()'s locals: its fields are there, whatever the URL is.
CallTyped ==
  call \in [pc : {"idle", "check", "connect", "send", "head", "body", "returned"},
            text : {call.text}, method : {call.method}, body : {call.body},
            credentials : BOOLEAN, remaining : {call.remaining}, addresses : {call.addresses},
            got : Nat, eof : {call.eof}]

ReplyRecords == [status : Int, framing : {"length", "chunked", "close", "none"}, length : Nat,
                 location : Locations \cup {NoLocation}]

ServerTyped == server \in [reply : ReplyRecords, reading : BOOLEAN, sent : Nat, closed : BOOLEAN]

\* What is read was sent, and what is sent belongs to the reply.
ReadsWhatWasSent ==
  /\ server.sent <= Wire(server.reply)
  /\ call.pc = "body" => server.reply.status > 0 /\ call.got <= server.sent
  /\ call.got <= 1 + MaxResponse

\* What perform() has checked before it connects.
Checked ==
  /\ options.policy.schemes = {"http", "https"}
  /\ PolicyOnEveryHop
  /\ call.pc = "connect" => Refused(call.text) = FALSE
  /\ call.credentials => SameOrigin(ParseUrl(Home), ParseUrl(call.text))

ClientInv == CallTyped /\ ServerTyped /\ ReadsWhatWasSent /\ Checked

-----------------------------------------------------------------------------
(* The client.                                                             *)

\* What a step of send() may do.
StepSafe ==
  /\ ClientInv' /\ CredentialsStayHome /\ BodyFaithful

\* Every unit count of a reply is a number.
LEMMA WireTyped ==
  ASSUME NEW reply \in ReplyRecords PROVE Wire(reply) \in Nat /\ Wire(reply) >= 1
BY DEF ReplyRecords, Wire

\* A server that has not answered, and the replies it may have.
LEMMA ServersTyped ==
  /\ NoServer \in [reply : ReplyRecords, reading : BOOLEAN, sent : Nat, closed : BOOLEAN]
  /\ NoServer.sent = 0
  /\ Replies \cup BadHeads \subseteq ReplyRecords
<1>1. NoServer.reply \in ReplyRecords  BY DEF NoServer, Reply, ReplyRecords
<1>2. /\ NoServer \in [reply : ReplyRecords, reading : BOOLEAN, sent : Nat, closed : BOOLEAN]
      /\ NoServer.sent = 0
  BY <1>1 DEF NoServer
<1>3. Replies \subseteq ReplyRecords
  <2>1. 0..MaxBody \subseteq Nat  OBVIOUS
  <2> QED BY <2>1 DEF Replies, ReplyRecords
<1>4. BadHeads \subseteq ReplyRecords  BY DEF BadHeads, Reply, ReplyRecords
<1> QED BY <1>2, <1>3, <1>4

\* A step that makes no contact and keeps the URL and the credentials of the call.
LEMMA KeepsHop ==
  ASSUME ClientInv, UNCHANGED <<options, contacts>>, call'.text = call.text,
         call'.credentials = call.credentials,
         call'.pc = "connect" => call.pc = "connect"
  PROVE  Checked' /\ CredentialsStayHome
<1>1. PolicyOnEveryHop'  BY DEF ClientInv, Checked, PolicyOnEveryHop
<1> QED BY <1>1 DEF ClientInv, Checked, CredentialsStayHome, Refused

\* A call that fails.
LEMMA FailSafe ==
  ASSUME ClientInv, Fail PROVE StepSafe
<1>1. /\ response' = Failure /\ call' = [call EXCEPT !.pc = "returned"] /\ server' = NoServer
      /\ UNCHANGED <<options, expired, cancelled, contacts>>
  BY DEF Fail
<1>2. /\ call'.pc = "returned" /\ call'.text = call.text /\ call'.credentials = call.credentials
      /\ call'.got = call.got /\ CallTyped'
  BY <1>1 DEF ClientInv, CallTyped
<1>3. ServerTyped' /\ ReadsWhatWasSent'
  BY <1>1, <1>2, ServersTyped, WireTyped DEF ClientInv, ServerTyped, ReadsWhatWasSent
<1>4. Checked' /\ CredentialsStayHome  BY <1>1, <1>2, KeepsHop
<1>5. BodyFaithful  BY <1>1 DEF BodyFaithful, Failure, NoResponse
<1> QED BY <1>2, <1>3, <1>4, <1>5 DEF StepSafe, ClientInv

\* Origins compose along a chain of redirects.
LEMMA OriginsCompose ==
  ASSUME NEW a, NEW b, NEW c, SameOrigin(a, b), SameOrigin(b, c) PROVE SameOrigin(a, c)
BY DEF SameOrigin

\* A step that moves the call on and touches neither the server nor the contacts.
LEMMA MovesOn ==
  ASSUME ClientInv, UNCHANGED <<options, server, contacts>>, CallTyped',
         call'.text = call.text, call'.credentials = call.credentials,
         call'.got <= 1 + MaxResponse, call'.pc = "connect" => call.pc = "connect",
         call'.pc = "body" => server.reply.status > 0 /\ call'.got <= server.sent,
         call'.pc # "returned"
  PROVE  StepSafe
<1>1. Checked' /\ CredentialsStayHome  BY KeepsHop
<1>2. ServerTyped' /\ ReadsWhatWasSent'
  BY DEF ClientInv, ServerTyped, ReadsWhatWasSent, Wire
<1>3. BodyFaithful  BY DEF BodyFaithful
<1> QED BY <1>1, <1>2, <1>3 DEF StepSafe, ClientInv

\* send() starts at home.
LEMMA SendSafe ==
  ASSUME ClientInv, NEW method, NEW credentials \in BOOLEAN, Send(Home, method, credentials)
  PROVE  StepSafe
<1>1. /\ call.pc = "idle" /\ UNCHANGED <<options, server, contacts>>
      /\ call'.pc = "check" /\ call'.text = Home /\ call'.credentials = credentials
      /\ call'.got = 0
  BY DEF Send, NoCall
<1>2. CallTyped'  BY DEF Send, NoCall, CallTyped
<1>3. SameOrigin(ParseUrl(Home), ParseUrl(Home))  BY DEF SameOrigin
<1>4. Checked'
  <2>1. PolicyOnEveryHop'  BY <1>1 DEF ClientInv, Checked, PolicyOnEveryHop
  <2> QED BY <1>1, <1>3, <2>1 DEF ClientInv, Checked
<1>5. ServerTyped' /\ ReadsWhatWasSent'
  BY <1>1, ClientAssumption DEF ClientInv, ServerTyped, ReadsWhatWasSent, Wire
<1>6. CredentialsStayHome /\ BodyFaithful  BY <1>1 DEF CredentialsStayHome, BodyFaithful
<1> QED BY <1>2, <1>4, <1>5, <1>6 DEF StepSafe, ClientInv

\* The URL is checked before anything is contacted.
LEMMA CheckSafe ==
  ASSUME ClientInv, Check PROVE StepSafe
<1>1. CASE Fail  BY <1>1, FailSafe
<1>2. CASE /\ Refused(call.text) = FALSE
           /\ \E n \in 1..MaxAddresses : call' = [call EXCEPT !.pc = "connect", !.addresses = n]
           /\ UNCHANGED <<options, server, expired, cancelled, response, contacts>>
  <2>1. PICK n \in 1..MaxAddresses : call' = [call EXCEPT !.pc = "connect", !.addresses = n]
    BY <1>2
  <2>2. /\ call'.pc = "connect" /\ call'.text = call.text /\ call'.credentials = call.credentials
        /\ call'.got = call.got /\ CallTyped'
    BY <2>1 DEF ClientInv, CallTyped
  <2>3. Checked'
    <3>1. PolicyOnEveryHop'  BY <1>2 DEF ClientInv, Checked, PolicyOnEveryHop
    <3>2. Refused(call.text)' = FALSE  BY <1>2, <2>2 DEF Refused
    <3> QED BY <1>2, <2>2, <3>1, <3>2 DEF ClientInv, Checked
  <2>4. ServerTyped' /\ ReadsWhatWasSent'
    BY <1>2, <2>2 DEF ClientInv, ServerTyped, ReadsWhatWasSent, Wire
  <2>5. CredentialsStayHome /\ BodyFaithful
    BY <1>2, <2>2 DEF CredentialsStayHome, BodyFaithful
  <2> QED BY <2>2, <2>3, <2>4, <2>5 DEF StepSafe, ClientInv
<1> QED BY <1>1, <1>2 DEF Check

\* A connection that fails leads to the next address.
LEMMA ConnectFailsSafe ==
  ASSUME ClientInv, ConnectFails PROVE StepSafe
<1>1. CASE Fail  BY <1>1, FailSafe
<1>2. CASE /\ call' = [call EXCEPT !.addresses = @ - 1]
           /\ UNCHANGED <<options, server, expired, cancelled, response, contacts>>
  <2>1. /\ call'.pc = call.pc /\ call'.text = call.text /\ call'.credentials = call.credentials
        /\ call'.got = call.got /\ CallTyped'
    BY <1>2 DEF ClientInv, CallTyped
  <2>2. call.pc = "connect"  BY DEF ConnectFails
  <2> QED BY <1>2, <2>1, <2>2, MovesOn DEF ClientInv, ReadsWhatWasSent
<1> QED BY <1>1, <1>2 DEF ConnectFails

\* A contact is one the policy lets through, over http, and it carries the
\* credentials only to the origin they belong to.
LEMMA ConnectsSafe ==
  ASSUME ClientInv, Connects PROVE StepSafe
<1>1. /\ call.pc = "connect" /\ call' = [call EXCEPT !.pc = "send"]
      /\ contacts' = contacts \cup {[url |-> ParseUrl(call.text), credentials |-> call.credentials]}
      /\ UNCHANGED <<options, response>>
  BY DEF Connects
<1>2. PICK reply \in Replies \cup BadHeads, reading \in BOOLEAN :
        server' = [reply |-> reply, reading |-> reading, sent |-> 0, closed |-> FALSE]
  BY DEF Connects
<1>3. /\ call'.pc = "send" /\ call'.text = call.text /\ call'.credentials = call.credentials
      /\ call'.got = call.got /\ CallTyped'
  BY <1>1 DEF ClientInv, CallTyped
<1>4. ServerTyped' /\ ReadsWhatWasSent'
  <2>1. reply \in ReplyRecords  BY ServersTyped
  <2>2. server'.reply = reply /\ server'.sent = 0  BY <1>2
  <2>3. ServerTyped'  BY <1>2, <2>1 DEF ServerTyped
  <2>4. Wire(reply) \in Nat  BY <2>1, WireTyped
  <2>5. (server.sent <= Wire(server.reply))'  BY <2>2, <2>4
  <2> QED BY <1>3, <2>3, <2>5 DEF ClientInv, ReadsWhatWasSent
<1>5. ~Reject(options.policy, ParseUrl(call.text)) /\ ParseUrl(call.text).scheme = "http"
  <2>1. Refused(call.text) = FALSE  BY <1>1 DEF ClientInv, Checked
  <2>2. ~Reject(options.policy, ParseUrl(call.text)) /\ ParseUrl(call.text).scheme # "https"
    BY <2>1 DEF Refused
  <2>3. ParseUrl(call.text).scheme \in options.policy.schemes  BY <2>2 DEF Reject
  <2> QED BY <2>2, <2>3 DEF ClientInv, Checked
<1>6. PolicyOnEveryHop'
  <2> SUFFICES ASSUME NEW c \in contacts' PROVE ~Reject(options.policy, c.url) /\ c.url.scheme = "http"
    BY <1>1 DEF PolicyOnEveryHop
  <2>1. CASE c \in contacts  BY <2>1 DEF ClientInv, Checked, PolicyOnEveryHop
  <2>2. CASE c = [url |-> ParseUrl(call.text), credentials |-> call.credentials]
    <3>1. c.url = ParseUrl(call.text)  BY <2>2
    <3> QED BY <3>1, <1>5
  <2> QED BY <1>1, <2>1, <2>2
<1>7. Checked'  BY <1>1, <1>3, <1>6 DEF ClientInv, Checked
<1>8. CredentialsStayHome
  <2> SUFFICES ASSUME NEW c \in contacts' \ contacts, c.credentials
               PROVE  SameOrigin(ParseUrl(Home), c.url)
    BY <1>3 DEF CredentialsStayHome
  <2>1. c = [url |-> ParseUrl(call.text), credentials |-> call.credentials]  BY <1>1
  <2>2. c.url = ParseUrl(call.text) /\ call.credentials  BY <2>1
  <2> QED BY <2>2 DEF ClientInv, Checked
<1>9. BodyFaithful  BY <1>1 DEF BodyFaithful
<1> QED BY <1>3, <1>4, <1>7, <1>8, <1>9 DEF StepSafe, ClientInv

\* The request goes out, or the call fails.
LEMMA SendRequestSafe ==
  ASSUME ClientInv, SendRequest PROVE StepSafe
<1>1. CASE Fail  BY <1>1, FailSafe
<1>2. CASE /\ call' = [call EXCEPT !.pc = "head"]
           /\ UNCHANGED <<options, server, expired, cancelled, response, contacts>>
  <2>1. /\ call'.pc = "head" /\ call'.text = call.text /\ call'.credentials = call.credentials
        /\ call'.got = call.got /\ CallTyped'
    BY <1>2 DEF ClientInv, CallTyped
  <2> QED BY <1>2, <2>1, MovesOn DEF ClientInv, ReadsWhatWasSent
<1> QED BY <1>1, <1>2 DEF SendRequest

-----------------------------------------------------------------------------
(* Reading.                                                                *)

\* The loop over the body reads on only while the body is within the limit; what it hands
\* back is truncated past the limit, whole once all was read, and otherwise what was read
\* before the connection ended.
LEMMA SettledRight ==
  ASSUME ClientInv, NEW got \in Nat, NEW eof \in BOOLEAN, got <= server.sent,
         server.reply.status > 0
  PROVE  /\ Settled(got, eof) = NoResponse => got <= 1 + MaxResponse
         /\ ~Bodyless(server.reply) /\ Settled(got, eof) # NoResponse
            => IF Settled(got, eof).truncated
               THEN Settled(got, eof).body = MaxResponse /\ got > 1 + MaxResponse
               ELSE /\ got = Wire(server.reply)
                         => Settled(got, eof).body = server.reply.length /\ ~Settled(got, eof).raw
                    /\ got # Wire(server.reply) => eof /\ Settled(got, eof).body = got - 1
<1>1. PICK r : r = server.reply  OBVIOUS
<1>2. /\ r \in ReplyRecords /\ r.status > 0 /\ r.length \in Nat
      /\ got <= Wire(r) /\ Wire(r) \in Nat /\ MaxResponse \in Nat
  <2>1. r \in ReplyRecords /\ server.sent \in Nat /\ server.sent <= Wire(r)
    BY <1>1 DEF ClientInv, ServerTyped, ReadsWhatWasSent
  <2>2. r.length \in Nat  BY <2>1 DEF ReplyRecords
  <2>3. Wire(r) \in Nat  BY <2>1, WireTyped
  <2> QED BY <1>1, <2>1, <2>2, <2>3, ClientAssumption
<1>3. PICK base : base = [NoResponse EXCEPT !.status = r.status]  OBVIOUS
<1>4. /\ base \in [error : BOOLEAN, status : Int, body : Nat, raw : BOOLEAN,
                   truncated : BOOLEAN, cut : BOOLEAN]
      /\ base.status = r.status /\ base.body = 0
      /\ ~base.raw /\ ~base.truncated /\ ~base.cut
  BY <1>2, <1>3 DEF NoResponse, ReplyRecords
<1>5. CASE Bodyless(r)
  <2>1. Settled(got, eof) = base  BY <1>1, <1>3, <1>5 DEF Settled
  <2>2. base # NoResponse  BY <1>2, <1>4 DEF NoResponse
  <2> QED BY <1>1, <1>5, <2>1, <2>2
<1>6. CASE ~Bodyless(r) /\ r.framing # "close" /\ got >= Wire(r)
  <2>1. Settled(got, eof) = [base EXCEPT !.body = r.length]  BY <1>1, <1>3, <1>6 DEF Settled
  <2>2. [base EXCEPT !.body = r.length] # NoResponse
    <3>1. [base EXCEPT !.body = r.length].status = r.status  BY <1>4
    <3> QED BY <1>2, <3>1 DEF NoResponse
  <2>3. PICK a : a = [base EXCEPT !.body = r.length]  OBVIOUS
  <2>4. a.body = r.length /\ ~a.raw /\ ~a.truncated  BY <1>4, <2>3
  <2>5. got = Wire(r)  BY <1>2, <1>6
  <2> QED BY <1>1, <2>1, <2>2, <2>3, <2>4, <2>5
<1>7. CASE ~Bodyless(r) /\ ~(r.framing # "close" /\ got >= Wire(r)) /\ eof
  <2>1. PICK a : a = [base EXCEPT !.body = got - 1, !.raw = (r.framing = "chunked"),
                                  !.cut = got < Wire(r)]
    OBVIOUS
  <2>2. Settled(got, eof) = a  BY <1>1, <1>3, <1>7, <2>1 DEF Settled
  <2>3. /\ a.status = r.status /\ a.body = got - 1 /\ a.raw = (r.framing = "chunked")
        /\ ~a.truncated
    BY <1>4, <2>1
  <2>4. a # NoResponse  BY <1>2, <2>3 DEF NoResponse
  <2>5. ASSUME got = Wire(r) PROVE a.body = r.length /\ ~a.raw
    <3>1. r.framing = "close"  BY <1>2, <1>7, <2>5
    <3>2. Wire(r) = 1 + r.length  BY <1>2, <3>1 DEF Wire
    <3>3. ~a.raw  BY <2>3, <3>1
    <3> QED BY <1>2, <2>3, <2>5, <3>2, <3>3
  <2> QED BY <1>1, <1>7, <2>2, <2>3, <2>4, <2>5
<1>8. CASE ~Bodyless(r) /\ ~(r.framing # "close" /\ got >= Wire(r)) /\ ~eof
           /\ got - 1 > MaxResponse
  <2>1. PICK a : a = [base EXCEPT !.body = MaxResponse, !.truncated = TRUE,
                                  !.raw = (r.framing = "chunked")]
    OBVIOUS
  <2>2. Settled(got, eof) = a  BY <1>1, <1>3, <1>8, <2>1 DEF Settled
  <2>3. a.status = r.status /\ a.truncated /\ a.body = MaxResponse  BY <1>4, <2>1
  <2>4. a # NoResponse  BY <1>2, <2>3 DEF NoResponse
  <2>5. got > 1 + MaxResponse  BY <1>2, <1>8
  <2> QED BY <2>2, <2>3, <2>4, <2>5
<1>9. CASE ~Bodyless(r) /\ ~(r.framing # "close" /\ got >= Wire(r)) /\ ~eof
           /\ ~(got - 1 > MaxResponse)
  <2>1. Settled(got, eof) = NoResponse  BY <1>1, <1>9 DEF Settled
  <2>2. got <= 1 + MaxResponse  BY <1>2, <1>9
  <2> QED BY <2>1, <2>2
<1> QED BY <1>5, <1>6, <1>7, <1>8, <1>9

\* A redirect starts another hop, with the credentials only if its origin is
\* still the one they were given for.
LEMMA RedirectSafe ==
  ASSUME ClientInv, call.pc \in {"head", "body"}, NEW reply, Redirect(reply),
         server' = NoServer, UNCHANGED <<options, contacts>>
  PROVE  StepSafe
<1>1. PICK next, kept : /\ next = ResolveLocation(ParseUrl(call.text), reply.location)
                        /\ kept = CredentialsFor(ParseUrl(call.text), ParseUrl(next))
  OBVIOUS
<1>2. kept \in BOOLEAN /\ (kept => call.credentials /\ SameOrigin(ParseUrl(call.text), ParseUrl(next)))
  BY <1>1 DEF CredentialsFor
<1>3. /\ call'.pc = "check" /\ call'.text = next /\ call'.credentials = kept /\ call'.got = 0
      /\ CallTyped'
  <2>1. PICK m, b, n : call' = [NoCall EXCEPT !.pc = "check", !.text = next, !.remaining = n,
                                  !.method = m, !.body = b, !.credentials = kept]
    BY <1>1 DEF Redirect
  <2> QED BY <1>2, <2>1 DEF NoCall, CallTyped
<1>4. Checked'
  <2>1. PolicyOnEveryHop'  BY DEF ClientInv, Checked, PolicyOnEveryHop
  <2>2. ASSUME kept PROVE SameOrigin(ParseUrl(Home), ParseUrl(next))
    <3>1. SameOrigin(ParseUrl(Home), ParseUrl(call.text))  BY <1>2, <2>2 DEF ClientInv, Checked
    <3> QED BY <1>2, <2>2, <3>1, OriginsCompose
  <2> QED BY <1>3, <2>1, <2>2 DEF ClientInv, Checked
<1>5. ServerTyped' /\ ReadsWhatWasSent'
  BY <1>3, ServersTyped, WireTyped, ClientAssumption DEF ServerTyped, ReadsWhatWasSent
<1>6. CredentialsStayHome  BY <1>2, <1>3 DEF CredentialsStayHome
<1>7. BodyFaithful  BY <1>3 DEF BodyFaithful
<1> QED BY <1>3, <1>4, <1>5, <1>6, <1>7 DEF StepSafe, ClientInv

\* What follows a read.
LEMMA ProceedSafe ==
  ASSUME ClientInv, call.pc \in {"head", "body"}, NEW got \in Nat, NEW eof \in BOOLEAN,
         got <= server.sent, server.reply.status > 0, Proceed(got, eof),
         eof => server.closed /\ got = server.sent
  PROVE  StepSafe
<1>1. CASE Settled(got, eof) = NoResponse
  <2>1. /\ call' = [call EXCEPT !.pc = "body", !.got = got, !.eof = eof]
        /\ UNCHANGED <<options, server, expired, cancelled, response, contacts>>
    BY <1>1 DEF Proceed
  <2>2. /\ call'.pc = "body" /\ call'.text = call.text /\ call'.credentials = call.credentials
        /\ call'.got = got /\ CallTyped'
    BY <2>1 DEF ClientInv, CallTyped
  <2>3. got <= 1 + MaxResponse  BY <1>1, SettledRight
  <2> QED BY <2>1, <2>2, <2>3, MovesOn
<1>2. CASE Settled(got, eof) # NoResponse
  <2>1. server' = NoServer /\ UNCHANGED <<options, contacts>>  BY <1>2 DEF Proceed
  <2>2. CASE Redirect(server.reply)  BY <2>1, <2>2, RedirectSafe
  <2>3. CASE call' = [call EXCEPT !.pc = "returned"] /\ response' = Settled(got, eof)
    <3>1. /\ call'.pc = "returned" /\ call'.text = call.text /\ call'.got = call.got
          /\ call'.credentials = call.credentials /\ CallTyped'
      BY <2>3 DEF ClientInv, CallTyped
    <3>2. ServerTyped' /\ ReadsWhatWasSent'
      BY <2>1, <3>1, ServersTyped, WireTyped DEF ClientInv, ServerTyped, ReadsWhatWasSent
    <3>3. Checked' /\ CredentialsStayHome  BY <2>1, <3>1, KeepsHop
    <3>4. BodyFaithful
      <4>1. SUFFICES ASSUME ~Bodyless(server.reply) PROVE BodyFaithful  BY DEF BodyFaithful
      <4>2. /\ server.sent \in Nat /\ Wire(server.reply) \in Nat /\ got <= Wire(server.reply)
            /\ MaxResponse \in Nat
        <5>1. server.reply \in ReplyRecords /\ server.sent \in Nat /\ server.sent <= Wire(server.reply)
          BY DEF ClientInv, ServerTyped, ReadsWhatWasSent
        <5>2. Wire(server.reply) \in Nat  BY <5>1, WireTyped
        <5> QED BY <5>1, <5>2, ClientAssumption
      <4>3. IF response'.truncated
            THEN response'.body = MaxResponse /\ got > 1 + MaxResponse
            ELSE /\ got = Wire(server.reply) => response'.body = server.reply.length /\ ~response'.raw
                 /\ got # Wire(server.reply) => eof /\ response'.body = got - 1
        BY <1>2, <2>3, <4>1, SettledRight
      <4>4. CASE response'.truncated
        <5>1. response'.body = MaxResponse /\ server.sent > 1 + MaxResponse
          BY <4>2, <4>3, <4>4
        <5> QED BY <4>4, <5>1 DEF BodyFaithful
      <4>5. CASE ~response'.truncated
        <5>1. CASE got = Wire(server.reply)
          <6>1. PeerFinished  BY <4>2, <5>1 DEF PeerFinished, ClientInv, ReadsWhatWasSent
          <6> QED BY <4>3, <4>5, <5>1, <6>1 DEF BodyFaithful
        <5>2. CASE got # Wire(server.reply)
          <6>1. /\ server.closed /\ got = server.sent /\ response'.body = got - 1
            BY <4>3, <4>5, <5>2
          <6>2. ~PeerFinished /\ response'.body < server.sent
            BY <4>2, <5>2, <6>1 DEF PeerFinished
          <6> QED BY <4>5, <6>1, <6>2 DEF BodyFaithful
        <5> QED BY <5>1, <5>2
      <4> QED BY <4>4, <4>5
    <3> QED BY <3>1, <3>2, <3>3, <3>4 DEF StepSafe, ClientInv
  <2> QED BY <1>2, <2>2, <2>3 DEF Proceed
<1> QED BY <1>1, <1>2

\* The first read of a reply.
LEMMA ReadHeadSafe ==
  ASSUME ClientInv, ReadHead PROVE StepSafe
<1>1. CASE Fail  BY <1>1, FailSafe
<1>2. CASE ~Fail
  <2>1. call.pc = "head"  BY DEF ReadHead
  <2>2. PICK n \in 1..ReadChunk : n <= server.sent /\ ~(server.reply.status <= 0) /\ Proceed(n, FALSE)
    BY <1>2 DEF ReadHead
  <2>3. n \in Nat  BY ClientAssumption
  <2>4. server.reply.status > 0
    <3>1. server.reply.status \in Int  BY DEF ClientInv, ServerTyped, ReplyRecords
    <3> QED BY <2>2, <3>1
  <2> QED BY <2>1, <2>2, <2>3, <2>4, ProceedSafe
<1> QED BY <1>1, <1>2

\* Every read after it.
LEMMA ReadBodySafe ==
  ASSUME ClientInv, ReadBody PROVE StepSafe
<1>1. /\ call.pc = "body" /\ server.reply.status > 0 /\ call.got \in Nat /\ server.sent \in Nat
      /\ call.got <= server.sent
  BY DEF ReadBody, ClientInv, ReadsWhatWasSent, CallTyped, ServerTyped
<1>2. CASE server.sent = call.got /\ server.closed /\ Proceed(call.got, TRUE)
  BY <1>1, <1>2, ProceedSafe
<1>3. CASE \E n \in 1..ReadChunk : call.got + n <= server.sent /\ Proceed(call.got + n, FALSE)
  <2>1. PICK n \in 1..ReadChunk : call.got + n <= server.sent /\ Proceed(call.got + n, FALSE)
    BY <1>3
  <2>2. call.got + n \in Nat  BY <1>1, ClientAssumption
  <2> QED BY <1>1, <2>1, <2>2, ProceedSafe
<1> QED BY <1>2, <1>3 DEF ReadBody

\* send() is over.
LEMMA ReturnSafe ==
  ASSUME ClientInv, Return PROVE StepSafe
<1>1. /\ call.pc = "returned" /\ UNCHANGED <<options, server, contacts>>
      /\ call'.pc = "idle" /\ call'.credentials = FALSE /\ call'.got = 0
  BY DEF Return, NoCall
<1>2. CallTyped'  BY DEF Return, NoCall, CallTyped
<1>3. Checked'
  <2>1. PolicyOnEveryHop'  BY <1>1 DEF ClientInv, Checked, PolicyOnEveryHop
  <2> QED BY <1>1, <2>1 DEF ClientInv, Checked
<1>4. ServerTyped' /\ ReadsWhatWasSent'
  BY <1>1, ClientAssumption DEF ClientInv, ServerTyped, ReadsWhatWasSent, Wire
<1>5. CredentialsStayHome /\ BodyFaithful  BY <1>1 DEF CredentialsStayHome, BodyFaithful
<1> QED BY <1>2, <1>3, <1>4, <1>5 DEF StepSafe, ClientInv

\* A step of the client.
LEMMA ClientStepSafe ==
  ASSUME ClientInv, ClientStep PROVE StepSafe
<1>1. CASE ReadFails  BY <1>1, FailSafe DEF ReadFails
<1> QED
  BY <1>1, CheckSafe, ConnectFailsSafe, ConnectsSafe, SendRequestSafe, ReadHeadSafe, ReadBodySafe
  DEF ClientStep

\* A step of the world around the client.
LEMMA EnvironmentSafe ==
  ASSUME ClientInv, Environment PROVE StepSafe
<1>1. UNCHANGED <<options, call, contacts, response>>
  BY DEF Environment, ServerSends, ServerCloses, DeadlinePasses, Cancel
<1>2. CallTyped'  BY <1>1 DEF ClientInv, CallTyped
<1>3. Checked' /\ CredentialsStayHome  BY <1>1, KeepsHop
<1>4. BodyFaithful  BY <1>1 DEF BodyFaithful
<1>5. ServerTyped' /\ ReadsWhatWasSent'
  <2>1. /\ server'.reply = server.reply /\ server'.sent >= server.sent
        /\ server'.sent <= Wire(server.reply) /\ ServerTyped'
    <3>1. CASE ServerSends
      <4>1. server.sent < Wire(server.reply) /\ server' = [server EXCEPT !.sent = server.sent + 1]
        BY <3>1 DEF ServerSends
      <4>2. Wire(server.reply) \in Nat  BY WireTyped DEF ClientInv, ServerTyped
      <4> QED BY <4>1, <4>2 DEF ClientInv, ServerTyped
    <3>2. CASE ServerCloses
      <4>1. server' = [server EXCEPT !.closed = TRUE]  BY <3>2 DEF ServerCloses
      <4>2. server'.reply = server.reply /\ server'.sent = server.sent /\ ServerTyped'
        BY <4>1 DEF ClientInv, ServerTyped
      <4>3. server.sent \in Nat /\ server.sent <= Wire(server.reply)
        BY DEF ClientInv, ServerTyped, ReadsWhatWasSent
      <4> QED BY <4>2, <4>3
    <3>3. CASE DeadlinePasses \/ Cancel
      <4>1. server' = server  BY <3>3 DEF DeadlinePasses, Cancel
      <4> QED BY <4>1 DEF ClientInv, ServerTyped, ReadsWhatWasSent
    <3> QED BY <3>1, <3>2, <3>3 DEF Environment
  <2>2. Wire(server.reply)' = Wire(server.reply)  BY <2>1
  <2>3. call.got \in Nat /\ server.sent \in Nat /\ server'.sent \in Nat
    BY <2>1 DEF ClientInv, CallTyped, ServerTyped
  <2>4. (call.pc = "body" => server.reply.status > 0 /\ call.got <= server.sent)'
    BY <1>1, <2>1, <2>3 DEF ClientInv, ReadsWhatWasSent
  <2> QED BY <1>1, <2>1, <2>2, <2>4 DEF ClientInv, ReadsWhatWasSent
<1> QED BY <1>2, <1>3, <1>4, <1>5 DEF StepSafe, ClientInv

-----------------------------------------------------------------------------
(* The callers.                                                            *)

\* Only the AI provider has an answer, and none while its call is under way; where it
\* asked the mock or nobody, there is no call and no contact.
AnswerRecords ==
  [op : {"none", "generate", "analyse", "health"}, asked : [enabled : BOOLEAN, mock : BOOLEAN],
   ok : BOOLEAN, provider : {"none", "disabled", "mock", "http"}, whole : BOOLEAN]

AsksHttp == answer.asked.enabled /\ ~answer.asked.mock

AnswerKept ==
  /\ answer \in AnswerRecords
  /\ call.pc # "idle" => ~answer.ok
  /\ caller # "ai" => ~answer.ok
  /\ caller = "ai" /\ call.pc # "idle" => answer.op # "none" /\ answer.provider = "http" /\ AsksHttp
  /\ AnswersAreWhole

CallersInv == ClientInv /\ AnswerKept

\* A step of an owner of the client that leaves the answer alone, as long as
\* the client does not start a call for the AI provider.
LEMMA AnswerStays ==
  ASSUME AnswerKept, answer' = answer, caller' # "ai" => ~answer.ok,
         caller' = "ai" => caller = "ai" /\ (call'.pc = "idle" <=> call.pc = "idle"),
         caller' = "ai" /\ call.pc = "idle" => response' = response /\ contacts' = contacts
  PROVE  AnswerKept'
<1>1. CASE caller' = "ai"
  <2>1. AsksHttp' = AsksHttp  BY DEF AsksHttp
  <2> QED BY <1>1, <2>1 DEF AnswerKept, AnswersAreWhole, AsksHttp
<1>2. CASE caller' # "ai"  BY <1>2 DEF AnswerKept, AnswersAreWhole
<1> QED BY <1>1, <1>2

\* What is accepted came whole from a successful reply.
LEMMA AcceptedIsWhole ==
  ASSUME NEW op \in {"generate", "analyse"}, NEW r, NEW document \in DocumentsOf(r),
         Accepts(op, r, document)
  PROVE  /\ document = "good" /\ ~r.error /\ r.status \in 200..299
         /\ ~r.cut /\ ~r.truncated /\ ~r.raw
<1>1. document = "good" /\ ~r.error /\ r.status \in 200..299
  BY DEF Accepts, AcceptsSuite, AcceptsAnalysis
<1>2. ~r.cut /\ ~r.truncated /\ ~r.raw  BY <1>1 DEF DocumentsOf
<1> QED BY <1>1, <1>2

\* The AI provider asks.
LEMMA AskSafe ==
  ASSUME CallersInv, Ask
  PROVE  AnswerKept' /\ (StepSafe \/ UNCHANGED clientVars)
<1>1. PICK op \in {"generate", "analyse", "health"}, enabled \in BOOLEAN, mock \in BOOLEAN :
        LET provider == CreateProvider(enabled, mock)
        IN /\ answer' = [op |-> op, asked |-> [enabled |-> enabled, mock |-> mock],
                         ok |-> provider = "mock", provider |-> provider, whole |-> provider = "mock"]
           /\ IF provider = "http"
              THEN Send(Home, IF op = "health" THEN "GET" ELSE "POST", FALSE)
              ELSE call.pc = "idle" /\ UNCHANGED clientVars
  BY DEF Ask
<1>2. PICK provider : provider = CreateProvider(enabled, mock)  OBVIOUS
<1>3. /\ provider \in {"disabled", "mock", "http"}
      /\ provider = "http" <=> enabled /\ ~mock
      /\ provider = "mock" <=> enabled /\ mock
  BY <1>2 DEF CreateProvider
<1>4. /\ answer'.op = op /\ answer'.ok = (provider = "mock") /\ answer'.provider = provider
      /\ answer'.whole = (provider = "mock")
      /\ answer'.asked.enabled = enabled /\ answer'.asked.mock = mock
      /\ answer' \in AnswerRecords
  BY <1>1, <1>2, <1>3 DEF AnswerRecords
<1>5. caller' = "ai" /\ caller = "ai" /\ answer = NoAnswer  BY DEF Ask
<1>6. contacts = {}  BY <1>5 DEF CallersInv, AnswerKept, AnswersAreWhole, NoAnswer
<1>7. contacts' = contacts /\ call.pc = "idle"  BY <1>1 DEF Send, clientVars
<1>8. CASE provider = "http"
  <2>1. PICK method : Send(Home, method, FALSE)  BY <1>1, <1>2, <1>8
  <2>2. StepSafe  BY <2>1, SendSafe DEF CallersInv
  <2>3. call'.pc = "check"  BY <2>1 DEF Send, NoCall
  <2>4. AsksHttp' /\ ~answer'.ok  BY <1>3, <1>4, <1>8 DEF AsksHttp
  <2> QED BY <1>4, <1>5, <1>6, <1>7, <1>8, <2>2, <2>3, <2>4 DEF AnswerKept, AnswersAreWhole
<1>9. CASE provider # "http"
  <2>1. UNCHANGED clientVars  BY <1>1, <1>2, <1>9
  <2>2. call'.pc = "idle"  BY <1>7, <2>1 DEF clientVars
  <2>3. answer'.ok => answer'.asked.enabled /\ answer'.asked.mock /\ answer'.provider = "mock"
    BY <1>3, <1>4
  <2> QED BY <1>4, <1>5, <1>6, <1>7, <2>1, <2>2, <2>3 DEF AnswerKept, AnswersAreWhole
<1> QED BY <1>8, <1>9

\* The AI provider is answered.
LEMMA AnsweredSafe ==
  ASSUME CallersInv, Answered PROVE AnswerKept' /\ StepSafe
<1>1. StepSafe  BY ReturnSafe DEF CallersInv, Answered
<1>2. /\ caller' = "ai" /\ caller = "ai" /\ call.pc = "returned" /\ call'.pc = "idle"
      /\ response' = response /\ contacts' = contacts
  BY DEF Answered, Return, NoCall
<1>3. PICK document \in DocumentsOf(response) :
        answer' = [answer EXCEPT !.ok = Accepts(answer.op, response, document),
                                 !.whole = (document = "good")]
  BY DEF Answered
<1>4. Accepts(answer.op, response, document) \in BOOLEAN
  BY DEF Accepts, AcceptsSuite, AcceptsAnalysis, Reachable
<1>5. /\ answer'.op = answer.op /\ answer'.ok = Accepts(answer.op, response, document)
      /\ answer'.whole = (document = "good")
      /\ answer'.provider = answer.provider /\ answer'.asked = answer.asked
      /\ answer' \in AnswerRecords
  BY <1>3, <1>4 DEF CallersInv, AnswerKept, AnswerRecords
<1>6. answer.op # "none" /\ answer.provider = "http" /\ AsksHttp
  BY <1>2 DEF CallersInv, AnswerKept
<1>7. ASSUME answer'.ok, answer'.op # "health"
      PROVE  /\ answer'.whole /\ ~response.error /\ response.status \in 200..299
             /\ ~response.cut /\ ~response.truncated /\ ~response.raw
  <2>1. answer.op \in {"generate", "analyse"}
    BY <1>5, <1>6, <1>7 DEF CallersInv, AnswerKept, AnswerRecords
  <2>2. /\ document = "good" /\ ~response.error /\ response.status \in 200..299
        /\ ~response.cut /\ ~response.truncated /\ ~response.raw
    BY <1>5, <1>7, <2>1, AcceptedIsWhole
  <2> QED BY <1>5, <2>2
<1>8. AnswersAreWhole'  BY <1>2, <1>5, <1>6, <1>7 DEF AnswersAreWhole, AsksHttp
<1> QED BY <1>1, <1>2, <1>5, <1>8 DEF AnswerKept

\* A step that leaves the client alone.
LEMMA ClientStays ==
  ASSUME ClientInv, UNCHANGED clientVars PROVE ClientInv'
<1>1. UNCHANGED <<options, call, server, expired, cancelled, response, contacts>>
  BY DEF clientVars
<1>2. CallTyped' /\ ServerTyped'  BY <1>1 DEF ClientInv, CallTyped, ServerTyped
<1>3. ReadsWhatWasSent'  BY <1>1 DEF ClientInv, ReadsWhatWasSent, Wire
<1>4. PolicyOnEveryHop'  BY <1>1 DEF ClientInv, Checked, PolicyOnEveryHop
<1>5. Checked'  BY <1>1, <1>4 DEF ClientInv, Checked, Refused
<1> QED BY <1>2, <1>3, <1>5 DEF ClientInv

\* Every program begins with an idle client, pinned to its host or not.
LEMMA InitCallers == Init => CallersInv
<1> SUFFICES ASSUME Init PROVE CallersInv  OBVIOUS
<1>1. /\ call = NoCall /\ server = NoServer /\ contacts = {} /\ answer = NoAnswer
      /\ options = OptionsOf(caller)
  BY DEF Init, ClientInit
<1>2. call.pc = "idle" /\ ~call.credentials /\ call.got = 0 /\ CallTyped
  BY <1>1 DEF NoCall, CallTyped
<1>3. ServerTyped /\ ReadsWhatWasSent
  BY <1>1, <1>2, ServersTyped, WireTyped, ClientAssumption DEF ServerTyped, ReadsWhatWasSent
<1>4. options.policy.schemes = {"http", "https"}
  <2>1. DefaultPolicy.schemes = {"http", "https"}  BY DEF DefaultPolicy
  <2>2. RestrictedTo(Home).schemes = {"http", "https"}  BY DEF RestrictedTo, DefaultPolicy
  <2> QED BY <1>1, <2>1, <2>2 DEF OptionsOf
<1>5. Checked  BY <1>1, <1>2, <1>4 DEF Checked, PolicyOnEveryHop
<1>6. AnswerKept  BY <1>1, <1>2 DEF NoAnswer, AnswerKept, AnswerRecords, AnswersAreWhole
<1> QED BY <1>2, <1>3, <1>5, <1>6 DEF CallersInv, ClientInv

\* Every step keeps the invariant, and what it does to the client is safe.
LEMMA NextCallers ==
  ASSUME CallersInv, [Next]_vars PROVE CallersInv' /\ (StepSafe \/ UNCHANGED clientVars)
<1> SUFFICES AnswerKept' /\ (StepSafe \/ UNCHANGED clientVars)
  BY ClientStays DEF CallersInv, StepSafe
<1> USE DEF CallersInv
<1>1. CASE TestSends
  <2>1. caller' = "test" /\ caller = "test" /\ answer' = answer  BY <1>1 DEF TestSends
  <2>2. AnswerKept'  BY <2>1, AnswerStays DEF AnswerKept
  <2>3. UNCHANGED clientVars \/ \E method \in {"GET", "POST"} : Send(Home, method, TRUE)
    BY <1>1 DEF TestSends
  <2> QED BY <2>2, <2>3, SendSafe
<1>2. CASE Reached \/ Recorded \/ PlainReturns
  <2>1. caller' # "ai" /\ caller # "ai" /\ answer' = answer /\ Return
    BY <1>2 DEF Reached, Recorded, PlainReturns
  <2>2. AnswerKept'  BY <2>1, AnswerStays DEF AnswerKept
  <2> QED BY <2>1, <2>2, ReturnSafe
<1>3. CASE TestEnds \/ Finished \/ UNCHANGED vars
  <2>1. UNCHANGED <<clientVars, caller, answer>>  BY <1>3 DEF TestEnds, Finished, vars
  <2>2. AnswerKept'  BY <2>1, AnswerStays DEF AnswerKept, clientVars
  <2> QED BY <2>1, <2>2
<1>4. CASE Ask  BY <1>4, AskSafe
<1>5. CASE Answered  BY <1>5, AnsweredSafe
<1>6. CASE PlainSends
  <2>1. caller' = "plain" /\ caller = "plain" /\ answer' = answer  BY <1>6 DEF PlainSends
  <2>2. AnswerKept'  BY <2>1, AnswerStays DEF AnswerKept
  <2>3. PICK method : Send(Home, method, TRUE)  BY <1>6 DEF PlainSends
  <2> QED BY <2>2, <2>3, SendSafe
<1>7. CASE ClientStep /\ UNCHANGED <<caller, test, answer>>
  <2>1. StepSafe  BY <1>7, ClientStepSafe
  <2>2. call.pc # "idle" /\ ~answer.ok
    BY <1>7 DEF ClientStep, Check, ConnectFails, Connects, SendRequest, ReadFails, ReadHead,
                ReadBody, AnswerKept
  <2>3. AsksHttp' = AsksHttp  BY <1>7 DEF AsksHttp
  <2>4. AnswersAreWhole'  BY <1>7, <2>2 DEF AnswerKept, AnswersAreWhole, AsksHttp
  <2>5. AnswerKept'  BY <1>7, <2>2, <2>3, <2>4 DEF AnswerKept
  <2> QED BY <2>1, <2>5
<1>8. CASE Environment /\ UNCHANGED <<caller, test, answer>>
  <2>1. StepSafe  BY <1>8, EnvironmentSafe
  <2>2. call' = call /\ response' = response /\ contacts' = contacts
    BY <1>8 DEF Environment, ServerSends, ServerCloses, DeadlinePasses, Cancel
  <2>3. AnswerKept'  BY <1>8, <2>2, AnswerStays DEF AnswerKept
  <2> QED BY <2>1, <2>3
<1> QED BY <1>1, <1>2, <1>3, <1>4, <1>5, <1>6, <1>7, <1>8 DEF Next

-----------------------------------------------------------------------------
(* What the client and its callers promise.                                *)

\* The invariant of the client and of its callers: no URL is connected to that
\* was not checked, no unit is read that was not sent, no answer is there
\* before the call that brings it is over.
THEOREM CallersInvariant == Spec => []CallersInv
<1>1. CallersInv /\ [Next]_vars => CallersInv'  BY NextCallers
<1> QED BY InitCallers, <1>1, PTL DEF Spec

\* Following redirects is safe whatever the server answers and however long the
\* chain is: every host that is contacted passes the policy, nothing that needs
\* TLS is spoken to in the clear, and the credentials stay with their origin.
THEOREM HopsAlwaysSafe == Spec => HopsAreSafe
<1>1. CallersInv /\ [Next]_vars => [PolicyOnEveryHop' /\ CredentialsStayHome]_clientVars
  BY NextCallers DEF StepSafe, ClientInv, Checked
<1> QED BY CallersInvariant, <1>1, PTL DEF Spec, HopsAreSafe

\* A response is bounded whatever the server sends, and the body of a peer that sent all it
\* announced is handed back whole or marked as truncated.
THEOREM BodiesAlwaysFaithful == Spec => BodiesBoundedAndFaithful
<1>1. CallersInv /\ [Next]_vars => [ResponseBounded' /\ BodyFaithful]_clientVars
  <2> SUFFICES ASSUME CallersInv, [Next]_vars, StepSafe PROVE ResponseBounded' /\ BodyFaithful
    BY NextCallers
  <2>1. call'.got \in Nat /\ call'.got <= 1 + MaxResponse
    BY DEF StepSafe, ClientInv, ReadsWhatWasSent, CallTyped
  <2>2. ResponseBounded'  BY <2>1, ClientAssumption DEF ResponseBounded
  <2> QED BY <2>2 DEF StepSafe
<1> QED BY CallersInvariant, <1>1, PTL DEF Spec, BodiesBoundedAndFaithful

\* An answer comes from the provider that was asked for, and the endpoint's is accepted
\* only from a successful reply that arrived whole.
THEOREM AnswersAlwaysWhole == Spec => []AnswersAreWhole
<1>1. CallersInv => AnswersAreWhole  BY DEF CallersInv, AnswerKept
<1> QED BY CallersInvariant, <1>1, PTL
=============================================================================
