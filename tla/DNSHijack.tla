----------------------------- MODULE DNSHijack -----------------------------
(***************************************************************************)
(* naive_dns.go and browser_xhttp_ech.go: the DNS server in the process    *)
(* that the engine asks.  NaiveClient forwards to the resolver it was      *)
(* given, except that it redirects the address queries for its server name *)
(* and answers or redirects the HTTPS queries that fetch an ECH config;    *)
(* Browser XHTTP answers everything itself.                                *)
(*                                                                         *)
(* The model is one server at a time, query after query.  A name is a      *)
(* host and the port of its prefix "_8443._https."; letters' case and the  *)
(* records' times to live are left out.                                    *)
(***************************************************************************)
EXTENDS Naturals, Sequences

CONSTANT NoMessage      \* nil

VARIABLES
    setting, transport,
    conn,           \* the server's end of the socket pair
    config,         \* the ECH config list, "none" when empty
    request,
    asked,          \* what the resolver was asked for this request
    reply,          \* what the wrapped resolver returned
    sent,           \* the answer that was written
    pc

vars == <<setting, transport, conn, config, request, asked, reply, sent, pc>>

Name(port, host) == [port |-> port, host |-> host]
Plain(host) == Name("none", host)
Server == Plain("server")       \* c.serverName, and the host of c.baseURL

\* What a NaiveClient was given: an address, which may be the server name
\* itself ("same"); whether the server name ends in a dot; and for ECH nothing,
\* a config, or the name to query, its own or another.
NaiveSettings ==
    [serves : {"naive"}, address : {"same", "domain", "v4", "v6"},
     dotted : BOOLEAN, ech : {"off", "fixed", "own", "other"}]
BrowserSettings ==
    [serves : {"browser"}, address : {"same"}, dotted : {FALSE}, ech : {"fixed"}]

Types == {"A", "AAAA", "HTTPS", "TXT"}
Hosts == {"server", "domain", "elsewhere"}
Question(name, type) == [name |-> name, type |-> type]
Questions ==
    {Question(Plain(h), t) : h \in Hosts, t \in Types}
      \cup {Question(Name(p, "server"), "HTTPS") : p \in {"8443", "junk"}}
Requests == [id : {1}, question : {<<>>} \cup {<<q>> : q \in Questions}]

\* hints tells whether ipv4hint or ipv6hint is there.
Record(type, owner, target) ==
    [type |-> type, owner |-> owner, target |-> target,
     ech |-> "none", port |-> "none", hints |-> FALSE]
MapAnswer(Op(_), answer) == [i \in DOMAIN answer |-> Op(answer[i])]

Message(id, rcode, question, answer) ==
    [id |-> id, rcode |-> rcode, truncated |-> FALSE,
     question |-> question, answer |-> answer]
SetReply(rcode, answer) == Message(request.id, rcode, request.question, answer)

-----------------------------------------------------------------------------
(* HTTPS queries for the server name.                                      *)

Asks(types) == request.question # <<>> /\ request.question[1].type \in types
queryName   == request.question[1].name

matchesServerName(name) == name.host = "server"

ECHQuery == setting.ech # "off" /\ Asks({"HTTPS"}) /\ matchesServerName(queryName)

echHost == IF setting.ech = "other" THEN "ech" ELSE "server"
rewriteHTTPSQueryName(name) ==
    IF name.host = "server" THEN [name EXCEPT !.host = echHost] ELSE name

\* An alias in front of the record keeps the name that was asked for.
rewriteHTTPSAnswerNames(answer) ==
    LET back(name) ==
            IF name.host = echHost THEN [name EXCEPT !.host = "server"] ELSE name
        target(name) == IF name = Plain(echHost) THEN Server ELSE name
        Renamed(rr) ==
            IF rr.type = "HTTPS"
            THEN [rr EXCEPT !.owner = back(@), !.target = target(@)]
            ELSE rr
    IN MapAnswer(Renamed, answer)

parseHTTPSServicePort(name) == IF name.port = "junk" THEN "none" ELSE name.port

updateSVCB(rr, ech, port) ==
    [rr EXCEPT !.ech = ech, !.port = IF port = "none" THEN @ ELSE port]

injectECHConfig(answer) ==
    LET port == parseHTTPSServicePort(queryName)
        Updated(rr) ==
            IF rr.type = "HTTPS" THEN updateSVCB(rr, config, port) ELSE rr
        new == updateSVCB(Record("HTTPS", queryName, Plain(queryName.host)),
                          config, port)
    IN IF \E i \in DOMAIN answer : answer[i].type = "HTTPS"
       THEN MapAnswer(Updated, answer)
       ELSE Append(answer, new)

filterIPHintsFromHTTPS(answer) ==
    MapAnswer(LAMBDA rr : [rr EXCEPT !.hints = FALSE], answer)

-----------------------------------------------------------------------------
(* Address queries for the server name.                                    *)

\* The query loses its final dot before it is compared, the name does not.
AddressQuery ==
    /\ setting.address # "same"
    /\ Asks({"A", "AAAA"}) /\ queryName = Server
    /\ ~setting.dotted

serverIsIP == setting.address \in {"v4", "v6"}

synthesizeAddressResponse ==
    LET type == request.question[1].type IN
    IF <<type, setting.address>> \in {<<"A", "v4">>, <<"AAAA", "v6">>}
    THEN <<Record(type, queryName, Plain("serverIP"))>>
    ELSE <<>>

\* Mutated: aliases keep the name that was asked for, as for HTTPS.
rewriteAddressesOnly(answer) ==
    LET Renamed(rr) == IF rr.owner = Plain("domain") /\ rr.type # "CNAME"
                       THEN [rr EXCEPT !.owner = Server] ELSE rr
    IN MapAnswer(Renamed, answer)

rewriteAddressAnswerNames(answer) ==
    LET Renamed(rr) == IF rr.owner = Plain("domain")
                       THEN [rr EXCEPT !.owner = Server] ELSE rr
    IN MapAnswer(Renamed, answer)

-----------------------------------------------------------------------------
Init ==
    /\ setting \in NaiveSettings \cup BrowserSettings
    /\ transport \in {"packet", "stream"} /\ conn = "open"
    /\ config = IF setting.serves = "naive" /\ setting.ech = "fixed"
                THEN "first" ELSE "none"
    /\ request = NoMessage /\ asked = NoMessage
    /\ reply = NoMessage /\ sent = NoMessage
    /\ pc = "read"

\* The engine dials a server again, to ask by stream what packets truncate, too.
Serve(t) ==
    /\ pc = "done"
    /\ conn' = "open" /\ transport' = t /\ pc' = "read"
    /\ UNCHANGED <<setting, config, request, asked, reply, sent>>

\* The loops of serveDNSPacketConn and serveDNSStreamConn read a query; what
\* they cannot unpack they pass over.
Receive(r) ==
    /\ pc = "read" /\ conn = "open"
    /\ request' = r /\ pc' = "resolve"
    /\ asked' = NoMessage /\ reply' = NoMessage /\ sent' = NoMessage
    /\ UNCHANGED <<setting, transport, conn, config>>

\* The read fails: a deadline of fifteen seconds, an end, a closed socket.
ReadFails ==
    /\ pc = "read"
    /\ conn' = "closed" /\ pc' = "done"
    /\ UNCHANGED <<setting, transport, config, request, asked, reply, sent>>

\* The goroutine of the server that closes the socket when ctx is done.
ContextDone ==
    /\ conn = "open" /\ conn' = "closed"
    /\ UNCHANGED <<setting, transport, config, request, asked, reply, sent, pc>>

Reply(m) ==
    /\ reply' = m /\ pc' = "reply"
    /\ UNCHANGED <<setting, transport, conn, config, request, asked, sent>>

Ask(r) ==
    /\ asked' = r /\ pc' = "asked"
    /\ UNCHANGED <<setting, transport, conn, config, request, reply, sent>>

Renamed(name) == [request EXCEPT !.question[1].name = name]

wrapDNSResolverWithECH ==
    /\ pc = "resolve" /\ setting.serves = "naive" /\ ECHQuery
    /\ IF config # "none"
       THEN Reply(SetReply("ok", injectECHConfig(<<>>)))
       ELSE Ask(Renamed(rewriteHTTPSQueryName(queryName)))

wrapDNSResolverForServerRedirect ==
    /\ pc = "resolve" /\ setting.serves = "naive" /\ AddressQuery
    /\ IF serverIsIP
       THEN Reply(SetReply("ok", synthesizeAddressResponse))
       ELSE Ask(Renamed(Plain("domain")))

\* Neither wrapper wants it.
PassOn ==
    /\ pc = "resolve" /\ setting.serves = "naive"
    /\ ~ECHQuery /\ ~AddressQuery
    /\ Ask(request)

resolveECH ==
    /\ pc = "resolve" /\ setting.serves = "browser"
    /\ Reply(IF request.question = <<>> \/ ~matchesServerName(queryName)
             THEN SetReply("NameError", <<>>)
             ELSE CASE Asks({"A"}) ->
                         SetReply("ok", <<Record("A", queryName, Plain("loopback"))>>)
                    [] Asks({"HTTPS"}) /\ config = "none" ->
                         SetReply("ServerFailure", <<>>)
                    [] Asks({"HTTPS"}) /\ config # "none" ->
                         SetReply("ok", injectECHConfig(<<>>))
                    [] OTHER -> SetReply("ok", <<>>))

\* A connection is dialed, with a config fetched anew.
prepareECH(c) ==
    /\ setting.serves = "browser" /\ config' = c
    /\ UNCHANGED <<setting, transport, conn, request, asked, reply, sent, pc>>

-----------------------------------------------------------------------------
\* What a resolver answers, directly or through an alias, or not at all.  The
\* message may be one it keeps, without a question and with an id of its own.
Upstream(r) ==
    LET q == r.question[1]
        data == IF q.type = "HTTPS" THEN Plain(q.name.host) ELSE Plain("data")
        found(owner) ==
            [Record(q.type, owner, data) EXCEPT
                !.ech = IF q.type = "HTTPS" THEN "theirs" ELSE "none",
                !.port = IF q.type = "HTTPS" THEN q.name.port ELSE "none",
                !.hints = q.type = "HTTPS"]
        answers ==
            IF r.question = <<>> THEN {<<>>}
            ELSE {<<>>, <<found(q.name)>>,
                  <<Record("CNAME", q.name, Plain("alias")), found(Plain("alias"))>>}
    IN {NoMessage} \cup
         {Message(2, "ok", question, a) : question \in {<<>>, r.question}, a \in answers}

\* The resolver returns m, and each wrapper undoes what it has asked.
ResolverReturns(m) ==
    /\ pc = "asked"
    /\ reply' =
         IF m = NoMessage THEN NoMessage
         ELSE CASE ECHQuery /\ setting.ech = "other" ->
                     [m EXCEPT !.question = request.question,
                               !.answer = filterIPHintsFromHTTPS(
                                            rewriteHTTPSAnswerNames(@))]
                [] ECHQuery /\ setting.ech # "other" ->
                     [m EXCEPT !.answer = filterIPHintsFromHTTPS(@)]
                [] AddressQuery ->
                     [m EXCEPT !.question = request.question,
                               !.answer = rewriteAddressAnswerNames(@)]
                [] OTHER -> m
    /\ pc' = "reply"
    /\ UNCHANGED <<setting, transport, conn, config, request, asked, sent>>

normalizeDNSResponse(m) ==
    IF m = NoMessage THEN SetReply("ServerFailure", <<>>)
    ELSE [m EXCEPT !.id = request.id,
                   !.question = IF @ = <<>> THEN request.question ELSE @]

truncatedDNSResponse(rcode) ==
    [SetReply(rcode, <<>>) EXCEPT !.truncated = TRUE]

\* The end of a turn of the loop, which sends packets of up to 512 bytes.  A
\* stream notices that it is closed, packets leave that to the next read.
Write(fits) ==
    /\ pc = "reply"
    /\ transport = "stream" => fits
    /\ LET m == normalizeDNSResponse(reply) IN
       sent' = IF conn = "closed" THEN NoMessage
               ELSE IF fits THEN m ELSE truncatedDNSResponse(m.rcode)
    /\ pc' = IF conn = "closed" /\ transport = "stream" THEN "done" ELSE "read"
    /\ UNCHANGED <<setting, transport, conn, config, request, asked, reply>>

\* The answer cannot be packed.
CannotPack ==
    /\ pc = "reply" /\ pc' = "read"
    /\ UNCHANGED <<setting, transport, conn, config, request, asked, reply, sent>>

Resolve == wrapDNSResolverWithECH \/ wrapDNSResolverForServerRedirect
             \/ PassOn \/ resolveECH

Next ==
    \/ \E t \in {"packet", "stream"} : Serve(t)
    \/ \E r \in Requests : Receive(r)
    \/ ReadFails \/ ContextDone
    \/ Resolve
    \/ \E c \in {"first", "second"} : prepareECH(c)
    \/ pc = "asked" /\ \E m \in Upstream(asked) : ResolverReturns(m)
    \/ \E fits \in BOOLEAN : Write(fits)
    \/ CannotPack

\* The server runs, and its resolver, which has the context, returns.
Fairness ==
    /\ WF_vars(conn = "closed" /\ ReadFails) /\ WF_vars(Resolve)
    /\ WF_vars(pc = "asked" /\ \E m \in Upstream(asked) : ResolverReturns(m))
    /\ WF_vars(\E fits \in BOOLEAN : Write(fits))

Spec == Init /\ [][Next]_vars /\ Fairness

-----------------------------------------------------------------------------
\* Every variable stays within its type.
TypeOK ==
    /\ setting \in NaiveSettings \cup BrowserSettings
    /\ transport \in {"packet", "stream"} /\ conn \in {"open", "closed"}
    /\ config \in {"none", "first", "second"}
    /\ request \in Requests \cup {NoMessage}
    /\ pc \in {"read", "resolve", "asked", "reply", "done"}

\* What the real resolver must not be asked: the server name, when its address
\* is given by another name or is known, or its ECH config is (and the name has
\* no final dot, with which the redirect does not recognise it).
NotAsked ==
    asked # NoMessage =>
        /\ setting.serves = "naive"
        /\ \A q \in {asked.question[i] : i \in DOMAIN asked.question} :
              matchesServerName(q.name) =>
                  /\ q.type \in {"A", "AAAA"} =>
                        setting.address = "same" \/ setting.dotted
                  /\ q.type = "HTTPS" => setting.ech \in {"off", "own"}

\* Every record is about the name asked for, or about the one that an alias in
\* front of it gave.
Chained(answer) ==
    \A i \in DOMAIN answer :
        \/ answer[i].owner = queryName
        \/ \E j \in 1..(i - 1) : /\ answer[j].type = "CNAME"
                                 /\ answer[i].owner = answer[j].target

IsIn(answer, type) == \E i \in DOMAIN answer : answer[i].type = type

\* The engine gets what it needs to reach the server and nothing that would
\* lead it elsewhere: an answer to its own question, whose records follow from
\* the name it asked for (but for an alias of another ECH name); for the server
\* name no address hints beside an ECH config, the configured ECH config under
\* the service's port, and no address but the configured one.
Hijacked ==
    /\ NotAsked
    /\ sent # NoMessage =>
        LET answer == sent.answer IN
        /\ sent.id = request.id /\ sent.question = request.question
        /\ \/ Chained(answer)
           \/ ECHQuery /\ setting.ech = "other" /\ IsIn(answer, "CNAME")
        /\ ECHQuery =>
              \A i \in DOMAIN answer : answer[i].type = "HTTPS" => ~answer[i].hints
        /\ ECHQuery /\ setting.ech = "fixed" /\ sent.rcode = "ok" =>
              sent.truncated \/
                /\ Len(answer) = 1
                /\ answer[1].ech \in {"first", "second"}
                /\ answer[1].port =
                     IF queryName.port = "8443" THEN "8443" ELSE "none"
        /\ AddressQuery /\ serverIsIP =>
              \A i \in DOMAIN answer : answer[i].target = Plain("serverIP")

\* A server whose socket is closed ends.
ServerEnds == (conn = "closed") ~> (pc = "done")
=============================================================================
