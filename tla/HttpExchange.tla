--------------------------- MODULE HttpExchange ---------------------------
(***************************************************************************)
(* A CoinClient session (src/http/coin_client.cpp) that makes one call     *)
(* after another, the TCP connection, and CoinServer's loop on its other   *)
(* end (src/http/coin_server.h, response.cpp, restful.h).                  *)
(*                                                                         *)
(* Both ends parse with HttpParser. A read returns half of the bytes that  *)
(* have arrived or all of them; HttpStream has every other size. Headers   *)
(* that no code in the repository looks at are left out, and so are TLS    *)
(* and redirection, whose second request is commented out in the source.   *)
(***************************************************************************)
EXTENDS HttpParser

CONSTANTS
    Calls,       \* what the application may call: [method, path, body, length]
    MaxCalls,    \* calls on a session (bound)
    Outcomes     \* what a handler may do: [does |-> "text" | "error" | "nothing", status]

VARIABLES
    keep_alive,  \* the client's setting
    call,        \* the call in progress, <<>> between calls
    res,         \* its Response with the parser
    results,     \* what the calls have returned
    up, down,    \* bytes on their way to the server and to the client
    client,      \* "open", or "closed" once the session is gone
    server,      \* handle_connection(): "recv", "handle", "websocket" or "closed"
    req,         \* its HttpRequest with the parser
    handled      \* history: the requests handed to the handlers, with what was meant

vars == <<keep_alive, call, res, results, up, down, client, server, req, handled>>

CRLF == <<"CR", "LF">>
Version == <<"H", "T", "T", "P", "/", "1", ".", "1">>
Line(h) == h[1] \o <<":">> \o h[2] \o CRLF
Lines(hs) == FlattenSeq([i \in DOMAIN hs |-> Line(hs[i])]) \o CRLF
Decimal(n) == IF n < 10 THEN <<Digits[n + 1]>>
              ELSE <<Digits[n \div 100 + 1], Digits[((n \div 10) % 10) + 1], Digits[(n % 10) + 1]>>

----------------------------------------------------------------------------
(* The client *)

\* The calls of a Session: method, path, the body they are given with a length, and
\* whether they ask for a websocket.
Plain(method, path, body, length) ==
    [method |-> method, path |-> path, body |-> body, length |-> length, websocket |-> FALSE]
Get(path) == Plain("GET", path, <<>>, 0)
HeadCall(path) == Plain("HEAD", path, <<>>, 0)
Options(path) == Plain("OPTIONS", path, <<>>, 0)
Post(path, body) == Plain("POST", path, body, Len(body))
Put(path, body, length) == Plain("PUT", path, body, length)
Patch(path, body, length) == Plain("PATCH", path, body, length)
Delete(path, body, length) == Plain("DELETE", path, body, length)
WebSocket(path) == [Get(path) EXCEPT !.websocket = TRUE]

\* The body of the request: Post(), Put() and Patch() assign(body, content_length), the
\* string from that position on; Delete() the first content_length bytes.
RequestBody(c) ==
    IF c.method \in {"POST", "PUT", "PATCH"} THEN SubSeq(c.body, c.length + 1, Len(c.body))
    ELSE SubSeq(c.body, 1, c.length)

RequestHeaders(c) ==
    LET n == Len(RequestBody(c))
        connection == IF keep_alive THEN <<>> ELSE <<<<Connection, Close>>>>
        upgrade == <<<<Connection, Upgrade>>, <<Upgrade, Websocket>>, <<WebSocketKey, <<"k">>>>>>
        length == IF n = 0 /\ c.method \notin {"POST", "PUT", "PATCH"} THEN <<>>
                  ELSE <<<<ContentLength, Decimal(n)>>>>
    IN  (IF c.websocket THEN upgrade ELSE connection) \o length

\* write_request(): the line and the headers are sent. The body's send() is given
\* (req.body.size() <= 0) for a size, and sends nothing.
write_request(c) ==
    method_strings[c.method] \o <<"SP">> \o c.path \o <<"SP">> \o Version \o CRLF \o Lines(RequestHeaders(c))

Returns(error, status, body) ==
    /\ results' = Append(results, [error |-> error, call |-> call, status |-> status, body |-> body])
    /\ call' = <<>>

\* send(), handle_request(), process_request() up to the first read. What is sent to a
\* server that has closed is lost, or the send fails.
Call(c) ==
    /\ client = "open" /\ call = <<>> /\ Len(results) < MaxCalls
    /\ call' = <<c>>
    /\ res' = http_parser_init("HTTP_RESPONSE", EmptyMessage)
    /\ up' = IF server = "closed" THEN up ELSE up \o write_request(c)
    /\ UNCHANGED <<keep_alive, results, down, client, server, req, handled>>

CallNotWritten(c) ==
    /\ client = "open" /\ call = <<>> /\ Len(results) < MaxCalls
    /\ server = "closed"
    /\ results' = Append(results, [error |-> "Write", call |-> <<c>>, status |-> 0, body |-> <<>>])
    /\ UNCHANGED <<keep_alive, call, res, up, down, client, server, req, handled>>

\* Mutant: the end of the connection is noticed only between two responses.
RecvWaits == call # <<>> /\ down = <<>> /\ server = "closed" /\ res.state = "s_pre_start_res"

\* recv() returns 0 once the server has closed. The option read_write_timeout, which the
\* client sets to 5 s, is stored by ApplicationClient and never given to a stream.
RecvFails == call # <<>> /\ down = <<>> /\ server = "closed"

\* An iteration of recv_and_parse(). On completion what the read brought beyond the
\* response is dropped with the call's buffer.
ClientRecv(n) ==
    /\ call # <<>> /\ n > 0
    /\ \E m \in {parse(res, SubSeq(down, 1, n)).m} :
         /\ res' = m
         /\ IF m.errno = "ERROR" THEN Returns("Read", 0, <<>>)
            ELSE IF m.r.completed THEN Returns("Success", m.status_code, m.r.body)
            ELSE UNCHANGED <<call, results>>
    /\ down' = SubSeq(down, n + 1, Len(down))
    /\ UNCHANGED <<keep_alive, up, client, server, req, handled>>

ClientFails ==
    /\ RecvFails
    /\ Returns("Read", 0, <<>>)
    /\ UNCHANGED <<keep_alive, res, up, down, client, server, req, handled>>

\* The session is destroyed between calls and its connection closed, or its process
\* ends at any time.
EndSession ==
    /\ client = "open"
    /\ client' = "closed"
    /\ call' = <<>>
    /\ UNCHANGED <<keep_alive, res, results, up, down, server, req, handled>>

----------------------------------------------------------------------------
(* The server *)

ServerRecv(n) ==
    /\ server = "recv" /\ n > 0
    /\ \E m \in {parse(req, SubSeq(up, 1, n)).m} :
         /\ req' = m
         /\ server' = IF m.errno = "ERROR" THEN "closed" ELSE IF m.r.completed THEN "handle" ELSE "recv"
    /\ up' = SubSeq(up, n + 1, Len(up))
    /\ UNCHANGED <<keep_alive, call, res, results, down, client, handled>>

\* Mutant: a connection that ends inside a request is not noticed.
ServerEndFresh ==
    /\ server = "recv" /\ client = "closed" /\ up = <<>> /\ req.state = "s_pre_start_req"
    /\ server' = "closed"
    /\ UNCHANGED <<keep_alive, call, res, results, up, down, client, req, handled>>

\* The read fails: the client has closed. (The server's streams have no timeout.)
ServerEnd ==
    /\ server = "recv" /\ client = "closed" /\ up = <<>>
    /\ server' = "closed"
    /\ UNCHANGED <<keep_alive, call, res, results, up, down, client, req, handled>>

\* Mutant: the length does not count the last byte.
MakeResponseShort(status, body, alive) ==
    Version \o <<"SP">> \o Decimal(status) \o CRLF
      \o IF status = 400 THEN CRLF
         ELSE Lines(<<<<ContentLength, Decimal(Len(body) - 1)>>>>
                      \o IF alive THEN <<>> ELSE <<<<Connection, Close>>>>) \o body

\* HttpResponse::make_response(): a 400 is a line and nothing else.
make_response(status, body, alive) ==
    Version \o <<"SP">> \o Decimal(status) \o CRLF
      \o IF status = 400 THEN CRLF
         ELSE Lines(<<<<ContentLength, Decimal(Len(body))>>>>
                      \o IF alive THEN <<>> ELSE <<<<Connection, Close>>>>) \o body

\* RestFul::handle() and the handler: a text of the handler's, an error or an exception,
\* which end the connection, or a handler that writes nothing.
Reply(o, r) ==
    IF o.does = "error" THEN [bytes |-> make_response(o.status, <<"e">>, FALSE), alive |-> FALSE]
    ELSE IF o.does = "nothing" THEN [bytes |-> <<>>, alive |-> r.keep_alive]
    ELSE [bytes |-> make_response(o.status, url_path(r), r.keep_alive), alive |-> r.keep_alive]

\* The rest of a round of handle_connection(): reply, and go on or close. A reply of no
\* bytes ends it, and so does a client that is gone.
Handle(outcome) ==
    /\ server = "handle" /\ ~upgrade_websocket(req.r)
    /\ LET reply == Reply(outcome, req.r)
           sent == reply.bytes # <<>> /\ client = "open"
       IN  /\ down' = IF client = "open" THEN down \o reply.bytes ELSE down
           /\ server' = IF sent /\ reply.alive THEN "recv" ELSE "closed"
    /\ handled' = Append(handled, [method |-> req.r.method, path |-> url_path(req.r), status |-> outcome.status])
    /\ req' = http_parser_init("HTTP_REQUEST", reset(req.r))
    /\ UNCHANGED <<keep_alive, call, res, results, up, client>>

\* handle_websocket(): the connection leaves HTTP.
Switch ==
    /\ server = "handle" /\ upgrade_websocket(req.r)
    /\ server' = "websocket"
    /\ down' = down \o Version \o <<"SP">> \o Decimal(101) \o CRLF \o CRLF
    /\ handled' = Append(handled, [method |-> req.r.method, path |-> url_path(req.r), status |-> 101])
    /\ UNCHANGED <<keep_alive, call, res, results, up, client, req>>

LeaveWebsocket ==
    /\ server = "websocket" /\ client = "closed"
    /\ server' = "closed"
    /\ UNCHANGED <<keep_alive, call, res, results, up, down, client, req, handled>>

----------------------------------------------------------------------------

Init ==
    /\ keep_alive \in BOOLEAN
    /\ call = <<>> /\ res = http_parser_init("HTTP_RESPONSE", EmptyMessage) /\ results = <<>>
    /\ up = <<>> /\ down = <<>>
    /\ client = "open" /\ server = "recv"
    /\ req = http_parser_init("HTTP_REQUEST", EmptyMessage) /\ handled = <<>>

Sizes(s) == {Len(s), Len(s) \div 2}

Done == client = "closed" /\ server = "closed" /\ UNCHANGED vars

ServerStep ==
    \/ \E n \in Sizes(up) : ServerRecv(n)
    \/ ServerEnd
    \/ \E o \in Outcomes : Handle(o)
    \/ Switch
    \/ LeaveWebsocket

Next ==
    \/ \E c \in Calls : Call(c) \/ CallNotWritten(c)
    \/ \E n \in Sizes(down) : ClientRecv(n)
    \/ ClientFails
    \/ EndSession
    \/ ServerStep
    \/ Done

\* A read returns when data has arrived or the peer is gone, and a handler that was
\* called returns. The steps that parse are stated by their effect.
Reads(s, s1) == \E n \in Sizes(s) \ {0} : s1 = SubSeq(s, n + 1, Len(s))

Fairness ==
    /\ WF_down(call # <<>> /\ Reads(down, down'))
    /\ WF_call(ClientFails)
    /\ WF_up(server = "recv" /\ Reads(up, up'))
    /\ WF_server(server = "handle" /\ server' \in {"recv", "closed", "websocket"})
    /\ WF_server(ServerEnd \/ LeaveWebsocket)

Spec == Init /\ [][Next]_vars /\ Fairness

----------------------------------------------------------------------------
(* Properties *)

Failed(i) == \E j \in 1 .. i : results[j].error # "Success"

\* While the calls of a session succeed, client and server agree: each result is the
\* answer to its own call, the server has handled exactly the calls made, each once and
\* as it was made, and no byte of an answered call is still on its way. A call
\* reads into a response that is not complete yet, and one that asked for the connection
\* to be closed, or was answered with an error, is the last one handled on it.
InStep ==
    /\ call # <<>> => ~res.r.completed
    /\ ~keep_alive => Len(handled) <= 1
    /\ \A i \in 1 .. Len(results) - 1 : results[i].status = 500 => results[i + 1].error # "Success"
    /\ \A i \in DOMAIN results :
         ~Failed(i) =>
           /\ Len(handled) >= i
           /\ handled[i].method = results[i].call[1].method
           /\ handled[i].path = results[i].call[1].path
           /\ results[i].status = 200 => results[i].body = results[i].call[1].path
    /\ client = "open" /\ ~Failed(Len(results)) => Len(handled) <= Len(results) + Len(call)
    /\ client = "open" /\ ~Failed(Len(results)) /\ call = <<>> => up = <<>> /\ down = <<>>

\* A call that the server has answered with a length, or whose connection the server
\* has closed, returns.
AnsweredCallReturns ==
    call # <<>> /\ (server = "closed" \/ (Len(handled) > Len(results) /\ Last(handled).status # 400))
      ~> call = <<>>

\* A server lets go of a connection once its client has.
ServerLetsGo == client = "closed" ~> server = "closed"

=============================================================================
