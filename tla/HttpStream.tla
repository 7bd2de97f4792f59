---------------------------- MODULE HttpStream ----------------------------
(***************************************************************************)
(* One HTTP connection as its reader sees it: HttpRequest::recv_and_parse()*)
(* on the server, CoinClient::recv_and_parse() on the client. The peer's   *)
(* messages arrive in reads of any size. A server's request object serves  *)
(* all messages of a connection and is reset() between them; a client's    *)
(* Response is new for each call.                                          *)
(*                                                                         *)
(* A message is a record: its bytes and, where the rules of HTTP give them *)
(* one, the meaning they have.                                             *)
(***************************************************************************)
EXTENDS HttpParser

CONSTANTS
    Messages,    \* the messages a peer may send
    Openers      \* those it may send first on a connection of several

VARIABLES
    msg,         \* the message that is being received
    nth,         \* its place on the connection, from 1
    m,           \* the parser and the object it fills
    read,        \* bytes of msg that have been read
    parsed,      \* and those the parser has consumed
    open         \* recv_and_parse() has not failed

vars == <<msg, nth, m, read, parsed, open>>

Fresh(x) == http_parser_init(x.type, EmptyMessage)

Connect ==
    /\ msg' \in Messages
    /\ nth' = 1 /\ m' = Fresh(msg') /\ read' = 0 /\ parsed' = 0 /\ open' = TRUE

Init ==
    /\ msg \in Messages
    /\ nth = 1 /\ m = Fresh(msg) /\ read = 0 /\ parsed = 0 /\ open = TRUE

Receiving == open /\ ~m.r.completed

\* An iteration of recv_and_parse(): n bytes are read and parsed, and an error ends it.
Recv(n) ==
    /\ Receiving
    /\ \E out \in {parse(m, SubSeq(msg.bytes, read + 1, read + n))} :
         /\ m' = out.m
         /\ parsed' = parsed + out.parsed
         /\ open' = (out.m.errno # "ERROR")
    /\ read' = read + n
    /\ UNCHANGED <<msg, nth>>

\* The read that finds the connection closed by the peer, or times out.
RecvFails ==
    /\ Receiving
    /\ open' = FALSE
    /\ UNCHANGED <<msg, nth, m, read, parsed>>

\* handle_connection() goes round again: the next message meets the same object.
\* Response objects are not used again.
NextMessage ==
    /\ open /\ m.r.completed /\ nth = 1
    /\ msg \in Openers /\ ~upgrade_websocket(m.r)
    /\ msg' \in {x \in Messages : x.type = msg.type}
    /\ m' = http_parser_init(msg.type, IF msg.type = "HTTP_REQUEST" THEN reset(m.r) ELSE EmptyMessage)
    /\ nth' = 2 /\ read' = 0 /\ parsed' = 0
    /\ UNCHANGED open

Reconnect == ~Receiving /\ Connect

Next ==
    \/ \E n \in 1 .. Len(msg.bytes) - read : Recv(n)
    \/ RecvFails
    \/ NextMessage
    \/ Reconnect

Spec == Init /\ [][Next]_vars

----------------------------------------------------------------------------
(* Properties *)

\* A message means the same however the network cuts it: after every read the parser and
\* all that its callbacks have built are what one read of the same bytes would have left,
\* on a new object or on one that has served a request before.
SplitIndependent ==
    LET start == IF nth = 1 \/ msg.type = "HTTP_RESPONSE" THEN EmptyMessage
                 ELSE [EmptyMessage EXCEPT !.u = m.r.u]
        whole == parse(http_parser_init(msg.type, start), SubSeq(msg.bytes, 1, read))
        same(x) == [x EXCEPT !.marks_left = 0, !.nread = 0, !.r.pre_state = 0]
    IN  open /\ read > 0 /\ msg.cut =>
          /\ same(m) = same(whole.m)
          /\ parsed = whole.parsed

\* A well-formed message is understood as it was meant: method or status, target, headers
\* and body, and not one byte of what follows is taken for a part of it. No malformed
\* message is taken for one, and no response without a length for a complete one.
Understood ==
    /\ open /\ "meaning" \in DOMAIN msg /\ (m.r.completed \/ read >= msg.meaning.length) =>
         /\ m.r.completed
         /\ parsed = msg.meaning.length
         /\ m.r.body = msg.meaning.body
         /\ m.r.headers = msg.meaning.headers
         /\ IF msg.type = "HTTP_REQUEST"
            THEN /\ m.r.method = msg.meaning.method
                 /\ url_path(m.r) = msg.meaning.path
                 /\ parse_query(url_query(m.r)) = msg.meaning.query
            ELSE m.r.status_code = msg.meaning.status
    /\ msg.bad => ~m.r.completed

\* What the parser asserts about itself: at most one text is left open at the end of a
\* call, sizes are those of a body that is being read, and chunks come in chunked messages.
\* A version, a status and a length stay within their fields, and a message is complete
\* only when its callback has paused the parser.
ParserAsserts ==
    /\ m.state \in Range(State)
    /\ m.content_length \in -1 .. MaxLength
    /\ m.http_major \in 0 .. 999 /\ m.http_minor \in 0 .. 999 /\ m.status_code \in 0 .. 999
    /\ m.r.completed => m.errno = "PAUSED"
    /\ m.marks_left <= 1
    /\ open /\ m.state \in ChunkStates => "CHUNKED" \in m.flags
    /\ open /\ m.state \in {"s_chunk_data", "s_body_identity"} => m.content_length > 0
    /\ open /\ m.state = "s_chunk_data_almost_done" => m.content_length = 0

\* However long a header is, what is kept of it between two reads is bounded; trailers
\* of a chunked body are counted anew.
HeaderBounded ==
    LET kept == Len(m.r.url) + Len(m.r.field) + Len(m.r.value)
                + FoldLeft(LAMBDA n, h : n + Len(h[1]) + Len(h[2]), 0, m.r.headers)
    IN  Receiving => kept <= IF "TRAILING" \in m.flags THEN 2 * MaxHeaderSize ELSE MaxHeaderSize

=============================================================================
