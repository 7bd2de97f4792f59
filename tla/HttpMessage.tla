---------------------------- MODULE HttpMessage ----------------------------
(***************************************************************************)
(* What HttpRequest (src/http/request.h, request.cpp) and the client's     *)
(* Response (src/http/coin_client.h) make of the parser's callbacks. The   *)
(* parser (HttpParser) and the object its callbacks fill are one record m, *)
(* whose field r is the object.                                            *)
(*                                                                         *)
(* The words that the code compares with are shortened, keeping what tells *)
(* them apart byte by byte: the first letters select a word to match, and  *)
(* words that share a beginning still do.                                  *)
(***************************************************************************)
EXTENDS HttpUrl

Word == [content_length    |-> <<"c", "l", "n">>,
         transfer_encoding |-> <<"t", "e", "g">>,
         upgrade           |-> <<"u", "p", "g">>,
         chunked           |-> <<"c", "k", "d">>]

ContentLength == <<"C", "l", "n">>
TransferEncoding == <<"T", "e", "g">>
Connection == <<"C", "n">>
Upgrade == <<"U", "p", "g">>
WebSocketKey == <<"S", "k">>
Close == <<"c", "z">>
Websocket == <<"w", "s">>

\* enum state, in its order: the callbacks compare parser->state with numbers.
State == <<
    "s_dead", "s_pre_start_req_or_res", "s_start_req_or_res", "s_res_or_resp_H",
    "s_pre_start_res", "s_start_res", "s_res_H", "s_res_HT", "s_res_HTT", "s_res_HTTP",
    "s_res_first_http_major", "s_res_http_major", "s_res_first_http_minor", "s_res_http_minor",
    "s_res_first_status_code", "s_res_status_code", "s_res_status_start", "s_res_status",
    "s_res_line_almost_done", "s_pre_start_req", "s_start_req", "s_req_method",
    "s_req_spaces_before_url", "s_req_schema", "s_req_schema_slash", "s_req_schema_slash_slash",
    "s_req_server_start", "s_req_server", "s_req_server_with_at", "s_req_host_start",
    "s_req_host", "s_req_host_ipv6", "s_req_host_done", "s_req_port", "s_req_path",
    "s_req_query_string_start", "s_req_query_string", "s_req_fragment_start", "s_req_fragment",
    "s_req_http_start", "s_req_http_H", "s_req_http_HT", "s_req_http_HTT", "s_req_http_HTTP",
    "s_req_first_http_major", "s_req_http_major", "s_req_first_http_minor", "s_req_http_minor",
    "s_req_line_almost_done", "s_header_field_start", "s_header_field", "s_header_value_start",
    "s_header_value", "s_header_value_lws", "s_header_almost_done", "s_chunk_size_start",
    "s_chunk_size", "s_chunk_parameters", "s_chunk_size_almost_done", "s_headers_almost_done",
    "s_headers_done", "s_chunk_data", "s_chunk_data_almost_done", "s_chunk_data_done",
    "s_body_identity", "s_body_identity_eof", "s_message_done">>
Number(s) == SelectInSeq(State, LAMBDA t : t = s)

\* A fresh HttpRequest or Response.
EmptyMessage ==
    [url |-> <<>>, field |-> <<>>, value |-> <<>>, pre_state |-> 0, headers |-> <<>>, body |-> <<>>,
     completed |-> FALSE, keep_alive |-> FALSE, status_code |-> -1, method |-> "none",
     u |-> [set |-> {}, text |-> [f \in UrlFields |-> <<>>]], websocket_key |-> <<>>]

\* HttpRequest::reset() empties all but the URL's fields, the websocket key and pre_state.
reset(r) == [EmptyMessage EXCEPT !.u = r.u, !.websocket_key = r.websocket_key, !.pre_state = r.pre_state]

\* The header's value in a request, empty if there is none.
get_header(r, name) ==
    LET i == SelectInSeq(r.headers, LAMBDA h : h[1] = name)
    IN  IF i = 0 THEN <<>> ELSE r.headers[i][2]

----------------------------------------------------------------------------
(* Callbacks for data. They run again with the rest when a read ended inside a   *)
(* name or a value: pre_state tells them so.                                      *)

OnUrl(m, text) == [m EXCEPT !.r.url = @ \o text]

\* Mutant: the rest of a name replaces what came before.
OnFieldAssign(m, text) ==
    [m EXCEPT !.r.field = text, !.r.pre_state = Number(m.state)]

OnField(m, text) ==
    [m EXCEPT !.r.field = IF m.r.pre_state = 51 THEN @ \o text ELSE text,
              !.r.pre_state = Number(m.state)]

\* A request keeps one value per name; the response has a multimap.
Stored(m, h) ==
    Append(IF m.type = "HTTP_REQUEST" THEN SelectSeq(m.r.headers, LAMBDA g : g[1] # h[1])
                                      ELSE m.r.headers, h)

OnValue(m, text) ==
    LET value == IF m.r.pre_state = 53 THEN m.r.value \o text ELSE text
        all   == [m EXCEPT !.r.pre_state = Number(m.state)]
    IN  IF Number(m.state) = 55
        THEN [all EXCEPT !.r.headers = Stored(m, <<m.r.field, value>>),
                         !.r.value = <<>>, !.r.field = <<>>]
        ELSE [all EXCEPT !.r.value = value]

OnBody(m, text) == [m EXCEPT !.r.body = @ \o text]

\* on_reason is EmptyDataCB in both.
CallData(m, kind, text) ==
    CASE kind = "url"    -> OnUrl(m, text)
      [] kind = "field"  -> OnField(m, text)
      [] kind = "value"  -> OnValue(m, text)
      [] kind = "body"   -> OnBody(m, text)
      [] kind = "reason" -> m

----------------------------------------------------------------------------
(* Callbacks for events *)

\* A request takes its URL apart and looks for a websocket's headers.
OnHeaderComplete(m) ==
    IF m.type = "HTTP_RESPONSE" THEN m
    ELSE [m EXCEPT !.r.u = http_parser_parse_url(m.r.url),
                   !.r.websocket_key =
                       IF /\ get_header(m.r, Connection) = Upgrade
                          /\ get_header(m.r, Upgrade) = Websocket
                          /\ get_header(m.r, WebSocketKey) # <<>>
                       THEN get_header(m.r, WebSocketKey) ELSE @]

http_parser_pause(m) == [m EXCEPT !.errno = "PAUSED"]

\* The message is complete: the parser pauses. A request finds out whether the
\* connection stays open.
OnMessageEnd(m) ==
    LET odd == m.http_major > 9 \/ m.http_minor > 9
        major == IF odd THEN 1 ELSE m.http_major
        minor == IF odd THEN 1 ELSE m.http_minor
        closes == [i \in DOMAIN get_header(m.r, Connection) |-> LOWER(get_header(m.r, Connection)[i])] = Close
        done == http_parser_pause([m EXCEPT !.r.completed = TRUE])
    IN  IF m.type = "HTTP_RESPONSE" THEN [done EXCEPT !.r.status_code = m.status_code]
        ELSE [done EXCEPT !.http_major = major, !.http_minor = minor, !.r.method = m.method,
                          !.r.keep_alive = IF major = 1 /\ closes THEN FALSE
                                           ELSE @ \/ (major = 1 /\ minor = 1)]

url_path(r) == r.u.text["PATH"]
url_query(r) == r.u.text["QUERY"]
upgrade_websocket(r) == r.websocket_key # <<>>

\* split(): the pieces between separators; an empty last one is not a piece.
split(text, sep) ==
    LET cut == FoldLeft(LAMBDA a, c : IF c = sep THEN [a EXCEPT !.out = Append(@, a.piece), !.piece = <<>>]
                                      ELSE [a EXCEPT !.piece = Append(@, c)],
                        [out |-> <<>>, piece |-> <<>>], text)
    IN  IF cut.piece = <<>> THEN cut.out ELSE Append(cut.out, cut.piece)

\* The pairs of a query string; a later pair with the same name wins.
parse_query(text) ==
    LET pairs == split(text, "&")
    IN  FoldLeft(LAMBDA q, pair : LET kv == split(pair, "=")
                                  IN  IF Len(kv) # 2 THEN q
                                      ELSE Append(SelectSeq(q, LAMBDA e : e[1] # kv[1]), kv),
                 <<>>, pairs)

=============================================================================
