---------------------------- MODULE HttpParser ----------------------------
(***************************************************************************)
(* http_parser_execute() of src/http/http_parser.cpp: a machine that takes *)
(* a byte at a time and can stop and go on anywhere. One operator stands   *)
(* for a group of its states and returns the record the byte leads to;     *)
(* "goto reexecute_byte" is a use of the next state's operator on the same *)
(* byte. The type HTTP_BOTH is not used by the repository.                 *)
(*                                                                         *)
(* The text a data callback gets is kept in m.mark: <<>> where the code's  *)
(* mark is null, <<text>> where it points at text that has been passed.    *)
(***************************************************************************)
EXTENDS HttpMessage

CONSTANTS
    MaxHeaderSize,   \* HTTP_MAX_HEADER_SIZE
    MaxLength        \* INT64_MAX

ASSUME ParserAssumption == MaxHeaderSize \in Nat \ {0} /\ MaxLength \in Nat \ {0}

Kinds == <<"field", "value", "url", "reason", "body">>

method_strings ==
    [DELETE |-> <<"D","E","L","E","T","E">>, GET |-> <<"G","E","T">>, HEAD |-> <<"H","E","A","D">>,
     POST |-> <<"P","O","S","T">>, PUT |-> <<"P","U","T">>, CONNECT |-> <<"C","O","N","N","E","C","T">>,
     OPTIONS |-> <<"O","P","T","I","O","N","S">>, TRACE |-> <<"T","R","A","C","E">>,
     COPY |-> <<"C","O","P","Y">>, LOCK |-> <<"L","O","C","K">>, MKCOL |-> <<"M","K","C","O","L">>,
     MOVE |-> <<"M","O","V","E">>, PROPFIND |-> <<"P","R","O","P","F","I","N","D">>,
     PROPPATCH |-> <<"P","R","O","P","P","A","T","C","H">>, UNLOCK |-> <<"U","N","L","O","C","K">>,
     REPORT |-> <<"R","E","P","O","R","T">>, MKACTIVITY |-> <<"M","K","A","C","T","I","V","I","T","Y">>,
     CHECKOUT |-> <<"C","H","E","C","K","O","U","T">>, MERGE |-> <<"M","E","R","G","E">>,
     MSEARCH |-> <<"M","-","S","E","A","R","C","H">>, NOTIFY |-> <<"N","O","T","I","F","Y">>,
     SUBSCRIBE |-> <<"S","U","B","S","C","R","I","B","E">>,
     UNSUBSCRIBE |-> <<"U","N","S","U","B","S","C","R","I","B","E">>, PATCH |-> <<"P","A","T","C","H">>]

\* The method a first letter stands for until a later one tells otherwise.
FirstGuess == [C |-> "CONNECT", D |-> "DELETE", G |-> "GET", H |-> "HEAD", L |-> "LOCK", M |-> "MKCOL",
               N |-> "NOTIFY", O |-> "OPTIONS", P |-> "POST", R |-> "REPORT", S |-> "SUBSCRIBE",
               T |-> "TRACE", U |-> "UNLOCK"]

\* <<guess, index, byte, better guess>>
Turns == {<<"CONNECT", 1, "H", "CHECKOUT">>, <<"CONNECT", 2, "P", "COPY">>, <<"MKCOL", 1, "O", "MOVE">>,
          <<"MKCOL", 1, "E", "MERGE">>, <<"MKCOL", 1, "-", "MSEARCH">>, <<"MKCOL", 2, "A", "MKACTIVITY">>,
          <<"POST", 1, "R", "PROPFIND">>, <<"POST", 1, "U", "PUT">>, <<"POST", 1, "A", "PATCH">>,
          <<"UNLOCK", 2, "S", "UNSUBSCRIBE">>, <<"PROPFIND", 4, "P", "PROPPATCH">>}

http_parser_init(type, r) ==
    [type |-> type, state |-> IF type = "HTTP_REQUEST" THEN "s_pre_start_req" ELSE "s_pre_start_res",
     header_state |-> "h_general", index |-> 0, nread |-> 0, content_length |-> -1,
     http_major |-> 0, http_minor |-> 0, status_code |-> 0, method |-> "DELETE", flags |-> {},
     upgrade |-> FALSE, errno |-> "OK", p |-> 0, header_start |-> 0,
     mark |-> [k \in Range(Kinds) |-> <<>>], marks_left |-> 0, r |-> r]

NewMessage(m) == IF m.type = "HTTP_REQUEST" THEN "s_pre_start_req" ELSE "s_pre_start_res"

To(m, s) == [m EXCEPT !.state = s]
Fail(m) == [m EXCEPT !.errno = "ERROR"]
MARK(m, kind) == IF m.mark[kind] = <<>> THEN [m EXCEPT !.mark[kind] = <<<<>>>>] ELSE m

\* CALLBACK_DATA: m.state is already the next state.
CALLBACK_DATA(m, kind) ==
    IF m.mark[kind] = <<>> THEN m
    ELSE [CallData(m, kind, m.mark[kind][1]) EXCEPT !.mark[kind] = <<>>]
CALLBACK_SPACE(m) == OnValue(m, <<"SP">>)

----------------------------------------------------------------------------
(* The first line *)

\* A version number or a status: at most 999.
first_digit(m, c, f, s) == IF IS_NUM(c) THEN [m EXCEPT ![f] = Digit(c), !.state = s] ELSE Fail(m)
next_digit(m, c, f) ==
    IF IS_NUM(c) /\ m[f] * 10 + Digit(c) <= 999 THEN [m EXCEPT ![f] = @ * 10 + Digit(c)] ELSE Fail(m)

start_res(m, c) ==
    LET fresh == [m EXCEPT !.flags = {}, !.content_length = -1]
    IN  IF c = "H" THEN To(fresh, "s_res_H") ELSE Fail(fresh)

start_req(m, c) ==
    LET fresh == [m EXCEPT !.flags = {}, !.content_length = -1]
    IN  IF c \in DOMAIN FirstGuess
        THEN [fresh EXCEPT !.method = FirstGuess[c], !.index = 1, !.state = "s_req_method"]
        ELSE Fail(fresh)

req_method(m, c) ==
    LET word == method_strings[m.method]
        next == [m EXCEPT !.index = @ + 1]
        turn == {t \in Turns : t[1] = m.method /\ t[2] = m.index /\ t[3] = c}
    IN  CASE m.index = Len(word) /\ c = "SP" -> To(next, "s_req_spaces_before_url")
          [] m.index < Len(word) /\ c = word[m.index + 1] -> next
          [] ~(m.index = Len(word) /\ c = "SP") /\ ~(m.index < Len(word) /\ c = word[m.index + 1]) ->
               IF turn = {} THEN Fail(m) ELSE [next EXCEPT !.method = (CHOOSE t \in turn : TRUE)[4]]

\* The status line of a response.
status_line(m, c) ==
    CASE m.state = "s_res_H"    -> To(m, "s_res_HT")
      [] m.state = "s_res_HT"   -> To(m, "s_res_HTT")
      [] m.state = "s_res_HTT"  -> To(m, "s_res_HTTP")
      [] m.state = "s_res_HTTP" -> To(m, "s_res_first_http_major")
      [] m.state = "s_res_first_http_major" -> first_digit(m, c, "http_major", "s_res_http_major")
      [] m.state = "s_res_http_major" ->
           IF c = "." THEN To(m, "s_res_first_http_minor")
           ELSE next_digit(m, c, "http_major")
      [] m.state = "s_res_first_http_minor" -> first_digit(m, c, "http_minor", "s_res_http_minor")
      [] m.state = "s_res_http_minor" ->
           IF c = "SP" THEN To(m, "s_res_first_status_code")
           ELSE next_digit(m, c, "http_minor")
      [] m.state = "s_res_first_status_code" ->
           IF c = "SP" THEN m ELSE first_digit(m, c, "status_code", "s_res_status_code")
      [] m.state = "s_res_status_code" ->
           IF c = "SP" THEN To(m, "s_res_status")
           ELSE IF c = "CR" THEN To(m, "s_res_line_almost_done")
           ELSE IF c = "LF" THEN To(m, "s_header_field_start") ELSE next_digit(m, c, "status_code")
      [] m.state = "s_res_status" ->
           IF c = "CR" THEN CALLBACK_DATA(To(MARK(m, "reason"), "s_res_line_almost_done"), "reason")
           ELSE IF c = "LF" THEN CALLBACK_DATA(To(MARK(m, "reason"), "s_header_field_start"), "reason")
           ELSE MARK(m, "reason")
      [] m.state = "s_res_line_almost_done" -> To(m, "s_header_field_start")

\* The version at the end of a request line.
request_version(m, c) ==
    CASE m.state = "s_req_http_start" ->
           IF c = "H" THEN To(m, "s_req_http_H") ELSE IF c = "SP" THEN m ELSE Fail(m)
      [] m.state = "s_req_http_H"    -> To(m, "s_req_http_HT")
      [] m.state = "s_req_http_HT"   -> To(m, "s_req_http_HTT")
      [] m.state = "s_req_http_HTT"  -> To(m, "s_req_http_HTTP")
      [] m.state = "s_req_http_HTTP" -> To(m, "s_req_first_http_major")
      [] m.state = "s_req_first_http_major" -> first_digit(m, c, "http_major", "s_req_http_major")
      [] m.state = "s_req_http_major" ->
           IF c = "." THEN To(m, "s_req_first_http_minor")
           ELSE next_digit(m, c, "http_major")
      [] m.state = "s_req_first_http_minor" -> first_digit(m, c, "http_minor", "s_req_http_minor")
      [] m.state = "s_req_http_minor" ->
           IF c = "CR" THEN To(m, "s_req_line_almost_done")
           ELSE IF c = "LF" THEN To(m, "s_header_field_start")
           ELSE next_digit(m, c, "http_minor")
      [] m.state = "s_req_line_almost_done" ->
           IF c = "LF" THEN To(m, "s_header_field_start") ELSE Fail(m)

----------------------------------------------------------------------------
(* The target of a request *)

host_start(m, c) ==
    IF c = "[" THEN To(m, "s_req_host_ipv6")
    ELSE IF IS_ALPHANUM(c) THEN To(m, "s_req_host") ELSE Fail(m)

\* After the host, and after the port.
host_end(m, c) ==
    CASE c = "/"  -> To(m, "s_req_path")
      [] c = "SP" -> CALLBACK_DATA(To(m, "s_req_http_start"), "url")
      [] c = "?"  -> To(m, "s_req_query_string_start")
      [] c = ":" /\ m.state # "s_req_port" -> To(m, "s_req_port")
      [] OTHER    -> Fail(m)

url_start(m, c) ==
    CASE m.state = "s_req_spaces_before_url" ->
           IF c = "SP" THEN m
           ELSE IF m.method = "CONNECT" THEN host_start(MARK(m, "url"), c)
           ELSE IF c \in {"/", "*"} THEN To(MARK(m, "url"), "s_req_path")
           ELSE IF IS_ALPHA(c) THEN To(MARK(m, "url"), "s_req_schema") ELSE Fail(m)
      [] m.state = "s_req_schema" ->
           IF IS_ALPHA(c) THEN m ELSE IF c = ":" THEN To(m, "s_req_schema_slash") ELSE Fail(m)
      [] m.state = "s_req_schema_slash" -> To(m, "s_req_schema_slash_slash")
      [] m.state = "s_req_schema_slash_slash" -> To(m, "s_req_host_start")
      [] m.state = "s_req_host_start" -> host_start(m, c)
      [] m.state = "s_req_host" ->
           IF IS_HOST_CHAR(c) THEN m ELSE host_end(To(m, "s_req_host_done"), c)
      [] m.state = "s_req_host_ipv6" ->
           IF IS_HEX(c) \/ c = ":" THEN m ELSE IF c = "]" THEN To(m, "s_req_host_done") ELSE Fail(m)
      [] m.state = "s_req_host_done" -> host_end(m, c)
      [] m.state = "s_req_port" -> IF IS_NUM(c) THEN m ELSE host_end(m, c)

\* Path, query and fragment: where a URL byte, ? and # lead from each of their states.
UrlStates == {"s_req_path", "s_req_query_string_start", "s_req_query_string",
              "s_req_fragment_start", "s_req_fragment"}
url_next(s, c) ==
    CASE IS_URL_CHAR(c) /\ s = "s_req_query_string_start" -> "s_req_query_string"
      [] IS_URL_CHAR(c) /\ s = "s_req_fragment_start" -> "s_req_fragment"
      [] c = "?" /\ s = "s_req_path" -> "s_req_query_string_start"
      [] c = "?" /\ s = "s_req_fragment_start" -> "s_req_fragment"
      [] c = "#" /\ s \in {"s_req_path", "s_req_query_string_start", "s_req_query_string"} ->
           "s_req_fragment_start"
      [] OTHER -> s

url_rest(m, c) ==
    LET old == [m EXCEPT !.http_major = 0, !.http_minor = 9]
    IN  CASE IS_URL_CHAR(c) \/ c \in {"?", "#"} -> To(m, url_next(m.state, c))
          [] c = "SP" -> CALLBACK_DATA(To(m, "s_req_http_start"), "url")
          [] c = "CR" -> CALLBACK_DATA(To(old, "s_req_line_almost_done"), "url")
          [] c = "LF" -> CALLBACK_DATA(To(old, "s_header_field_start"), "url")
          [] OTHER    -> Fail(m)

----------------------------------------------------------------------------
(* The end of the headers and of the message *)

message_complete(m) == OnMessageEnd(To(m, NewMessage(m)))

message_done(m) == message_complete([m EXCEPT !.nread = 0, !.header_start = m.p])

\* Mutant: a length of zero announces a body.
HeadersDoneZero(m) ==
    LET n == [m EXCEPT !.nread = 0, !.header_start = m.p]
    IN  IF "CHUNKED" \in m.flags THEN To(n, "s_chunk_size_start")
        ELSE IF m.content_length >= 0 THEN To(n, "s_body_identity")
        ELSE IF m.type = "HTTP_REQUEST" THEN message_complete(n)
        ELSE To(n, "s_body_identity_eof")

\* How the body is framed: a chunked one before a length, and without either a request
\* has none while a response lasts until the connection ends.
headers_done(m) ==
    LET n == [m EXCEPT !.nread = 0, !.header_start = m.p]
        hasBody == "CHUNKED" \in m.flags \/ m.content_length > 0
        bodiless == m.type = "HTTP_REQUEST" \/ m.status_code \in 100 .. 199 \cup {204, 304}
    IN  CASE m.upgrade /\ (m.method = "CONNECT" \/ ~hasBody) -> message_complete(n)
          [] ~(m.upgrade /\ (m.method = "CONNECT" \/ ~hasBody)) ->
               IF "CHUNKED" \in m.flags THEN To(n, "s_chunk_size_start")
               ELSE IF m.content_length > 0 THEN To(n, "s_body_identity")
               ELSE IF m.content_length = 0 \/ bodiless THEN message_complete(n)
               ELSE To(n, "s_body_identity_eof")

headers_almost_done(m, c) ==
    IF c # "LF" THEN Fail(m)
    ELSE IF "TRAILING" \in m.flags THEN message_done(To(m, "s_message_done"))
    ELSE headers_done(OnHeaderComplete(
             [m EXCEPT !.state = "s_headers_done",
                       !.upgrade = "UPGRADE" \in m.flags \/ m.method = "CONNECT"]))

----------------------------------------------------------------------------
(* A header's name *)

\* The word a first letter selects.
Matching(c) == CASE c = "c" -> "content_length" [] c = "t" -> "transfer_encoding"
                 [] c = "u" -> "upgrade" [] OTHER -> "none"

header_field_start(m, c) ==
    CASE c = "CR" -> To(m, "s_headers_almost_done")
      [] c = "LF" -> headers_almost_done(To(m, "s_headers_almost_done"), c)
      [] c \notin {"CR", "LF"} ->
           IF ~TOKEN(c) THEN Fail(m)
           ELSE [MARK(m, "field") EXCEPT
                   !.index = 0, !.state = "s_header_field",
                   !.header_state = IF Matching(LOWER(c)) = "none" THEN "h_general"
                                    ELSE "h_matching_" \o Matching(LOWER(c))]

\* One more byte of a word that is being matched: still matching, matched or another one.
match(m, word, c) ==
    LET i == m.index + 1
    IN  [m EXCEPT !.index = i,
                  !.header_state = IF i >= Len(Word[word]) \/ LOWER(c) # Word[word][i + 1] THEN "h_general"
                                   ELSE IF i = Len(Word[word]) - 1 THEN "h_" \o word ELSE @]

header_field(m, c) ==
    IF TOKEN(c)
    THEN CASE m.header_state = "h_matching_content_length"    -> match(m, "content_length", c)
           [] m.header_state = "h_matching_transfer_encoding" -> match(m, "transfer_encoding", c)
           [] m.header_state = "h_matching_upgrade"           -> match(m, "upgrade", c)
           [] OTHER -> [m EXCEPT !.header_state = "h_general"]
    ELSE IF c = ":" THEN CALLBACK_DATA(To(m, "s_header_value_start"), "field") ELSE Fail(m)

----------------------------------------------------------------------------
(* A header's value *)

\* A value without text: the header is stored at a CR only.
empty_value(m, c) ==
    IF m.header_state \in {"h_content_length", "h_transfer_encoding", "h_upgrade"} THEN Fail(m)
    ELSE IF c = "CR"
         THEN CALLBACK_DATA([m EXCEPT !.header_state = "h_general", !.state = "s_header_almost_done"], "value")
         ELSE CALLBACK_DATA(To(m, "s_header_field_start"), "value")

header_value_start(m, c) ==
    LET n == [MARK(m, "value") EXCEPT !.state = "s_header_value", !.index = 0]
    IN  CASE c \in {"SP", "HT"} -> m
          [] c \in {"CR", "LF"} -> empty_value(n, c)
          [] c \notin {"SP", "HT", "CR", "LF"} ->
               CASE m.header_state = "h_upgrade" ->
                      [n EXCEPT !.flags = @ \cup {"UPGRADE"}, !.header_state = "h_general"]
                 [] m.header_state = "h_transfer_encoding" ->
                      [n EXCEPT !.header_state = IF LOWER(c) = "c" THEN "h_matching_chunked" ELSE "h_general"]
                 [] m.header_state = "h_content_length" ->
                      IF IS_NUM(c) THEN [n EXCEPT !.content_length = Digit(c)] ELSE Fail(n)
                 [] OTHER -> [n EXCEPT !.header_state = IF c = "QT" THEN "h_general_and_quote" ELSE "h_general"]

\* The byte after the CR of a header line; without it the LF itself.
header_almost_done(m, c) ==
    LET n == [m EXCEPT !.flags = IF m.header_state = "h_transfer_encoding_chunked"
                                 THEN @ \cup {"CHUNKED"} ELSE @]
    IN  IF c = "LF" THEN To(n, "s_header_value_lws") ELSE CALLBACK_SPACE(To(n, "s_header_value"))

\* h_transfer_encoding_chunked is the name of the state after "chunked".
value_byte(m, c) ==
    CASE m.header_state = "h_general" ->
           [m EXCEPT !.header_state = IF c = "QT" THEN "h_general_and_quote" ELSE @]
      [] m.header_state = "h_general_and_quote" ->
           [m EXCEPT !.header_state = IF c = "QT" THEN "h_general"
                                      ELSE IF c = "BS" THEN "h_general_and_quote_and_escape" ELSE @]
      [] m.header_state = "h_general_and_quote_and_escape" -> [m EXCEPT !.header_state = "h_general_and_quote"]
      [] m.header_state = "h_content_length" ->
           IF c = "SP" THEN m
           ELSE IF IS_NUM(c) /\ m.content_length <= (MaxLength - 10) \div 10
                THEN [m EXCEPT !.content_length = @ * 10 + Digit(c)] ELSE Fail(m)
      [] m.header_state = "h_matching_chunked" ->
           LET n == match(m, "chunked", c)
           IN  IF n.header_state = "h_chunked" THEN [n EXCEPT !.header_state = "h_transfer_encoding_chunked"] ELSE n
      [] m.header_state = "h_transfer_encoding_chunked" ->
           [m EXCEPT !.header_state = IF c = "SP" THEN @ ELSE "h_general"]
      [] OTHER -> [m EXCEPT !.header_state = "h_general"]

header_value(m, c) ==
    LET escaped == m.header_state = "h_general_and_quote_and_escape"
    IN  CASE c = "CR" /\ ~escaped -> CALLBACK_DATA(To(m, "s_header_almost_done"), "value")
          [] c = "LF" /\ ~escaped -> header_almost_done(CALLBACK_DATA(To(m, "s_header_almost_done"), "value"), c)
          [] ~IS_HEADER_CHAR(c) /\ ~escaped -> Fail(m)
          [] OTHER -> value_byte(m, c)

\* A line that begins with white space continues the value.
header_value_lws(m, c) ==
    IF c \in {"SP", "HT"} THEN CALLBACK_SPACE(To(m, "s_header_value_start"))
    ELSE header_field_start(To(m, "s_header_field_start"), c)

----------------------------------------------------------------------------
(* The body *)

\* Mutant: the last byte of the body belongs to the next message.
BodyIdentityShort(m, c) ==
    LET n == [MARK(m, "body") EXCEPT !.content_length = @ - 1]
    IN  IF n.content_length > 0 THEN n
        ELSE message_done(CALLBACK_DATA(To(n, "s_message_done"), "body"))

body_identity(m, c) ==
    LET n == [MARK(m, "body") EXCEPT !.content_length = @ - 1]
        all == [n EXCEPT !.mark["body"] = <<Append(@[1], c)>>]
    IN  IF n.content_length > 0 THEN n
        ELSE message_done(CALLBACK_DATA(To(all, "s_message_done"), "body"))

chunk(m, c) ==
    CASE m.state = "s_chunk_size_start" ->
           IF IS_HEX(c) THEN [m EXCEPT !.content_length = unhex(c), !.state = "s_chunk_size"] ELSE Fail(m)
      [] m.state = "s_chunk_size" ->
           IF c = "CR" THEN To(m, "s_chunk_size_almost_done")
           ELSE IF c \in {";", "SP"} THEN To(m, "s_chunk_parameters")
           ELSE IF IS_HEX(c) /\ m.content_length <= (MaxLength - unhex(c)) \div 16
                THEN [m EXCEPT !.content_length = @ * 16 + unhex(c)] ELSE Fail(m)
      [] m.state = "s_chunk_parameters" -> IF c = "CR" THEN To(m, "s_chunk_size_almost_done") ELSE m
      [] m.state = "s_chunk_size_almost_done" ->
           IF m.content_length = 0
           THEN [m EXCEPT !.flags = @ \cup {"TRAILING"}, !.state = "s_header_field_start"]
           ELSE To(m, "s_chunk_data")
      [] m.state = "s_chunk_data" ->
           LET n == [MARK(m, "body") EXCEPT !.content_length = @ - 1]
           IN  IF n.content_length = 0 THEN To(n, "s_chunk_data_almost_done") ELSE n
      [] m.state = "s_chunk_data_almost_done" -> CALLBACK_DATA(To(m, "s_chunk_data_done"), "body")
      [] m.state = "s_chunk_data_done" ->
           [m EXCEPT !.state = "s_chunk_size_start", !.nread = 0, !.header_start = m.p]

----------------------------------------------------------------------------
(* http_parser_execute() *)

VersionStates == {"s_req_http_start", "s_req_http_H", "s_req_http_HT", "s_req_http_HTT", "s_req_http_HTTP",
                  "s_req_first_http_major", "s_req_http_major", "s_req_first_http_minor", "s_req_http_minor",
                  "s_req_line_almost_done"}
StatusStates == {"s_res_H", "s_res_HT", "s_res_HTT", "s_res_HTTP", "s_res_first_http_major", "s_res_http_major",
                 "s_res_first_http_minor", "s_res_http_minor", "s_res_first_status_code", "s_res_status_code",
                 "s_res_status", "s_res_line_almost_done"}
HostStates == {"s_req_spaces_before_url", "s_req_schema", "s_req_schema_slash", "s_req_schema_slash_slash",
               "s_req_host_start", "s_req_host", "s_req_host_ipv6", "s_req_host_done", "s_req_port"}
ChunkStates == {"s_chunk_size_start", "s_chunk_size", "s_chunk_parameters", "s_chunk_size_almost_done",
                "s_chunk_data", "s_chunk_data_almost_done", "s_chunk_data_done"}

dispatch(m, c) ==
    CASE m.state = "s_pre_start_req" -> IF c \in {"CR", "LF"} THEN m ELSE start_req(To(m, "s_start_req"), c)
      [] m.state = "s_pre_start_res" -> IF c \in {"CR", "LF"} THEN m ELSE start_res(To(m, "s_start_res"), c)
      [] m.state = "s_req_method" -> req_method(m, c)
      [] m.state \in HostStates -> url_start(m, c)
      [] m.state \in UrlStates -> url_rest(m, c)
      [] m.state \in VersionStates -> request_version(m, c)
      [] m.state \in StatusStates -> status_line(m, c)
      [] m.state = "s_header_field_start" -> header_field_start(m, c)
      [] m.state = "s_header_field" -> header_field(m, c)
      [] m.state = "s_header_value_start" -> header_value_start(m, c)
      [] m.state = "s_header_value" -> header_value(m, c)
      [] m.state = "s_header_almost_done" -> header_almost_done(m, c)
      [] m.state = "s_header_value_lws" -> header_value_lws(m, c)
      [] m.state = "s_headers_almost_done" -> headers_almost_done(m, c)
      [] m.state = "s_body_identity" -> body_identity(m, c)
      [] m.state = "s_body_identity_eof" -> MARK(m, "body")
      [] m.state \in ChunkStates -> chunk(m, c)

\* A byte, unless an error or a pause has ended the call: what is marked grows by it.
take(m, c) ==
    IF m.errno # "OK" THEN m
    ELSE LET n == dispatch(m, c)
         IN  [n EXCEPT !.p = @ + 1,
                       !.mark = [k \in DOMAIN @ |-> IF @[k] = <<>> THEN <<>> ELSE <<Append(@[k][1], c)>>]]

\* At the start of a call text that goes on is marked from the first byte.
resume(m) ==
    LET open == (IF m.state = "s_header_field" THEN {"field"} ELSE {})
                \cup (IF m.state = "s_header_value" THEN {"value"} ELSE {})
                \cup (IF m.state \in UrlStates \cup (HostStates \ {"s_req_spaces_before_url"}) THEN {"url"} ELSE {})
                \cup (IF m.state = "s_res_status" THEN {"reason"} ELSE {})
    IN  [m EXCEPT !.p = 0, !.header_start = 0,
                  !.mark = [k \in DOMAIN @ |-> IF k \in open THEN <<<<>>>> ELSE <<>>]]

PARSING_HEADER(s) == Number(s) <= Number("s_headers_done")

\* Mutant: only the last read counts.
FinishForgets(m) ==
    LET n == [m EXCEPT !.nread = m.p - m.header_start,
                       !.marks_left = Cardinality({k \in DOMAIN m.mark : m.mark[k] # <<>>})]
    IN  IF m.errno # "OK" THEN m
        ELSE IF PARSING_HEADER(m.state) /\ n.nread > MaxHeaderSize THEN Fail(n)
        ELSE FoldLeft(CALLBACK_DATA, n, Kinds)

\* At its end the header's size is checked, and what is still marked is handed over.
finish(m) ==
    LET n == [m EXCEPT !.nread = IF PARSING_HEADER(m.state) THEN @ + m.p - m.header_start ELSE @,
                       !.marks_left = Cardinality({k \in DOMAIN m.mark : m.mark[k] # <<>>})]
    IN  IF m.errno # "OK" THEN m
        ELSE IF PARSING_HEADER(m.state) /\ n.nread > MaxHeaderSize THEN Fail(n)
        ELSE FoldLeft(CALLBACK_DATA, n, Kinds)

http_parser_execute(m, data) == finish(FoldLeft(take, resume(m), data))

\* HttpRequest::parse() and Response::parse(): what the call keeps to itself is forgotten.
parse(m, data) ==
    LET n == http_parser_execute(m, data)
    IN  [parsed |-> n.p,
         m |-> [n EXCEPT !.p = 0, !.header_start = 0, !.mark = [k \in DOMAIN @ |-> <<>>]]]

=============================================================================
