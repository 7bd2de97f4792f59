--------------------------- MODULE MCHttpStream ---------------------------
(* Messages for HttpStream: every method, every way to frame a body, every kind of      *)
(* header line, well formed and not.                                                    *)
EXTENDS HttpStream

CRLF == <<"CR", "LF">>
Version == <<"H", "T", "T", "P", "/", "1", ".", "1">>
Line(h) == h[1] \o <<":", "SP">> \o h[2] \o CRLF
Lines(hs) == FlattenSeq([i \in DOMAIN hs |-> Line(hs[i])]) \o CRLF

Start(method, target) == method_strings[method] \o <<"SP">> \o target \o <<"SP">> \o Version \o CRLF
Known(type, bytes, meaning, more) ==
    [type |-> type, bytes |-> bytes \o more, meaning |-> [meaning EXCEPT !.length = Len(bytes)],
     bad |-> FALSE, cut |-> TRUE]

Request(method, path, query, hs, sent, body, more) ==
    Known("HTTP_REQUEST",
          Start(method, IF query = <<>> THEN path ELSE path \o <<"?", "k", "=", query[1][2][1]>>)
            \o Lines(hs) \o sent,
          [length |-> 0, body |-> body, headers |-> hs, method |-> method, path |-> path, query |-> query], more)
Response(status, hs, sent, body, more) ==
    Known("HTTP_RESPONSE", Version \o <<"SP">> \o status.text \o CRLF \o Lines(hs) \o sent,
          [length |-> 0, body |-> body, headers |-> hs, status |-> status.code], more)
Odd(type, bytes, bad, cut) == [type |-> type, bytes |-> bytes, bad |-> bad, cut |-> cut]

abc == <<"a", "b", "c">>
Chunks == <<"3", ";", "x">> \o CRLF \o abc \o CRLF \o <<"1", "SP">> \o CRLF \o <<"d">> \o CRLF
          \o <<"0">> \o CRLF
Chunked == <<TransferEncoding, <<"C", "k", "d">>>>
Length(n) == <<ContentLength, n>>

Simple == [method \in DOMAIN method_strings |->
             IF method = "CONNECT"
             THEN Known("HTTP_REQUEST", Start(method, <<"a", ":", "1">>) \o CRLF,
                        [length |-> 0, body |-> <<>>, headers |-> <<>>, method |-> method,
                         path |-> <<>>, query |-> <<>>], <<>>)
             ELSE Request(method, <<"/">>, <<>>, <<>>, <<>>, <<>>, <<>>)]

TwoHeaders == Request("GET", <<"/", "a">>, <<<<<<"k">>, <<"v">>>>>>,
                      <<<<Connection, Close>>, <<<<"C", "l", "x">>, <<"QT", "a", "BS", "QT", ",", "b">>>>>>,
                      <<>>, <<>>, <<"G">>)
Sized == Request("POST", <<"/">>, <<>>, <<Length(<<"1", "2">>)>>, abc \o abc \o abc \o abc,
                 abc \o abc \o abc \o abc, <<"G", "E">>)
Pieces == Request("PUT", <<"/">>, <<>>, <<Chunked>>, Chunks \o CRLF, abc \o <<"d">>, <<"P">>)
Trailer == [Pieces EXCEPT !.bytes = Start("PUT", <<"/">>) \o Lines(<<Chunked>>) \o Chunks \o Lines(<<<<<<"T">>, abc>>>>),
                          !.meaning.headers = <<Chunked, <<<<"T">>, abc>>>>,
                          !.meaning.length = Len(Start("PUT", <<"/">>) \o Lines(<<Chunked>>) \o Chunks
                                                   \o Lines(<<<<<<"T">>, abc>>>>))]
Websockets == Request("GET", <<"/">>, <<>>,
                      <<<<Connection, Upgrade>>, <<Upgrade, Websocket>>, <<WebSocketKey, abc>>>>, <<>>, <<>>, <<"k">>)

\* Lines the parser accepts in ways of its own: folded, ended by a LF only, empty, quoted.
Folded == Odd("HTTP_REQUEST", Start("GET", <<"/">>) \o <<"a", ":", "b", "CR", "LF", "HT", "c", "LF", "d", ":", "LF",
                                   "e", ":", "QT", "BS", "CR", "QT", "LF", "f", ":">> \o CRLF \o CRLF, FALSE, TRUE)
BareCR == Odd("HTTP_REQUEST", Start("GET", <<"/">>) \o <<"a", ":", "b", "CR", "c">> \o CRLF \o CRLF, FALSE, FALSE)
Absolute == Odd("HTTP_REQUEST", Start("GET", <<"h", ":", "/", "/", "a", ":", "1", "/", "b", "?", "c", "#", "d">>) \o CRLF,
                FALSE, TRUE)
Long == Odd("HTTP_REQUEST", Start("GET", <<"/">>) \o <<"a", ":">> \o [i \in 1 .. MaxHeaderSize |-> "b"] \o CRLF \o CRLF,
            FALSE, FALSE)
BadRequests ==
    {Odd("HTTP_REQUEST", b, TRUE, TRUE) :
       b \in {<<"G", "E", "X", "SP">>, <<"P", "U", "S", "T">>, <<"M", "K", "X">>, <<"Z">>,
              <<"G", "E", "T", "SP", "CTL">>,
              <<"G", "E", "T", "SP", "/", "SP", "H", "T", "T", "P", "/", "1", ".", "1", "1", "1", "1", "CR">>,
              Start("GET", <<"/">>) \o Lines(<<Length(<<"9", "9", "9", "9", "9">>)>>),
              Start("GET", <<"/">>) \o Lines(<<Length(<<"x">>)>>),
              Start("GET", <<"/">>) \o <<"C", "l", "n", ":">> \o CRLF \o CRLF,
              Start("GET", <<"/">>) \o Lines(<<<<<<"a", "SP">>, <<"b">>>>>>),
              Start("PUT", <<"/">>) \o Lines(<<Chunked>>) \o <<"f", "f", "f", "f", "f">> \o CRLF,
              Start("PUT", <<"/">>) \o Lines(<<Chunked>>) \o <<"g">> \o CRLF}}

Status(code, text) == [code |-> code, text |-> text]
Responses ==
    {Response(Status(200, <<"2", "0", "0", "SP", "O", "K">>), <<Length(<<"3">>), <<Connection, Close>>>>, abc, abc, <<"H">>),
     Response(Status(204, <<"2", "0", "4">>), <<>>, <<>>, <<>>, <<"H">>),
     Response(Status(404, <<"4", "0", "4", "SP", "N">>), <<Length(<<"0">>)>>, <<>>, <<>>, <<>>),
     Response(Status(200, <<"2", "0", "0", "SP", "O", "K">>), <<Chunked>>, Chunks \o CRLF, abc \o <<"d">>, <<>>),
     Odd("HTTP_RESPONSE", Version \o <<"SP", "4", "0", "0", "SP", "B">> \o CRLF \o CRLF \o abc, TRUE, TRUE),
     Odd("HTTP_RESPONSE", Version \o <<"SP", "2", "0", "x">>, TRUE, TRUE)}

MCMessages ==
    Range(Simple) \cup BadRequests \cup Responses
      \cup {TwoHeaders, Sized, Pieces, Trailer, Websockets, Folded, BareCR, Absolute, Long}
MCOpeners == {BareCR, Pieces}

=============================================================================
