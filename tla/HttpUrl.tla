------------------------------ MODULE HttpUrl ------------------------------
(***************************************************************************)
(* Bytes and byte classes of src/http/http_parser.cpp, and its URL parser: *)
(* parse_url_char(), http_parse_host() and http_parser_parse_url().        *)
(*                                                                         *)
(* A byte is its character as a string; SP, HT, CR, LF, QT (the double     *)
(* quote) and BS (the backslash) are named, and CTL stands for any other   *)
(* control character. The build does not define HTTP_PARSER_STRICT.        *)
(***************************************************************************)
EXTENDS Integers, Sequences, SequencesExt, FiniteSets, FiniteSetsExt

Small == <<"a","b","c","d","e","f","g","h","i","j","k","l","m",
           "n","o","p","q","r","s","t","u","v","w","x","y","z">>
Capital == <<"A","B","C","D","E","F","G","H","I","J","K","L","M",
             "N","O","P","Q","R","S","T","U","V","W","X","Y","Z">>
Digits == <<"0","1","2","3","4","5","6","7","8","9">>
Marks == {"-", "_", ".", "!", "~", "*", "'", "(", ")"}
Signs == Marks \cup {"$", "%", "&", "+", ",", "/", ":", ";", "<", "=", ">", "@",
                     "[", "]", "^", "{", "|", "}"}

IS_ALPHA(c) == c \in Range(Small) \cup Range(Capital)
IS_NUM(c) == c \in Range(Digits)
IS_ALPHANUM(c) == IS_ALPHA(c) \/ IS_NUM(c)
LOWER(c) == IF c \in Range(Capital) THEN Small[SelectInSeq(Capital, LAMBDA d : d = c)] ELSE c
Digit(c) == SelectInSeq(Digits, LAMBDA d : d = c) - 1
IS_HEX(c) == IS_NUM(c) \/ LOWER(c) \in {"a", "b", "c", "d", "e", "f"}
unhex(c) == IF IS_NUM(c) THEN Digit(c) ELSE SelectInSeq(Small, LAMBDA d : d = LOWER(c)) + 9
IS_USERINFO_CHAR(c) ==
    IS_ALPHANUM(c) \/ c \in Marks \/ c \in {"%", ";", ":", "&", "=", "+", "$", ","}
IS_URL_CHAR(c) == IS_ALPHANUM(c) \/ c \in Signs \/ c \in {"HT", "QT", "BS"}
IS_HOST_CHAR(c) == IS_ALPHANUM(c) \/ c \in {".", "-", "_"}
\* tokens[]: the bytes of a header's name.
TOKEN(c) == IS_ALPHANUM(c) \/ c \in {"!", "#", "$", "%", "&", "'", "*", "+", "-", ".",
                                      "^", "_", "|", "~"}
IS_HEADER_CHAR(c) == c # "CTL"

\* The numbers of enum http_parser_url_fields.
UrlFields == {"SCHEMA", "HOST", "PORT", "PATH", "QUERY", "FRAGMENT", "USERINFO"}

\* The state that byte c leads to from state s of a URL.
parse_url_char(s, c) ==
    CASE c \in {"SP", "CR", "LF"} -> "s_dead"
      [] s \in {"s_req_server_with_at", "s_req_server_start", "s_req_server"} ->
           IF s = "s_req_server_with_at" /\ c = "@" THEN "s_dead"
           ELSE IF c = "/" THEN "s_req_path"
           ELSE IF c = "?" THEN "s_req_query_string_start"
           ELSE IF c = "@" THEN "s_req_server_with_at"
           ELSE IF IS_USERINFO_CHAR(c) \/ c \in {"[", "]"} THEN "s_req_server"
           ELSE "s_dead"
      [] s = "s_req_path" ->
           IF IS_URL_CHAR(c) THEN s
           ELSE IF c = "?" THEN "s_req_query_string_start"
           ELSE IF c = "#" THEN "s_req_fragment_start" ELSE "s_dead"
      [] s \in {"s_req_query_string_start", "s_req_query_string"} ->
           IF IS_URL_CHAR(c) \/ c = "?" THEN "s_req_query_string"
           ELSE IF c = "#" THEN "s_req_fragment_start" ELSE "s_dead"
      [] s = "s_req_fragment_start" ->
           IF IS_URL_CHAR(c) \/ c = "?" THEN "s_req_fragment"
           ELSE IF c = "#" THEN s ELSE "s_dead"
      [] s = "s_req_fragment" -> IF IS_URL_CHAR(c) \/ c \in {"?", "#"} THEN s ELSE "s_dead"
      [] OTHER -> "s_dead"

\* The field a state belongs to; delimiters belong to none.
FieldOf(s) ==
    CASE s \in {"s_req_server", "s_req_server_with_at"} -> "HOST"
      [] s = "s_req_path" -> "PATH"
      [] s = "s_req_query_string" -> "QUERY"
      [] s = "s_req_fragment" -> "FRAGMENT"
      [] OTHER -> "none"

http_parse_host_char(s, c) ==
    CASE s \in {"s_http_userinfo", "s_http_userinfo_start"} ->
           IF c = "@" THEN "s_http_host_start"
           ELSE IF IS_USERINFO_CHAR(c) THEN "s_http_userinfo" ELSE "s_http_host_dead"
      [] s = "s_http_host_start" ->
           IF c = "[" THEN "s_http_host_v6_start"
           ELSE IF IS_HOST_CHAR(c) THEN "s_http_host" ELSE "s_http_host_dead"
      [] s \in {"s_http_host", "s_http_host_v6_end"} ->
           IF s = "s_http_host" /\ IS_HOST_CHAR(c) THEN s
           ELSE IF c = ":" THEN "s_http_host_port_start" ELSE "s_http_host_dead"
      [] s \in {"s_http_host_v6", "s_http_host_v6_start"} ->
           IF s = "s_http_host_v6" /\ c = "]" THEN "s_http_host_v6_end"
           ELSE IF IS_HEX(c) \/ c \in {":", "."} THEN "s_http_host_v6" ELSE "s_http_host_dead"
      [] s \in {"s_http_host_port", "s_http_host_port_start"} ->
           IF IS_NUM(c) THEN "s_http_host_port" ELSE "s_http_host_dead"
      [] OTHER -> "s_http_host_dead"

\* A field of u grows by a byte; the first one starts it afresh.
Grow(u, f, fresh, c) ==
    [u EXCEPT !.set = @ \cup {f}, !.text[f] = IF fresh THEN <<c>> ELSE Append(@, c)]

\* http_parse_host(): the host field is taken apart into user, host and port.
http_parse_host(u, found_at) ==
    LET part(s) == CASE s \in {"s_http_host", "s_http_host_v6"} -> "HOST"
                     [] s = "s_http_host_port" -> "PORT"
                     [] s = "s_http_userinfo" -> "USERINFO"
                     [] OTHER -> "none"
        step(a, c) ==
            LET s == http_parse_host_char(a.s, c)
            IN  IF a.s = "s_http_host_dead" THEN a
                ELSE IF part(s) = "none" THEN [a EXCEPT !.s = s]
                ELSE [s |-> s, u |-> Grow(a.u, part(s), s # a.s, c)]
        end == FoldLeft(step, [s |-> IF found_at THEN "s_http_userinfo_start" ELSE "s_http_host_start",
                               u |-> [u EXCEPT !.text["HOST"] = <<>>]], u.text["HOST"])
    IN  [u |-> end.u,
         ok |-> end.s \in {"s_http_host", "s_http_host_v6_end", "s_http_host_port"}]

\* http_parser_parse_url() as HttpRequest calls it, with is_connect = 1: the fields it
\* has found when it returns, with or without an error.
http_parser_parse_url(url) ==
    LET blank == [set |-> {}, text |-> [f \in UrlFields |-> <<>>]]
        step(a, c) ==
            LET s == parse_url_char(a.s, c)
                f == FieldOf(s)
            IN  IF a.s = "s_dead" THEN a
                ELSE IF f = "none" THEN [a EXCEPT !.s = s]
                ELSE [s |-> s, uf |-> f, at |-> a.at \/ s = "s_req_server_with_at",
                      u |-> Grow(a.u, f, f # a.uf, c)]
        end == FoldLeft(step, [s |-> "s_req_server_start", uf |-> "none", at |-> FALSE, u |-> blank], url)
    IN  IF end.s # "s_dead" /\ "HOST" \in end.u.set THEN http_parse_host(end.u, end.at).u ELSE end.u

=============================================================================
