------------------------------ MODULE HttpParser ------------------------------
(***************************************************************************)
(* The HTTP parser imonitor.c runs on each request: http_parser_execute()  *)
(* of http-parser/http_parser.c, one character per step, compiled with     *)
(* HTTP_PARSER_STRICT.  The stream may be cut into calls anywhere; between *)
(* two calls only the fields of struct http_parser survive, some of them   *)
(* in a byte.                                                              *)
(*                                                                         *)
(* What is read is abstracted to what the parser branches on.  Letters are *)
(* case-insensitive classes, a keyword is shortened to the letters at      *)
(* which its matching starts, branches and ends, a version number or a     *)
(* status code to its number of significant digits, and the 23 methods to  *)
(* CONNECT (which upgrades), COPY (which CONNECT's prefix can turn into),  *)
(* HEAD (which HTTP_BOTH singles out) and "other".                         *)
(***************************************************************************)
EXTENDS Integers, Sequences

CONSTANTS
  Chars,         \* the characters the stream is made of
  Types,         \* the types http_parser_init() is called with
  HeaderResults, \* what on_headers_complete returns: 0, or 1 for "no body"
  Limit,         \* HTTP_MAX_HEADER_SIZE
  Byte,          \* 2^8: index and nread are cast to unsigned char; no keyword's
                 \* letters, as they are shortened here, come near it
  Size,          \* 2^64: content_length is a size_t
  MaxDigits      \* digits of 999, the largest version or status code

Letters  == {"C", "E", "G", "H", "K", "N", "O", "P", "T", "U", "X"}
Digits   == {"0", "2"}
Alphabet == Letters \cup Digits
              \cup {"CR", "LF", "SP", ":", ";", "/", "?", "#", "."}

ASSUME HttpParserAssumption ==
  /\ Chars \subseteq Alphabet
  /\ Types \subseteq {"REQUEST", "RESPONSE", "BOTH"}
  /\ HeaderResults \subseteq {0, 1}
  /\ Limit \in Nat /\ Byte \in Nat \ 0 .. 3 /\ Size \in Nat \ {0, 1}
  /\ MaxDigits \in Nat \ {0}

VARIABLES
  call,    \* "idle" between two calls, "running" in one, or what ended the last:
           \* "dead", "upgraded", "overflow" or "halted"
  parser,  \* struct http_parser, with the locals of a call in their fields
  whole,   \* the same stream from its first byte, in one call that never ends
  due      \* history: body bytes announced and not yet delivered

vars == <<call, parser, whole, due>>

-----------------------------------------------------------------------------
(* The states.                                                             *)

StartStates == {"s_start_req", "s_start_res", "s_start_req_or_res"}
ResponseStates ==
  {"s_res_H", "s_res_HT", "s_res_HTT", "s_res_HTTP", "s_res_first_http_major",
   "s_res_http_major", "s_res_first_http_minor", "s_res_http_minor",
   "s_res_first_status_code", "s_res_status_code", "s_res_status",
   "s_res_line_almost_done"}
UrlStates ==
  {"s_req_schema", "s_req_schema_slash", "s_req_schema_slash_slash",
   "s_req_host", "s_req_port", "s_req_path", "s_req_query_string_start",
   "s_req_query_string", "s_req_fragment_start", "s_req_fragment"}
VersionStates ==
  {"s_req_http_start", "s_req_http_H", "s_req_http_HT", "s_req_http_HTT",
   "s_req_http_HTTP", "s_req_first_http_major", "s_req_http_major",
   "s_req_first_http_minor", "s_req_http_minor", "s_req_line_almost_done"}
HeaderStates ==
  {"s_header_field_start", "s_header_field", "s_header_value_start",
   "s_header_value", "s_header_almost_done", "s_headers_almost_done"}
ChunkStates ==
  {"s_chunk_size_start", "s_chunk_size", "s_chunk_parameters",
   "s_chunk_size_almost_done", "s_chunk_data", "s_chunk_data_almost_done",
   "s_chunk_data_done"}
BodyStates == {"s_body_identity", "s_chunk_data"}
TableStates ==
  ResponseStates \cup {"s_req_spaces_before_url"} \cup UrlStates \cup VersionStates

(* PARSING_HEADER: the states that count against HTTP_MAX_HEADER_SIZE.     *)
PARSING_HEADER(s) ==
  s \notin BodyStates \cup {"s_body_identity_eof", "s_chunk_data_almost_done",
                            "s_chunk_data_done"}

(* Marks of a call that is resumed in state s: the string the state is in  *)
(* the middle of starts over at the first byte of the new buffer.  First a *)
(* mutant that forgets the URL at a port.                                  *)
Resumed_NoPort(s) ==
  {k \in {"url"} : s \in UrlStates \ {"s_req_port"}}
    \cup {k \in {"path"} : s = "s_req_path"}
    \cup {k \in {"query_string"} : s = "s_req_query_string"}
    \cup {k \in {"fragment"} : s = "s_req_fragment"}
    \cup {k \in {"header_field"} : s = "s_header_field"}
    \cup {k \in {"header_value"} : s = "s_header_value"}

Resumed(s) ==
  {k \in {"url"} : s \in UrlStates}
    \cup {k \in {"path"} : s = "s_req_path"}
    \cup {k \in {"query_string"} : s = "s_req_query_string"}
    \cup {k \in {"fragment"} : s = "s_req_fragment"}
    \cup {k \in {"header_field"} : s = "s_header_field"}
    \cup {k \in {"header_value"} : s = "s_header_value"}

Unset == Size - 1   \* content_length = -1

Error(m) == [m EXCEPT !.state = "s_dead"]

-----------------------------------------------------------------------------
(* What is table-driven here: <<state, characters, next state>>.           *)

Url == Letters \cup Digits \cup {":", ";", "/", "."}   \* normal_url_char
Token == Letters \cup Digits \cup {"SP", "#", "/", "."}

StatusRows ==
  { <<"s_res_H", {"T"}, "s_res_HT">>,
    <<"s_res_HT", {"T"}, "s_res_HTT">>,
    <<"s_res_HTT", {"P"}, "s_res_HTTP">>,
    <<"s_res_HTTP", {"/"}, "s_res_first_http_major">>,
    <<"s_res_first_http_major", {"2"}, "s_res_http_major">>,
    <<"s_res_http_major", Digits, "s_res_http_major">>,
    <<"s_res_http_major", {"."}, "s_res_first_http_minor">>,
    <<"s_res_first_http_minor", Digits, "s_res_http_minor">>,
    <<"s_res_http_minor", Digits, "s_res_http_minor">>,
    <<"s_res_http_minor", {"SP"}, "s_res_first_status_code">>,
    <<"s_res_first_status_code", {"SP"}, "s_res_first_status_code">>,
    <<"s_res_first_status_code", Digits, "s_res_status_code">>,
    <<"s_res_status_code", Digits, "s_res_status_code">>,
    <<"s_res_status_code", {"SP"}, "s_res_status">>,
    <<"s_res_status_code", {"CR"}, "s_res_line_almost_done">>,
    <<"s_res_status_code", {"LF"}, "s_header_field_start">>,
    <<"s_res_status", {"CR"}, "s_res_line_almost_done">>,
    <<"s_res_status", {"LF"}, "s_header_field_start">>,
    <<"s_res_status", Alphabet \ {"CR", "LF"}, "s_res_status">>,
    <<"s_res_line_almost_done", {"LF"}, "s_header_field_start">> }

HostRows ==
  { <<"s_req_spaces_before_url", {"SP"}, "s_req_spaces_before_url">>,
    <<"s_req_spaces_before_url", {"/"}, "s_req_path">>,
    <<"s_req_spaces_before_url", Letters, "s_req_schema">>,
    <<"s_req_schema", Letters, "s_req_schema">>,
    <<"s_req_schema", {":"}, "s_req_schema_slash">>,
    <<"s_req_schema", Digits \cup {"."}, "s_req_host">>,
    <<"s_req_schema_slash", {"/"}, "s_req_schema_slash_slash">>,
    <<"s_req_schema_slash_slash", {"/"}, "s_req_host">>,
    <<"s_req_host", Letters \cup Digits \cup {"."}, "s_req_host">>,
    <<"s_req_host", {":"}, "s_req_port">>,
    <<"s_req_port", Digits, "s_req_port">> }
    \cup {<<s, {"/"}, "s_req_path">> : s \in {"s_req_host", "s_req_port"}}
    \cup {<<s, {"SP"}, "s_req_http_start">> : s \in {"s_req_host", "s_req_port"}}

PathStates == {"s_req_path", "s_req_query_string_start", "s_req_query_string",
               "s_req_fragment_start", "s_req_fragment"}

(* Without a version the request is HTTP/0.9 and the line ends here.       *)
PathRows ==
  { <<"s_req_path", Url, "s_req_path">>,
    <<"s_req_path", {"?"}, "s_req_query_string_start">>,
    <<"s_req_path", {"#"}, "s_req_fragment_start">>,
    <<"s_req_query_string_start", Url, "s_req_query_string">>,
    <<"s_req_query_string_start", {"?"}, "s_req_query_string_start">>,
    <<"s_req_query_string_start", {"#"}, "s_req_fragment_start">>,
    <<"s_req_query_string", Url \cup {"?"}, "s_req_query_string">>,
    <<"s_req_query_string", {"#"}, "s_req_fragment_start">>,
    <<"s_req_fragment_start", Url \cup {"?"}, "s_req_fragment">>,
    <<"s_req_fragment_start", {"#"}, "s_req_fragment_start">>,
    <<"s_req_fragment", Url \cup {"?", "#"}, "s_req_fragment">> }
    \cup {<<s, {"SP"}, "s_req_http_start">> : s \in PathStates}
    \cup {<<s, {"CR"}, "s_req_line_almost_done">> : s \in PathStates}
    \cup {<<s, {"LF"}, "s_header_field_start">> : s \in PathStates}

VersionRows ==
  { <<"s_req_http_start", {"SP"}, "s_req_http_start">>,
    <<"s_req_http_start", {"H"}, "s_req_http_H">>,
    <<"s_req_http_H", {"T"}, "s_req_http_HT">>,
    <<"s_req_http_HT", {"T"}, "s_req_http_HTT">>,
    <<"s_req_http_HTT", {"P"}, "s_req_http_HTTP">>,
    <<"s_req_http_HTTP", {"/"}, "s_req_first_http_major">>,
    <<"s_req_first_http_major", {"2"}, "s_req_http_major">>,
    <<"s_req_http_major", Digits, "s_req_http_major">>,
    <<"s_req_http_major", {"."}, "s_req_first_http_minor">>,
    <<"s_req_first_http_minor", Digits, "s_req_http_minor">>,
    <<"s_req_http_minor", Digits, "s_req_http_minor">>,
    <<"s_req_http_minor", {"CR"}, "s_req_line_almost_done">>,
    <<"s_req_http_minor", {"LF"}, "s_header_field_start">>,
    <<"s_req_line_almost_done", {"LF"}, "s_header_field_start">> }

(* The rows by state; none for a state that takes no character.            *)
Rows ==
  LET all == StatusRows \cup HostRows \cup PathRows \cup VersionRows
  IN  [s \in TableStates \cup {"s_dead", "s_body_identity_eof"} |->
         {r \in all : r[1] = s}]

(* The number a state reads, and whether this is its first digit.          *)
First == [s_res_first_http_major |-> "major", s_req_first_http_major |-> "major",
          s_res_first_http_minor |-> "minor", s_req_first_http_minor |-> "minor",
          s_res_first_status_code |-> "status"]
Further == [s_res_http_major |-> "major", s_req_http_major |-> "major",
            s_res_http_minor |-> "minor", s_req_http_minor |-> "minor",
            s_res_status_code |-> "status"]

(* Significant digits after one more.                                      *)
Lengthen(n, ch) == IF n = 0 /\ ch = "0" THEN 0 ELSE n + 1

(* MARK and CALLBACK on the way from state s to state t of the URL.        *)
Mark(s, t) ==
  {k \in {"url"} : s = "s_req_spaces_before_url" /\ t \in {"s_req_path", "s_req_schema"}}
    \cup {k \in {"path"} : s # t /\ t = "s_req_path"}
    \cup {k \in {"query_string"} : s # t /\ t = "s_req_query_string"}
    \cup {k \in {"fragment"} : s # t /\ t = "s_req_fragment"}
CallBack(s, t) ==
  {k \in {"url"} : s \in UrlStates /\ t \notin UrlStates}
    \cup {k \in {"path"} : s = "s_req_path" /\ t # s}
    \cup {k \in {"query_string"} : s = "s_req_query_string" /\ t # s}
    \cup {k \in {"fragment"} : s = "s_req_fragment" /\ t # s}

(* A row's other effects: strings begin and end, digits are added up, and  *)
(* a line that ends in the URL is HTTP/0.9.                                *)
Row(m, ch) ==
  LET rows == {r \in Rows[m.state] : ch \in r[2]}
      t    == (CHOOSE r \in rows : TRUE)[3]
      to   == [m EXCEPT !.state = t,
                        !.marks = (@ \cup Mark(m.state, t)) \ CallBack(m.state, t)]
  IN  IF rows = {} THEN Error(m)
      ELSE IF ch \in Digits /\ m.state \in DOMAIN First
      THEN [to EXCEPT ![First[m.state]] = Lengthen(0, ch)]
      ELSE IF ch \in Digits /\ m.state \in DOMAIN Further
      THEN LET n == Lengthen(m[Further[m.state]], ch)
           IN  IF n > MaxDigits THEN Error(m)
               ELSE [to EXCEPT ![Further[m.state]] = n]
      ELSE IF m.state \in PathStates /\ ch \in {"CR", "LF"}
      THEN [to EXCEPT !.major = 0, !.minor = 1]
      ELSE to

-----------------------------------------------------------------------------
(* The start of a message and its method.                                  *)

method_strings == [other |-> <<"G", "E">>, HEAD |-> <<"H", "E">>,
                   CONNECT |-> <<"C", "O", "N">>, COPY |-> <<"C", "O", "P">>]
MethodOf == [C |-> "CONNECT", G |-> "other", H |-> "HEAD"]

message_begin(m) ==
  [m EXCEPT !.flags = {}, !.content_length = Unset,
            !.calls = Append(@, "message_begin")]

start_req_method_assign(m, ch) ==
  IF ch \in DOMAIN MethodOf
  THEN [m EXCEPT !.state = "s_req_method", !.method = MethodOf[ch], !.index = 1]
  ELSE Error([m EXCEPT !.method = "other", !.index = 1])

(* A response is announced for each character up to its first H.           *)
Start(m, ch) ==
  LET b == message_begin(m)
  IN  IF m.state = "s_start_res"
      THEN IF ch = "H" THEN [b EXCEPT !.state = "s_res_H"]
           ELSE IF ch \in {"CR", "LF"} THEN b
           ELSE Error(b)
      ELSE IF ch \in {"CR", "LF"} THEN m
      ELSE IF m.state = "s_start_req" THEN start_req_method_assign(b, ch)
      ELSE IF ch = "H" THEN [b EXCEPT !.state = "s_res_or_resp_H"]
      ELSE start_req_method_assign([b EXCEPT !.type = "REQUEST"], ch)

ReqOrRes(m, ch) ==
  IF ch = "T" THEN [m EXCEPT !.type = "RESPONSE", !.state = "s_res_HT"]
  ELSE IF ch = "E" THEN [m EXCEPT !.type = "REQUEST", !.method = "HEAD",
                                  !.index = 2, !.state = "s_req_method"]
  ELSE Error(m)

(* After CONNECT's first letter nothing is refused.                        *)
Method(m, ch) ==
  LET w  == method_strings[m.method]
      on == [m EXCEPT !.index = @ + 1]
  IN  IF ch = "SP" /\ m.index = Len(w)
      THEN [on EXCEPT !.state = "s_req_spaces_before_url"]
      ELSE IF m.index < Len(w) /\ ch = w[m.index + 1] THEN on
      ELSE IF m.method # "CONNECT" THEN Error(m)
      ELSE IF m.index = 2 /\ ch = "P" THEN [on EXCEPT !.method = "COPY"] ELSE on

-----------------------------------------------------------------------------
(* Headers.                                                                *)

FieldOf == [C |-> "h_C", P |-> "h_matching_proxy_connection",
            T |-> "h_matching_transfer_encoding", U |-> "h_matching_upgrade"]

Keyword ==
  [h_matching_connection |-> <<"C", "O", "N", "E">>,
   h_matching_proxy_connection |-> <<"P", "E">>,
   h_matching_content_length |-> <<"C", "O", "T", "E">>,
   h_matching_transfer_encoding |-> <<"T", "E">>,
   h_matching_upgrade |-> <<"U", "E">>,
   h_matching_transfer_encoding_chunked |-> <<"C", "E">>,
   h_matching_connection_keep_alive |-> <<"K", "E">>,
   h_matching_connection_close |-> <<"C", "E">>]

Matched ==
  [h_matching_connection |-> "h_connection",
   h_matching_proxy_connection |-> "h_connection",
   h_matching_content_length |-> "h_content_length",
   h_matching_transfer_encoding |-> "h_transfer_encoding",
   h_matching_upgrade |-> "h_upgrade",
   h_matching_transfer_encoding_chunked |-> "h_transfer_encoding_chunked",
   h_matching_connection_keep_alive |-> "h_connection_keep_alive",
   h_matching_connection_close |-> "h_connection_close"]

MatchedFields == {"h_connection", "h_content_length", "h_transfer_encoding", "h_upgrade"}
MatchedValues == {"h_transfer_encoding_chunked", "h_connection_keep_alive", "h_connection_close"}

(* One more character of a keyword.                                        *)
Match(m, ch) ==
  LET h == m.header_state
      w == Keyword[h]
      i == m.index + 1
  IN  [m EXCEPT !.index = i,
                !.header_state = IF i >= Len(w) \/ ch # w[i + 1] THEN "h_general"
                                 ELSE IF i = Len(w) - 1 THEN Matched[h] ELSE h]

NextIn(m, h) == [m EXCEPT !.index = @ + 1, !.header_state = h]

http_should_keep_alive(m) ==
  IF m.major > 0 /\ m.minor > 0 THEN "CLOSE" \notin m.flags
                               ELSE "KEEP_ALIVE" \in m.flags

start_state(t) == IF t = "REQUEST" THEN "s_start_req" ELSE "s_start_res"

(* message_complete and NEW_MESSAGE().                                     *)
Complete(m) ==
  [m EXCEPT !.calls = Append(@, "message_complete"),
            !.state = IF http_should_keep_alive(m) THEN start_state(m.type) ELSE "s_dead"]

(* headers_almost_done: r is what on_headers_complete returns.  The test   *)
(* content_length > 0 is one of a size_t, so that Unset passes it.  First  *)
(* a mutant that takes the end of a trailer for the end of the headers.    *)
HeadersDone_NoTrailer(m, ch, r) ==
  LET up == m.upgrade \/ "UPGRADE" \in m.flags \/ m.method = "CONNECT"
      n  == [m EXCEPT !.nread = 0, !.upgrade = up,
                      !.calls = Append(@, "headers_complete")]
  IN  IF ch # "LF" THEN Error(m)
      ELSE IF up THEN [n EXCEPT !.calls = Append(@, "message_complete")]
      ELSE IF r = 1 THEN Complete([n EXCEPT !.flags = @ \cup {"SKIPBODY"}])
      ELSE IF "CHUNKED" \in m.flags THEN [n EXCEPT !.state = "s_chunk_size_start"]
      ELSE IF m.content_length = 0 THEN Complete(n)
      ELSE IF m.content_length > 0 THEN [n EXCEPT !.state = "s_body_identity"]
      ELSE IF m.type = "REQUEST" \/ http_should_keep_alive(m) THEN Complete(n)
      ELSE [n EXCEPT !.state = "s_body_identity_eof"]

HeadersDone(m, ch, r) ==
  LET up == m.upgrade \/ "UPGRADE" \in m.flags \/ m.method = "CONNECT"
      n  == [m EXCEPT !.nread = 0, !.upgrade = up,
                      !.calls = Append(@, "headers_complete")]
  IN  IF ch # "LF" THEN Error(m)
      ELSE IF "TRAILING" \in m.flags THEN Complete(m)
      ELSE IF up THEN [n EXCEPT !.calls = Append(@, "message_complete")]
      ELSE IF r = 1 THEN Complete([n EXCEPT !.flags = @ \cup {"SKIPBODY"}])
      ELSE IF "CHUNKED" \in m.flags THEN [n EXCEPT !.state = "s_chunk_size_start"]
      ELSE IF m.content_length = 0 THEN Complete(n)
      ELSE IF m.content_length > 0 THEN [n EXCEPT !.state = "s_body_identity"]
      ELSE IF m.type = "REQUEST" \/ http_should_keep_alive(m) THEN Complete(n)
      ELSE [n EXCEPT !.state = "s_body_identity_eof"]

FieldStart(m, ch, r) ==
  IF ch = "CR" THEN [m EXCEPT !.state = "s_headers_almost_done"]
  ELSE IF ch = "LF" THEN HeadersDone([m EXCEPT !.state = "s_headers_almost_done"], ch, r)
  ELSE IF ch \in Token
  THEN [m EXCEPT !.state = "s_header_field", !.index = 0,
                 !.marks = @ \cup {"header_field"},
                 !.header_state = IF ch \in DOMAIN FieldOf THEN FieldOf[ch] ELSE "h_general"]
  ELSE Error(m)

FieldToken(m, ch) ==
  LET h == m.header_state
  IN  IF h = "h_C" THEN NextIn(m, IF ch = "O" THEN "h_CON" ELSE "h_general")
      ELSE IF h = "h_CON"
      THEN NextIn(m, IF ch = "N" THEN "h_matching_connection"
                     ELSE IF ch = "T" THEN "h_matching_content_length" ELSE "h_general")
      ELSE IF h \in DOMAIN Keyword THEN Match(m, ch)
      ELSE IF h \in MatchedFields /\ ch # "SP" THEN [m EXCEPT !.header_state = "h_general"]
      ELSE m

Field(m, ch) ==
  LET end == [m EXCEPT !.marks = @ \ {"header_field"}]
  IN  IF ch \in Token THEN FieldToken(m, ch)
      ELSE IF ch = ":"  THEN [end EXCEPT !.state = "s_header_value_start"]
      ELSE IF ch = "CR" THEN [end EXCEPT !.state = "s_header_almost_done"]
      ELSE IF ch = "LF" THEN [end EXCEPT !.state = "s_header_field_start"]
      ELSE Error(m)

(* Content-Length digits; the sum wraps like a size_t.  First a mutant     *)
(* that adds them up in a wider type.                                      *)
Value == [x \in Digits |-> IF x = "0" THEN 0 ELSE 2]
Decimal_NoWrap(n, ch) == n * 10 + Value[ch]
Decimal(n, ch) == (n * 10 + Value[ch]) % Size

ValueStart(m, ch) ==
  LET h == m.header_state
      in == [m EXCEPT !.state = "s_header_value", !.index = 0,
                      !.marks = @ \cup {"header_value"}]
  IN  IF ch = "SP" THEN m
      ELSE IF ch = "CR" THEN [m EXCEPT !.index = 0, !.header_state = "h_general",
                                       !.state = "s_header_almost_done"]
      ELSE IF ch = "LF" THEN [m EXCEPT !.index = 0, !.state = "s_header_field_start"]
      ELSE IF h = "h_upgrade"
      THEN [in EXCEPT !.flags = @ \cup {"UPGRADE"}, !.header_state = "h_general"]
      ELSE IF h = "h_content_length"
      THEN IF ch \in Digits THEN [in EXCEPT !.content_length = Value[ch] % Size]
                            ELSE Error(in)
      ELSE [in EXCEPT !.header_state =
              IF h = "h_transfer_encoding" /\ ch = "C" THEN "h_matching_transfer_encoding_chunked"
              ELSE IF h = "h_connection" /\ ch = "K" THEN "h_matching_connection_keep_alive"
              ELSE IF h = "h_connection" /\ ch = "C" THEN "h_matching_connection_close"
              ELSE "h_general"]

FlagOf == [h_connection_keep_alive |-> "KEEP_ALIVE", h_connection_close |-> "CLOSE",
           h_transfer_encoding_chunked |-> "CHUNKED"]

HeaderDone(m, ch) ==
  IF ch # "LF" THEN Error(m)
  ELSE [m EXCEPT !.state = "s_header_field_start",
                 !.flags = @ \cup {FlagOf[h] : h \in {m.header_state} \cap DOMAIN FlagOf}]

HeaderValue(m, ch) ==
  LET h   == m.header_state
      end == [m EXCEPT !.marks = @ \ {"header_value"}]
  IN  IF ch = "CR" THEN [end EXCEPT !.state = "s_header_almost_done"]
      ELSE IF ch = "LF" THEN HeaderDone(end, ch)
      ELSE IF h = "h_content_length"
      THEN IF ch = "SP" THEN m
           ELSE IF ch \in Digits THEN [m EXCEPT !.content_length = Decimal(@, ch)]
           ELSE Error(m)
      ELSE IF h \in DOMAIN Keyword THEN Match(m, ch)
      ELSE IF h \in MatchedValues /\ ch = "SP" THEN m
      ELSE [m EXCEPT !.header_state = "h_general"]

-----------------------------------------------------------------------------
(* Chunks.                                                                 *)

unhex == [x \in {"0", "2", "C", "E"} |->
            IF x = "0" THEN 0 ELSE IF x = "2" THEN 2 ELSE IF x = "C" THEN 12 ELSE 14]
Hex(n, ch) == (n * 16 + unhex[ch]) % Size

(* The end of the chunk-size line; nread counts each chunk's line, and the *)
(* trailer, on its own.  First a mutant that lets it run on.               *)
ChunkSizeDone_KeepsCount(m, ch) ==
  IF ch # "LF" THEN Error(m)
  ELSE IF m.content_length = 0
  THEN [m EXCEPT !.flags = @ \cup {"TRAILING"}, !.state = "s_header_field_start"]
  ELSE [m EXCEPT !.state = "s_chunk_data"]

ChunkSizeDone(m, ch) ==
  IF ch # "LF" THEN Error(m)
  ELSE IF m.content_length = 0
  THEN [m EXCEPT !.nread = 0, !.flags = @ \cup {"TRAILING"}, !.state = "s_header_field_start"]
  ELSE [m EXCEPT !.nread = 0, !.state = "s_chunk_data"]

Chunk(m, ch) ==
  CASE m.state = "s_chunk_size_start" ->
         IF ch \in DOMAIN unhex
         THEN [m EXCEPT !.content_length = unhex[ch] % Size, !.state = "s_chunk_size"]
         ELSE Error(m)
    [] m.state = "s_chunk_size" ->
         IF ch = "CR" THEN [m EXCEPT !.state = "s_chunk_size_almost_done"]
         ELSE IF ch \in DOMAIN unhex THEN [m EXCEPT !.content_length = Hex(@, ch)]
         ELSE IF ch \in {";", "SP"} THEN [m EXCEPT !.state = "s_chunk_parameters"]
         ELSE Error(m)
    [] m.state = "s_chunk_parameters" ->
         IF ch = "CR" THEN [m EXCEPT !.state = "s_chunk_size_almost_done"] ELSE m
    [] m.state = "s_chunk_size_almost_done" -> ChunkSizeDone(m, ch)
    [] m.state = "s_chunk_data_almost_done" ->
         IF ch = "CR" THEN [m EXCEPT !.state = "s_chunk_data_done"] ELSE Error(m)
    [] m.state = "s_chunk_data_done" ->
         IF ch = "LF" THEN [m EXCEPT !.state = "s_chunk_size_start"] ELSE Error(m)

(* n bytes of a body, all that the call still has or the body still needs. *)
(* First a mutant that does not count what on_body has taken.              *)
Body_NotCounted(m, n) ==
  LET on == [m EXCEPT !.calls = Append(@, "body")]
  IN  IF n < m.content_length THEN on
      ELSE IF m.state = "s_chunk_data"
      THEN [on EXCEPT !.content_length = 0, !.state = "s_chunk_data_almost_done"]
      ELSE Complete([on EXCEPT !.content_length = 0])

Body(m, n) ==
  LET on == [m EXCEPT !.content_length = @ - n, !.calls = Append(@, "body")]
  IN  IF n < m.content_length THEN on
      ELSE IF m.state = "s_chunk_data" THEN [on EXCEPT !.state = "s_chunk_data_almost_done"]
      ELSE Complete(on)

-----------------------------------------------------------------------------
(* The loop of http_parser_execute() on one character.                     *)

Dispatch(m, ch, r) ==
  CASE m.state \in StartStates           -> Start(m, ch)
    [] m.state = "s_res_or_resp_H"       -> ReqOrRes(m, ch)
    [] m.state = "s_req_method"          -> Method(m, ch)
    [] m.state = "s_header_field_start"  -> FieldStart(m, ch, r)
    [] m.state = "s_header_field"        -> Field(m, ch)
    [] m.state = "s_header_value_start"  -> ValueStart(m, ch)
    [] m.state = "s_header_value"        -> HeaderValue(m, ch)
    [] m.state = "s_header_almost_done"  -> HeaderDone(m, ch)
    [] m.state = "s_headers_almost_done" -> HeadersDone(m, ch, r)
    [] m.state \in ChunkStates           -> Chunk(m, ch)
    [] OTHER                             -> Row(m, ch)

(* m.calls keeps the last callback and starts over with each step.         *)
LastOf(calls) == <<calls[Len(calls)]>>
Count(m) == IF PARSING_HEADER(m.state) THEN m.nread + 1 ELSE m.nread
Step(m, ch, r) ==
  Dispatch([m EXCEPT !.nread = Count(m), !.calls = LastOf(@)], ch, r)

(* http_parser_init(): what it does not set keeps its value.               *)
http_parser_init(m, t) ==
  [m EXCEPT !.type = t, !.nread = 0, !.upgrade = FALSE, !.flags = {},
            !.method = "other", !.marks = {}, !.calls = <<"none">>,
            !.state = IF t = "BOTH" THEN "s_start_req_or_res" ELSE start_state(t)]

Zeroed ==
  [type |-> "REQUEST", state |-> "s_start_req", header_state |-> "h_general",
   index |-> 0, nread |-> 0, flags |-> {}, content_length |-> 0, major |-> 0,
   minor |-> 0, status |-> 0, method |-> "other", upgrade |-> FALSE,
   marks |-> {}, calls |-> <<"none">>]

(* What the end of a call writes back.  First a mutant that forgets the    *)
(* header_state.                                                           *)
Save_NoHeaderState(m) == [m EXCEPT !.header_state = "h_general",
                                   !.index = @ % Byte, !.nread = @ % Byte]
Save(m) == [m EXCEPT !.index = @ % Byte, !.nread = @ % Byte]

-----------------------------------------------------------------------------
Unknown == -1   \* no length announced; Size stands for any that wraps

Init ==
  /\ call = "idle"
  /\ parser \in {http_parser_init(Zeroed, t) : t \in Types}
  /\ whole = parser
  /\ due = Unknown

(* The same struct for the next connection, whatever state it is in.  (A   *)
(* call that ended early has left older values of the locals in it.)       *)
Initialize(t) ==
  /\ call # "running"
  /\ call' = "idle"
  /\ parser' = http_parser_init(Save(parser), t)
  /\ whole' = http_parser_init(Zeroed, t)
  /\ due' = Unknown

(* The parser at the next character: the first one of a call, or not.      *)
Entered == IF call = "idle" THEN [parser EXCEPT !.marks = Resumed(parser.state)] ELSE parser

(* Bound: nothing but a space follows the last letter of CONNECT, where    *)
(* the code would go on comparing past the end of the method's string.     *)
MethodBound(ch) ==
  parser.state = "s_req_method" /\ parser.method = "CONNECT" =>
    parser.index < Len(method_strings.CONNECT) \/ ch = "SP"

(* Bound: no chunk of 2^63 bytes or more, whose size would be negative as  *)
(* the int64_t that MIN() compares.                                        *)
ChunkBound ==
  parser.state = "s_chunk_data" => parser.content_length < Size \div 2

(* The call that never ends counts nothing against a limit.                *)
Whole(ch, r) == [Step(whole, ch, r) EXCEPT !.nread = 0]

Saturated(n) == IF n >= Size THEN Size ELSE n

DueAfter(p, ch, n) ==
  LET length == p.header_state = "h_content_length" /\ ch \in Digits
  IN  IF Len(n.calls) = 2 /\ n.calls[2] = "message_begin" THEN Unknown
      ELSE IF "TRAILING" \in p.flags THEN due
      ELSE IF p.state = "s_header_value_start" /\ length THEN Saturated(Value[ch])
      ELSE IF p.state = "s_header_value" /\ length THEN Saturated(due * 10 + Value[ch])
      ELSE IF p.state = "s_chunk_size_start" /\ ch \in DOMAIN unhex THEN Saturated(unhex[ch])
      ELSE IF p.state = "s_chunk_size" /\ ch \in DOMAIN unhex
      THEN Saturated(due * 16 + unhex[ch])
      ELSE due

(* One turn of the loop, up to the check of HTTP_MAX_HEADER_SIZE and past  *)
(* it.  A dead parser takes no character, nor does one that has upgraded.  *)
Refuse ==
  /\ call \in {"idle", "running"}
  /\ parser.state \notin BodyStates
  /\ Count(Entered) > Limit
  /\ parser' = Error(Entered)
  /\ call' = "overflow"
  /\ UNCHANGED <<whole, due>>

Character(ch, r) ==
  /\ call \in {"idle", "running"}
  /\ parser.state \notin BodyStates
  /\ MethodBound(ch)
  /\ Count(Entered) <= Limit
  /\ parser' = Step(Entered, ch, r)
  /\ whole' = Whole(ch, r)
  /\ call' = IF parser'.state = "s_dead" THEN "dead"
             ELSE IF parser'.upgrade THEN "upgraded" ELSE "running"
  /\ due' = DueAfter(Entered, ch, parser')

(* A callback returns non-zero, and the call returns without writing the   *)
(* state back; the caller closes the connection.                           *)
Halt(ch) ==
  /\ call \in {"idle", "running"}
  /\ parser.state \notin BodyStates
  /\ MethodBound(ch)
  /\ Count(Entered) <= Limit
  /\ LET n == Step(Entered, ch, 0)
     IN  Len(n.calls) > 1 \/ ~(Entered.marks \subseteq n.marks)
  /\ call' = "halted"
  /\ UNCHANGED <<parser, whole, due>>

(* The call ends with its buffer: each string it is in the middle of is    *)
(* handed over as far as it goes.                                          *)
Return ==
  /\ call = "running"
  /\ call' = "idle"
  /\ parser' = [Save(parser) EXCEPT !.marks = {}]
  /\ UNCHANGED <<whole, due>>

(* s_body_identity and s_chunk_data take what there is at once; if the     *)
(* body needs more than that, the buffer is used up.                       *)
BodyBytes(n) ==
  /\ call \in {"idle", "running"}
  /\ parser.state \in BodyStates
  /\ ChunkBound
  /\ n \in 1 .. parser.content_length
  /\ LET after == Body([Entered EXCEPT !.calls = LastOf(@)], n)
     IN  IF n < parser.content_length
         THEN parser' = Save(after) /\ call' = "idle"
         ELSE /\ parser' = after
              /\ call' = IF after.state = "s_dead" THEN "dead" ELSE "running"
  /\ whole' = Body([whole EXCEPT !.calls = LastOf(@)], n)
  /\ due' = IF due \in {Unknown, Size} THEN due ELSE due - n

Next ==
  \/ \E t \in Types : Initialize(t)
  \/ Refuse
  \/ \E ch \in Chars :
       \/ \E r \in HeaderResults : Character(ch, r)
       \/ Halt(ch)
  \/ Return
  \/ \E n \in 1 .. Size : BodyBytes(n)

Spec == Init /\ [][Next]_vars

-----------------------------------------------------------------------------
(* Properties.                                                             *)

Flags == {"CHUNKED", "KEEP_ALIVE", "CLOSE", "TRAILING", "UPGRADE", "SKIPBODY"}
Strings == {"url", "path", "query_string", "fragment", "header_field", "header_value"}

(* The fields of the parser stay in the width of their C types, and the    *)
(* keyword index inside the keyword.                                       *)
TypeOK ==
  /\ call \in {"idle", "running", "dead", "upgraded", "overflow", "halted"}
  /\ parser.type \in {"REQUEST", "RESPONSE", "BOTH"}
  /\ parser.nread \in 0 .. Limit + 1
  /\ call = "idle" => parser.nread < Byte /\ parser.index < Byte
  /\ parser.header_state \in DOMAIN Keyword /\ parser.state = "s_header_field" =>
       parser.index < Len(Keyword[parser.header_state])
  /\ parser.flags \subseteq Flags
  /\ parser.marks \subseteq Strings
  /\ parser.content_length \in 0 .. Size - 1
  /\ \A f \in {"major", "minor", "status"} : parser[f] \in 0 .. MaxDigits
  /\ parser.method \in DOMAIN method_strings
  /\ due \in Unknown .. Size

(* What decides the rest of the parse, field by field: a field counts in   *)
(* the states that read it before they set it.                             *)
SameState(m, w) ==
  /\ <<m.type, m.state, m.flags, m.upgrade>> = <<w.type, w.state, w.flags, w.upgrade>>
  /\ m.calls = w.calls
  /\ m.state \in {"s_header_field", "s_header_value_start", "s_header_value",
                  "s_header_almost_done"} => m.header_state = w.header_state
  /\ \/ m.state = "s_req_method"
     \/ m.state \in {"s_header_field", "s_header_value"} /\ m.header_state \in DOMAIN Keyword
     => m.index = w.index
  /\ m.state \notin StartStates =>
       m.content_length = w.content_length /\ m.method = w.method
  /\ m.state \in HeaderStates \cup ChunkStates \cup BodyStates =>
       m.major = w.major /\ m.minor = w.minor

(* However the stream is cut into calls, and whatever an earlier           *)
(* connection has left in the struct that http_parser_init() reuses, the   *)
(* parser is in the state that the whole stream in one call would have     *)
(* brought it to, and has made the same callbacks on the way.              *)
CutsDoNotMatter ==
  call \notin {"overflow", "halted"} => SameState(parser, whole)

(* Each byte of a URL, path, query, fragment, header field or value goes   *)
(* to its data callback exactly once: a call has a mark for a string just  *)
(* when the stream is inside that string.                                  *)
PiecesCoverStrings ==
  call = "running" => parser.marks = whole.marks

(* The assert()s of http_parser_execute() hold.                            *)
AssertionsHold ==
  call \in {"idle", "running"} =>
    /\ parser.state = "s_header_field" =>
         parser.header_state \in {"h_general", "h_C", "h_CON"} \cup MatchedFields
           \cup {k \in DOMAIN Keyword : Matched[k] \in MatchedFields}
    /\ parser.state = "s_header_value" =>
         parser.header_state \notin {"h_connection", "h_transfer_encoding"}
    /\ parser.state = "s_chunk_size_start" => parser.nread = 0
    /\ parser.state \in ChunkStates => "CHUNKED" \in parser.flags

(* The notification callbacks and on_body come in the order a consumer     *)
(* relies on: nothing of a message before its beginning, its body after    *)
(* its headers, and one end for each message that had headers.             *)
InOrder ==
  {<<"none", "message_begin">>, <<"message_begin", "message_begin">>,
   <<"message_begin", "headers_complete">>, <<"headers_complete", "body">>,
   <<"headers_complete", "message_complete">>, <<"body", "body">>,
   <<"body", "message_complete">>, <<"message_complete", "message_begin">>}

CallbacksInOrder ==
  \A i \in 1 .. Len(parser.calls) - 1 :
    <<parser.calls[i], parser.calls[i + 1]>> \in InOrder

(* The last step has handed over a body's last bytes, or read its trailer. *)
BodyEnds(calls) ==
  \E i \in 1 .. Len(calls) - 1 :
    <<calls[i], calls[i + 1]>> = <<"body", "message_complete">>

(* on_body hands over as many bytes as Content-Length or the chunk sizes   *)
(* announce, however the body is cut, and the message ends with the last   *)
(* of them.                                                                *)
BodyAsAnnounced ==
  /\ call \in {"idle", "running"} /\ parser.state \in BodyStates =>
       due \in {Unknown, Size, parser.content_length}
  /\ BodyEnds(parser.calls) => due \in {Unknown, Size, 0}

-----------------------------------------------------------------------------
(* The inductive invariant.                                                *)

States ==
  TableStates \cup StartStates \cup HeaderStates \cup ChunkStates \cup BodyStates
    \cup {"s_res_or_resp_H", "s_req_method", "s_body_identity_eof", "s_dead"}
FieldKeywords == {k \in DOMAIN Keyword : Matched[k] \in MatchedFields}
ValueKeywords == {k \in DOMAIN Keyword : Matched[k] \in MatchedValues}
FieldMatches == {"h_general", "h_C", "h_CON"} \cup FieldKeywords \cup MatchedFields
ValueMatches == {"h_general", "h_content_length"} \cup ValueKeywords \cup MatchedValues
Callbacks == {"none", "message_begin", "headers_complete", "body", "message_complete"}

Parsers ==
  [type : {"REQUEST", "RESPONSE", "BOTH"}, state : States,
   header_state : FieldMatches \cup ValueMatches, index : Nat, nread : Nat,
   flags : SUBSET Flags, content_length : 0 .. Size - 1, major : 0 .. MaxDigits,
   minor : 0 .. MaxDigits, status : 0 .. MaxDigits,
   method : DOMAIN method_strings, upgrade : BOOLEAN, marks : SUBSET Strings,
   calls : Seq(Callbacks)]

(* What is being matched, and how far, fits the state.                     *)
Matching(m) ==
  /\ m.state = "s_req_method" => m.index <= Len(method_strings[m.method])
  /\ m.state = "s_header_field" =>
       /\ m.header_state \in FieldMatches
       /\ m.header_state = "h_C" => m.index = 0
       /\ m.header_state = "h_CON" => m.index <= 1
  /\ m.state = "s_header_value" => m.header_state \in ValueMatches
  /\ m.state \in {"s_header_field", "s_header_value"} /\ m.header_state \in DOMAIN Keyword =>
       m.index < Len(Keyword[m.header_state])

(* The last callback fits the state.                                       *)
LastCall(m) == m.calls[Len(m.calls)]
Called(m) ==
  LastCall(m) \in
    IF m.state = "s_start_res" THEN {"none", "message_complete", "message_begin"}
    ELSE IF m.state \in StartStates THEN {"none", "message_complete"}
    ELSE IF m.state \in ChunkStates \cup BodyStates \/ "TRAILING" \in m.flags
    THEN {"headers_complete", "body"}
    ELSE {"message_begin"}

(* A body is chunked just where its header says so, and its lines are      *)
(* counted one by one.                                                     *)
Framed(m) ==
  /\ m.state \in ChunkStates => "CHUNKED" \in m.flags
  /\ m.state \in ChunkStates \cup BodyStates => "TRAILING" \notin m.flags
  /\ m.state \in {"s_chunk_data", "s_chunk_data_almost_done", "s_chunk_data_done"} =>
       m.nread = 0

Consistent(m) == Matching(m) /\ Called(m) /\ Framed(m)

(* A parser that goes on.                                                  *)
Alive(m) == m.state # "s_dead" /\ ~m.upgrade

(* What the rest of a body needs of the history variable, d: it is the      *)
(* length, where that is known and has not wrapped.                        *)
Announced(m, d) ==
  /\ d \in Unknown .. Size
  /\ BodyEnds(m.calls) => d \in {Unknown, Size, 0}
  /\ Alive(m) /\ m.state \notin StartStates =>
       /\ d \in {Unknown, Size, IF "TRAILING" \in m.flags THEN 0 ELSE m.content_length}
       /\ m.state = "s_chunk_size" => d # Unknown
       /\ m.state = "s_header_value" /\ m.header_state = "h_content_length"
            /\ "TRAILING" \notin m.flags => d # Unknown

(* The fields that two parsers of one stream have in common: all that the  *)
(* rest of the parse depends on.                                           *)
Counted(m) ==
  \/ m.state = "s_req_method"
  \/ m.state = "s_header_field" /\ m.header_state \in {"h_C", "h_CON"}
  \/ m.state \in {"s_header_field", "s_header_value"} /\ m.header_state \in DOMAIN Keyword
MajorKnown ==
  (ResponseStates \ {"s_res_H", "s_res_HT", "s_res_HTT", "s_res_HTTP", "s_res_first_http_major"})
    \cup {"s_req_http_major", "s_req_first_http_minor", "s_req_http_minor", "s_req_line_almost_done"}
    \cup HeaderStates \cup ChunkStates \cup BodyStates
MinorKnown == MajorKnown \ {"s_res_http_major", "s_req_http_major",
                            "s_res_first_http_minor", "s_req_first_http_minor"}

SameRun(m, w) ==
  /\ m.type = w.type /\ m.state = w.state /\ m.flags = w.flags
  /\ m.upgrade = w.upgrade /\ m.method = w.method
  /\ m.marks = w.marks /\ m.calls = w.calls
  /\ m.state \notin StartStates => m.content_length = w.content_length
  /\ m.state \in {"s_header_field", "s_header_value_start", "s_header_value",
                  "s_header_almost_done"} => m.header_state = w.header_state
  /\ Counted(m) => m.index = w.index
  /\ m.state \in MajorKnown => m.major = w.major
  /\ m.state \in MinorKnown => m.minor = w.minor
  /\ m.state = "s_res_status_code" => m.status = w.status

ParserInv ==
  /\ call \in {"idle", "running", "dead", "upgraded", "overflow", "halted"}
  /\ parser \in Parsers /\ whole \in Parsers /\ whole.nread = 0
  /\ parser.nread <= Limit /\ (call = "idle" => parser.nread < Byte /\ parser.index < Byte)
  /\ call \in {"idle", "running"} => Alive(parser)
  /\ Alive(parser) => Consistent(parser)
  /\ parser.upgrade => parser.state \in {"s_headers_almost_done", "s_dead"}
  /\ call = "running" => parser.marks = Resumed(parser.state)
  /\ parser.state = "s_chunk_size_start" => parser.nread = 0
  /\ Len(parser.calls) >= 1 /\ CallbacksInOrder
  /\ Announced(parser, due)
  /\ call \notin {"overflow", "halted"} => SameRun(Entered, whole)

=============================================================================
