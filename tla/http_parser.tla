---------------------------- MODULE http_parser ----------------------------
(***************************************************************************)
(* http_parser_execute of 3rd/http-parser (with HTTP_PARSER_STRICT, its    *)
(* default): what one call makes of a parser and the text it is given.     *)
(* There is an operator for each state of the machine, or for a few; each  *)
(* takes the parser and the next character or word.  The states inside a   *)
(* word, and the index into it, are left out: a word is matched at once.   *)
(*                                                                         *)
(* A pointer to the first character of a run (header_field_mark, url_mark  *)
(* ...) is mark, the callback the run is for, and run, its text so far.    *)
(* F_SKIPBODY is not modelled: only on_headers_complete sets it, and       *)
(* HttpParser's settings have none.  A failing assert is an error.         *)
(***************************************************************************)
EXTENDS HttpText, SequencesExt

CONSTANTS
  HTTP_MAX_HEADER_SIZE,         \* in characters and words
  ULLONG_MAX,
  on_data(_, _, _),             \* the data callbacks: what the user's object is
                                \* after the callback for a run with a text
  on_message_complete(_, _)     \* the user's object, the parser

http_parser_init(data) ==
  [type |-> "HTTP_BOTH", flags |-> {}, state |-> "s_start_req_or_res", header_state |-> "h_general",
   nread |-> 0, content_length |-> 0, http_major |-> 0, http_minor |-> 0, status_code |-> 0,
   method |-> DELETE, http_errno |-> "OK", upgrade |-> FALSE, data |-> data,
   mark |-> "none", run |-> <<>>, returned |-> FALSE]

----------------------------------------------------------------------------
(* Macros.                                                                 *)

UPDATE_STATE(p, s) == [p EXCEPT !.state = s]

\* SET_ERRNO and goto error, or out of the function.
SET_ERRNO(p, errno) == [p EXCEPT !.http_errno = errno, !.returned = TRUE]

\* An assert, and what is done if it holds.
ASSERT(condition, p, after) == IF condition THEN after ELSE SET_ERRNO(p, "assert")

\* A step that only one character allows, in strict mode.
STRICT_CHECK(p, c, expected, after) == IF c = expected THEN after ELSE SET_ERRNO(p, "STRICT")

\* The mark is set, if it is not, and the run includes c.
MARK(p, for, c) ==
  [p EXCEPT !.mark = for, !.run = IF p.mark = for THEN Append(@, c) ELSE <<c>>]

CALLBACK_DATA(p, for) ==
  IF p.mark # for THEN p
  ELSE [p EXCEPT !.data = on_data(@, for, p.run), !.mark = "none", !.run = <<>>]

\* Variant: the limit itself is too much.
COUNT_HEADER_SIZE_AtLimit(p) ==
  LET q == [p EXCEPT !.nread = @ + 1]
  IN  IF q.nread >= HTTP_MAX_HEADER_SIZE THEN SET_ERRNO(q, "HEADER_OVERFLOW") ELSE q

\* One more character of the header.
COUNT_HEADER_SIZE(p) ==
  LET q == [p EXCEPT !.nread = @ + 1]
  IN  IF q.nread > HTTP_MAX_HEADER_SIZE THEN SET_ERRNO(q, "HEADER_OVERFLOW") ELSE q

\* The states in which a header is parsed: all but the ones of a body.
PARSING_HEADER(s) ==
  s \notin {"s_chunk_data", "s_chunk_data_almost_done", "s_chunk_data_done",
            "s_body_identity", "s_body_identity_eof", "s_message_done"}

http_message_needs_eof(p) ==
  /\ p.type # "HTTP_REQUEST"
  /\ p.status_code \div 100 # 1 /\ p.status_code \notin {204, 304}
  /\ "CHUNKED" \notin p.flags /\ p.content_length = ULLONG_MAX

http_should_keep_alive(p) ==
  /\ IF p.http_major > 0 /\ p.http_minor > 0
     THEN "CONNECTION_CLOSE" \notin p.flags
     ELSE "CONNECTION_KEEP_ALIVE" \in p.flags
  /\ ~http_message_needs_eof(p)

start_state(p) == IF p.type = "HTTP_REQUEST" THEN "s_start_req" ELSE "s_start_res"

NEW_MESSAGE(p) == IF http_should_keep_alive(p) THEN start_state(p) ELSE "s_dead"

\* UPDATE_STATE(NEW_MESSAGE()); CALLBACK_NOTIFY(message_complete).
MessageComplete(p) ==
  [p EXCEPT !.state = NEW_MESSAGE(p), !.data = on_message_complete(@, p)]

----------------------------------------------------------------------------
(* The body.                                                               *)

s_message_done(p) == [MessageComplete(p) EXCEPT !.returned = p.upgrade]

s_body_identity(p, c) ==
  LET q == [MARK(p, "body", c) EXCEPT !.content_length = @ - 1]
  IN  ASSERT(p.content_length \notin {0, ULLONG_MAX}, p,
             IF q.content_length = 0
             THEN s_message_done(CALLBACK_DATA(UPDATE_STATE(q, "s_message_done"), "body"))
             ELSE q)

s_body_identity_eof(p, c) == MARK(p, "body", c)

s_chunk_size_start(p, c) ==
  ASSERT(p.nread = 1 /\ "CHUNKED" \in p.flags, p,
         IF unhex(c) = -1 THEN SET_ERRNO(p, "INVALID_CHUNK_SIZE")
         ELSE [p EXCEPT !.content_length = unhex(c), !.state = "s_chunk_size"])

s_chunk_size(p, c) ==
  ASSERT("CHUNKED" \in p.flags, p,
    CASE c = CR -> UPDATE_STATE(p, "s_chunk_size_almost_done")
      [] c \in {SEMICOLON, SP} -> UPDATE_STATE(p, "s_chunk_parameters")
      [] c \notin {CR, SEMICOLON, SP} /\ unhex(c) = -1 -> SET_ERRNO(p, "INVALID_CHUNK_SIZE")
      [] unhex(c) # -1 /\ (ULLONG_MAX - 16) \div 16 < p.content_length ->
           SET_ERRNO(p, "INVALID_CONTENT_LENGTH")
      [] OTHER -> [p EXCEPT !.content_length = @ * 16 + unhex(c)])

s_chunk_parameters(p, c) ==
  ASSERT("CHUNKED" \in p.flags, p,
         IF c = CR THEN UPDATE_STATE(p, "s_chunk_size_almost_done") ELSE p)

\* A chunk of no bytes is the last one: what follows are trailing headers.
s_chunk_size_almost_done(p, c) ==
  ASSERT("CHUNKED" \in p.flags, p,
    STRICT_CHECK(p, c, LF,
      IF p.content_length = 0
      THEN [p EXCEPT !.nread = 0, !.flags = @ \cup {"TRAILING"}, !.state = "s_header_field_start"]
      ELSE [p EXCEPT !.nread = 0, !.state = "s_chunk_data"]))

\* Variant: the end of the chunk is seen one character late.
s_chunk_data_Late(p, c) ==
  ASSERT("CHUNKED" \in p.flags /\ p.content_length \notin {0, ULLONG_MAX}, p,
         [MARK(p, "body", c) EXCEPT
            !.content_length = @ - 1,
            !.state = IF p.content_length = 0 THEN "s_chunk_data_almost_done" ELSE @])

s_chunk_data(p, c) ==
  ASSERT("CHUNKED" \in p.flags /\ p.content_length \notin {0, ULLONG_MAX}, p,
         [MARK(p, "body", c) EXCEPT
            !.content_length = @ - 1,
            !.state = IF p.content_length = 1 THEN "s_chunk_data_almost_done" ELSE @])

s_chunk_data_almost_done(p, c) ==
  ASSERT("CHUNKED" \in p.flags /\ p.content_length = 0, p,
         STRICT_CHECK(p, c, CR, CALLBACK_DATA(UPDATE_STATE(p, "s_chunk_data_done"), "body")))

s_chunk_data_done(p, c) ==
  ASSERT("CHUNKED" \in p.flags, p,
         STRICT_CHECK(p, c, LF, [p EXCEPT !.nread = 0, !.state = "s_chunk_size_start"]))

----------------------------------------------------------------------------
(* The end of the headers.                                                 *)

s_headers_done(p, c) ==
  LET q == [p EXCEPT !.nread = 0]
      hasBody == "CHUNKED" \in p.flags \/ p.content_length \notin {0, ULLONG_MAX}
  IN  STRICT_CHECK(p, c, LF,
        CASE p.upgrade /\ (p.method = CONNECT \/ ~hasBody) ->
               [MessageComplete(q) EXCEPT !.returned = TRUE]
          [] ~(p.upgrade /\ p.method = CONNECT) /\ "CHUNKED" \in p.flags ->
               UPDATE_STATE(q, "s_chunk_size_start")
          [] ~(p.upgrade /\ p.method = CONNECT) /\ hasBody /\ "CHUNKED" \notin p.flags ->
               UPDATE_STATE(q, "s_body_identity")
          [] ~p.upgrade /\ ~hasBody /\ http_message_needs_eof(p) ->
               UPDATE_STATE(q, "s_body_identity_eof")
          [] OTHER -> MessageComplete(q))

s_headers_almost_done(p, c) ==
  STRICT_CHECK(p, c, LF,
    CASE "TRAILING" \in p.flags -> s_message_done(UPDATE_STATE(p, "s_message_done"))
      [] "TRAILING" \notin p.flags /\ {"CHUNKED", "CONTENTLENGTH"} \subseteq p.flags ->
           SET_ERRNO(p, "UNEXPECTED_CONTENT_LENGTH")
      [] OTHER ->
           s_headers_done([p EXCEPT !.state = "s_headers_done",
                                    !.upgrade = \/ {"UPGRADE", "CONNECTION_UPGRADE"} \subseteq p.flags
                                                \/ p.method = CONNECT], c))

----------------------------------------------------------------------------
(* Headers.                                                                *)

\* The names the parser knows, by the state that is matching them.
HeaderName ==
  [h_matching_connection        |-> [name |-> Connection,       found |-> "h_connection"],
   h_matching_proxy_connection  |-> [name |-> ProxyConnection,  found |-> "h_connection"],
   h_matching_content_length    |-> [name |-> ContentLength,    found |-> "h_content_length"],
   h_matching_transfer_encoding |-> [name |-> TransferEncoding, found |-> "h_transfer_encoding"],
   h_matching_upgrade           |-> [name |-> Upgrade,          found |-> "h_upgrade"]]

\* The values of Connection the parser knows.
ConnectionValue ==
  [h_matching_connection_keep_alive |->
     [value |-> KeepAlive, found |-> "h_connection_keep_alive", flag |-> "CONNECTION_KEEP_ALIVE"],
   h_matching_connection_close |->
     [value |-> Close, found |-> "h_connection_close", flag |-> "CONNECTION_CLOSE"],
   h_matching_connection_upgrade |->
     [value |-> Upgrade, found |-> "h_connection_upgrade", flag |-> "CONNECTION_UPGRADE"]]

\* The state of a table that c, as the first word, begins; other if none does.
Begins(states, other) == IF states = {} THEN other ELSE CHOOSE h \in states : TRUE

NameBegins(c) == Begins({h \in DOMAIN HeaderName : HeaderName[h].name[1] = c}, "h_general")

ConnectionBegins(c, other) ==
  Begins({h \in DOMAIN ConnectionValue : ConnectionValue[h].value[1] = c}, other)

\* The flags that a header that ends in state h sets.
FlagsFound(h) ==
  {ConnectionValue[m].flag : m \in {m \in DOMAIN ConnectionValue : ConnectionValue[m].found = h}}
    \cup IF h = "h_transfer_encoding_chunked" THEN {"CHUNKED"} ELSE {}

s_header_field_start(p, c) ==
  CASE c = CR -> UPDATE_STATE(p, "s_headers_almost_done")
    [] c = LF -> s_headers_almost_done(UPDATE_STATE(p, "s_headers_almost_done"), c)
    [] c \notin {CR, LF} /\ ~TOKEN(c) -> SET_ERRNO(p, "INVALID_HEADER_TOKEN")
    [] OTHER -> [MARK(p, "header_field", c) EXCEPT !.state = "s_header_field",
                                                   !.header_state = NameBegins(c)]

s_header_field(p, c) ==
  LET h     == p.header_state
      match == h \in DOMAIN HeaderName /\ HeaderName[h].name[2] = c
      found == IF match THEN HeaderName[h].found ELSE "h_general"
      q     == [MARK(p, "header_field", c) EXCEPT !.header_state = found]
  IN  CASE c = COLON ->
             CALLBACK_DATA(UPDATE_STATE(p, "s_header_value_discard_ws"), "header_field")
        [] c # COLON /\ ~TOKEN(c) -> SET_ERRNO(p, "INVALID_HEADER_TOKEN")
        [] TOKEN(c) /\ found = "h_content_length" ->
             IF "CONTENTLENGTH" \in p.flags THEN SET_ERRNO(q, "UNEXPECTED_CONTENT_LENGTH")
             ELSE [q EXCEPT !.flags = @ \cup {"CONTENTLENGTH"}]
        [] OTHER -> q

s_header_value_start(p, c) ==
  LET h == p.header_state
      q == [MARK(p, "header_value", c) EXCEPT !.state = "s_header_value"]
  IN  CASE h = "h_upgrade" -> [q EXCEPT !.flags = @ \cup {"UPGRADE"}, !.header_state = "h_general"]
        [] h = "h_transfer_encoding" ->
             [q EXCEPT !.header_state = IF c = Chunked[1] THEN "h_matching_transfer_encoding_chunked"
                                        ELSE "h_general"]
        [] h = "h_content_length" ->
             IF IS_NUM(c) THEN [q EXCEPT !.content_length = c - 48]
             ELSE SET_ERRNO(q, "INVALID_CONTENT_LENGTH")
        [] h = "h_connection" ->
             [q EXCEPT !.header_state = ConnectionBegins(c, "h_matching_connection_token")]
        [] h = "h_matching_connection_token_start" -> q
        [] OTHER -> [q EXCEPT !.header_state = "h_general"]

s_header_value_discard_ws(p, c) ==
  CASE c = SP -> p
    [] c = CR -> UPDATE_STATE(p, "s_header_value_discard_ws_almost_done")
    [] c = LF -> UPDATE_STATE(p, "s_header_value_discard_lws")
    [] OTHER -> s_header_value_start(p, c)

\* After the end of a line: the header goes on if the next one begins with a
\* space, else it is finished.
s_header_value_lws(p, c) ==
  IF c = SP THEN s_header_value_start(UPDATE_STATE(p, "s_header_value_start"), c)
  ELSE s_header_field_start([p EXCEPT !.flags = @ \cup FlagsFound(p.header_state),
                                      !.state = "s_header_field_start"], c)

s_header_value_discard_ws_almost_done(p, c) ==
  STRICT_CHECK(p, c, LF, UPDATE_STATE(p, "s_header_value_discard_lws"))

s_header_value_discard_lws(p, c) ==
  IF c = SP THEN UPDATE_STATE(p, "s_header_value_discard_ws")
  ELSE s_header_field_start([p EXCEPT !.flags = @ \cup FlagsFound(p.header_state),
                                      !.state = "s_header_field_start",
                                      !.data = on_data(@, "header_value", <<>>)], c)

s_header_almost_done(p, c) ==
  IF c = LF THEN UPDATE_STATE(p, "s_header_value_lws") ELSE SET_ERRNO(p, "LF_EXPECTED")

\* The header state after one more character or word of the value.
ValueState(h, c) ==
  CASE h = "h_matching_transfer_encoding_chunked" ->
         IF c = Chunked[2] THEN "h_transfer_encoding_chunked" ELSE "h_general"
    [] h = "h_transfer_encoding_chunked" -> IF c = SP THEN h ELSE "h_general"
    [] h = "h_matching_connection_token_start" ->
         CASE c = SP -> h
           [] TOKEN(c) -> ConnectionBegins(c, "h_matching_connection_token")
           [] OTHER -> "h_general"
    [] h \in DOMAIN ConnectionValue ->
         IF c = ConnectionValue[h].value[2] THEN ConnectionValue[h].found
         ELSE "h_matching_connection_token"
    [] h = "h_matching_connection_token" ->
         IF c = COMMA THEN "h_matching_connection_token_start" ELSE h
    [] \E m \in DOMAIN ConnectionValue : ConnectionValue[m].found = h ->
         CASE c = COMMA -> "h_matching_connection_token_start"
           [] c = SP -> h
           [] OTHER -> "h_matching_connection_token"
    [] OTHER -> "h_general"

s_header_value(p, c) ==
  LET h   == p.header_state
      q   == MARK(p, "header_value", c)
      end == CALLBACK_DATA(UPDATE_STATE(p, "s_header_almost_done"), "header_value")
  IN  CASE c = CR -> end
        [] c = LF -> s_header_almost_done(end, c)
        [] c \notin {CR, LF} /\ h \in {"h_connection", "h_transfer_encoding"} ->
             SET_ERRNO(q, "assert")
        [] c \notin {CR, LF} /\ h = "h_content_length" ->
             CASE c = SP -> q
               [] IS_NUM(c) /\ (ULLONG_MAX - 10) \div 10 >= p.content_length ->
                    [q EXCEPT !.content_length = @ * 10 + (c - 48)]
               [] OTHER -> SET_ERRNO(q, "INVALID_CONTENT_LENGTH")
        [] OTHER -> [q EXCEPT !.header_state = ValueState(h, c),
                              !.flags = @ \cup IF c = COMMA THEN FlagsFound(h) ELSE {}]

----------------------------------------------------------------------------
(* The request line.                                                       *)

\* The state after one more character of a URL.
parse_url_char(s, c) ==
  CASE s = "s_req_spaces_before_url" /\ c \in {SLASH, STAR} -> "s_req_path"
    [] s \in {"s_req_spaces_before_url", "s_req_schema"} /\ IS_ALPHA(c) -> "s_req_schema"
    [] s = "s_req_schema" /\ c = COLON -> "s_req_schema_slash"
    [] s = "s_req_schema_slash" /\ c = SLASH -> "s_req_schema_slash_slash"
    [] s = "s_req_schema_slash_slash" /\ c = SLASH -> "s_req_server_start"
    [] s \in {"s_req_server_start", "s_req_server", "s_req_server_with_at"} ->
         CASE c = SLASH -> "s_req_path"
           [] c = QUESTION -> "s_req_query_string_start"
           [] c = AT -> IF s = "s_req_server_with_at" THEN "s_dead" ELSE "s_req_server_with_at"
           [] IS_USERINFO_CHAR(c) \/ c \in {91, 93} -> "s_req_server"
           [] OTHER -> "s_dead"
    [] s = "s_req_path" /\ IS_URL_CHAR(c) -> s
    [] s = "s_req_path" /\ c = QUESTION -> "s_req_query_string_start"
    [] s \in {"s_req_query_string_start", "s_req_query_string"}
         /\ (IS_URL_CHAR(c) \/ c = QUESTION) -> "s_req_query_string"
    [] s \in {"s_req_path", "s_req_query_string_start", "s_req_query_string"} /\ c = HASH ->
         "s_req_fragment_start"
    [] s \in {"s_req_fragment_start", "s_req_fragment"} /\ (IS_URL_CHAR(c) \/ c = QUESTION) ->
         "s_req_fragment"
    [] s \in {"s_req_fragment_start", "s_req_fragment"} /\ c = HASH -> s
    [] OTHER -> "s_dead"

\* In which a request line may not end.
UrlBegun == {"s_req_schema", "s_req_schema_slash", "s_req_schema_slash_slash", "s_req_server_start"}

UrlStates ==
  UrlBegun \cup {"s_req_server", "s_req_server_with_at", "s_req_path", "s_req_query_string_start",
                 "s_req_query_string", "s_req_fragment_start", "s_req_fragment"}

IsMethodPrefix(text) == \E m \in HTTP_METHOD_MAP : IsPrefix(text, m)

\* method holds the letters so far: the guesses of the code and the table
\* with which it corrects them come to this.
s_start_req(p, c) ==
  CASE c \in {CR, LF} -> p
    [] c \notin {CR, LF} /\ ~IsMethodPrefix(<<c>>) -> SET_ERRNO(p, "INVALID_METHOD")
    [] OTHER -> [p EXCEPT !.flags = {}, !.content_length = ULLONG_MAX, !.method = <<c>>,
                          !.state = "s_req_method"]

s_req_method(p, c) ==
  CASE c = SP /\ p.method \in HTTP_METHOD_MAP -> UPDATE_STATE(p, "s_req_spaces_before_url")
    [] c # SP /\ IsMethodPrefix(Append(p.method, c)) -> [p EXCEPT !.method = Append(@, c)]
    [] OTHER -> SET_ERRNO(p, "INVALID_METHOD")

\* A character of the URL, from state s.
UrlChar(p, s, c) ==
  LET next == parse_url_char(s, c)
  IN  IF next = "s_dead" THEN SET_ERRNO(p, "INVALID_URL")
      ELSE UPDATE_STATE(MARK(p, "url", c), next)

s_req_spaces_before_url(p, c) ==
  IF c = SP THEN p
  ELSE UrlChar(p, IF p.method = CONNECT THEN "s_req_server_start" ELSE p.state, c)

s_req_url(p, c) ==
  CASE c \in {SP, CR, LF} /\ p.state \in UrlBegun -> SET_ERRNO(p, "INVALID_URL")
    [] c = SP /\ p.state \notin UrlBegun -> CALLBACK_DATA(UPDATE_STATE(p, "s_req_http_start"), "url")
    [] c \in {CR, LF} /\ p.state \notin UrlBegun ->
         CALLBACK_DATA([p EXCEPT !.http_major = 0, !.http_minor = 9,
                                 !.state = IF c = CR THEN "s_req_line_almost_done"
                                           ELSE "s_header_field_start"], "url")
    [] OTHER -> UrlChar(p, p.state, c)

s_req_http_start(p, c) ==
  CASE c = HTTP -> UPDATE_STATE(p, "s_req_first_http_major")
    [] c = SP -> p
    [] OTHER -> SET_ERRNO(p, "INVALID_CONSTANT")

s_req_line_almost_done(p, c) ==
  IF c = LF THEN UPDATE_STATE(p, "s_header_field_start") ELSE SET_ERRNO(p, "LF_EXPECTED")

----------------------------------------------------------------------------
(* The version, of requests and responses.                                 *)

\* A digit of a number that has at most three.
MoreDigits(n, c) == IS_NUM(c) /\ n * 10 + (c - 48) <= 999

\* minor is the state for what follows the dot.
http_major(p, c, minor) ==
  CASE c = DOT -> UPDATE_STATE(p, minor)
    [] c # DOT /\ MoreDigits(p.http_major, c) -> [p EXCEPT !.http_major = @ * 10 + (c - 48)]
    [] OTHER -> SET_ERRNO(p, "INVALID_VERSION")

\* The first digit of the major number, at least lowest.
first_http_major(p, c, lowest, next) ==
  IF c \in lowest .. 57 THEN [p EXCEPT !.http_major = c - 48, !.state = next]
  ELSE SET_ERRNO(p, "INVALID_VERSION")

first_http_minor(p, c, next) ==
  IF IS_NUM(c) THEN [p EXCEPT !.http_minor = c - 48, !.state = next]
  ELSE SET_ERRNO(p, "INVALID_VERSION")

more_http_minor(p, c) ==
  IF MoreDigits(p.http_minor, c) THEN [p EXCEPT !.http_minor = @ * 10 + (c - 48)]
  ELSE SET_ERRNO(p, "INVALID_VERSION")

s_req_http_minor(p, c) ==
  CASE c = CR -> UPDATE_STATE(p, "s_req_line_almost_done")
    [] c = LF -> UPDATE_STATE(p, "s_header_field_start")
    [] OTHER -> more_http_minor(p, c)

s_res_http_minor(p, c) ==
  IF c = SP THEN UPDATE_STATE(p, "s_res_first_status_code") ELSE more_http_minor(p, c)

----------------------------------------------------------------------------
(* The status line, and the start of a message.                            *)

s_res_first_status_code(p, c) ==
  CASE IS_NUM(c) -> [p EXCEPT !.status_code = c - 48, !.state = "s_res_status_code"]
    [] c = SP -> p
    [] OTHER -> SET_ERRNO(p, "INVALID_STATUS")

s_res_status_code(p, c) ==
  CASE c = SP -> UPDATE_STATE(p, "s_res_status_start")
    [] c = CR -> UPDATE_STATE(p, "s_res_line_almost_done")
    [] c = LF -> UPDATE_STATE(p, "s_header_field_start")
    [] MoreDigits(p.status_code, c) -> [p EXCEPT !.status_code = @ * 10 + (c - 48)]
    [] OTHER -> SET_ERRNO(p, "INVALID_STATUS")

s_res_status_start(p, c) ==
  CASE c = CR -> UPDATE_STATE(p, "s_res_line_almost_done")
    [] c = LF -> UPDATE_STATE(p, "s_header_field_start")
    [] OTHER -> UPDATE_STATE(MARK(p, "status", c), "s_res_status")

s_res_status(p, c) ==
  CASE c = CR -> CALLBACK_DATA(UPDATE_STATE(p, "s_res_line_almost_done"), "status")
    [] c = LF -> CALLBACK_DATA(UPDATE_STATE(p, "s_header_field_start"), "status")
    [] OTHER -> MARK(p, "status", c)

s_res_line_almost_done(p, c) == STRICT_CHECK(p, c, LF, UPDATE_STATE(p, "s_header_field_start"))

s_start_res(p, c) ==
  LET q == [p EXCEPT !.flags = {}, !.content_length = ULLONG_MAX]
  IN  CASE c = HTTP -> UPDATE_STATE(q, "s_res_first_http_major")
        [] c \in {CR, LF} -> q
        [] OTHER -> SET_ERRNO(q, "INVALID_CONSTANT")

\* H begins HTTP/ or the method HEAD.
s_start_req_or_res(p, c) ==
  CASE c \in {CR, LF} -> p
    [] c = HTTP -> [p EXCEPT !.flags = {}, !.content_length = ULLONG_MAX, !.type = "HTTP_RESPONSE",
                             !.state = "s_res_first_http_major"]
    [] OTHER -> s_start_req([p EXCEPT !.type = "HTTP_REQUEST", !.state = "s_start_req"], c)

\* After a message with Connection: close.
s_dead(p, c) == IF c \in {CR, LF} THEN p ELSE SET_ERRNO(p, "CLOSED_CONNECTION")

----------------------------------------------------------------------------
(* The loop.                                                               *)

\* One round, in the order of the states in the file.
Dispatched(p, c) ==
  CASE p.state = "s_dead" -> s_dead(p, c)
    [] p.state = "s_start_req_or_res" -> s_start_req_or_res(p, c)
    [] p.state = "s_start_res" -> s_start_res(p, c)
    [] p.state = "s_res_first_http_major" -> first_http_major(p, c, 48, "s_res_http_major")
    [] p.state = "s_res_http_major" -> http_major(p, c, "s_res_first_http_minor")
    [] p.state = "s_res_first_http_minor" -> first_http_minor(p, c, "s_res_http_minor")
    [] p.state = "s_res_http_minor" -> s_res_http_minor(p, c)
    [] p.state = "s_res_first_status_code" -> s_res_first_status_code(p, c)
    [] p.state = "s_res_status_code" -> s_res_status_code(p, c)
    [] p.state = "s_res_status_start" -> s_res_status_start(p, c)
    [] p.state = "s_res_status" -> s_res_status(p, c)
    [] p.state = "s_res_line_almost_done" -> s_res_line_almost_done(p, c)
    [] p.state = "s_start_req" -> s_start_req(p, c)
    [] p.state = "s_req_method" -> s_req_method(p, c)
    [] p.state = "s_req_spaces_before_url" -> s_req_spaces_before_url(p, c)
    [] p.state \in UrlStates -> s_req_url(p, c)
    [] p.state = "s_req_http_start" -> s_req_http_start(p, c)
    [] p.state = "s_req_first_http_major" -> first_http_major(p, c, 49, "s_req_http_major")
    [] p.state = "s_req_http_major" -> http_major(p, c, "s_req_first_http_minor")
    [] p.state = "s_req_first_http_minor" -> first_http_minor(p, c, "s_req_http_minor")
    [] p.state = "s_req_http_minor" -> s_req_http_minor(p, c)
    [] p.state = "s_req_line_almost_done" -> s_req_line_almost_done(p, c)
    [] p.state = "s_header_field_start" -> s_header_field_start(p, c)
    [] p.state = "s_header_field" -> s_header_field(p, c)
    [] p.state = "s_header_value_discard_ws" -> s_header_value_discard_ws(p, c)
    [] p.state = "s_header_value" -> s_header_value(p, c)
    [] p.state = "s_header_almost_done" -> s_header_almost_done(p, c)
    [] p.state = "s_header_value_lws" -> s_header_value_lws(p, c)
    [] p.state = "s_header_value_discard_ws_almost_done" ->
         s_header_value_discard_ws_almost_done(p, c)
    [] p.state = "s_header_value_discard_lws" -> s_header_value_discard_lws(p, c)
    [] p.state = "s_headers_almost_done" -> s_headers_almost_done(p, c)
    [] p.state = "s_body_identity" -> s_body_identity(p, c)
    [] p.state = "s_body_identity_eof" -> s_body_identity_eof(p, c)
    [] p.state = "s_chunk_size_start" -> s_chunk_size_start(p, c)
    [] p.state = "s_chunk_size" -> s_chunk_size(p, c)
    [] p.state = "s_chunk_parameters" -> s_chunk_parameters(p, c)
    [] p.state = "s_chunk_size_almost_done" -> s_chunk_size_almost_done(p, c)
    [] p.state = "s_chunk_data" -> s_chunk_data(p, c)
    [] p.state = "s_chunk_data_almost_done" -> s_chunk_data_almost_done(p, c)
    [] p.state = "s_chunk_data_done" -> s_chunk_data_done(p, c)

\* The characters after the one with which the call has returned are dropped.
\* A run of s_header_field or s_header_value that ends with a character is one
\* pass of the loop, and its characters are counted at its end.
Round(p, c) ==
  LET q == IF ~p.returned /\ PARSING_HEADER(p.state) THEN COUNT_HEADER_SIZE(p) ELSE p
  IN  IF q.returned THEN q ELSE Dispatched(q, c)

\* The parser after the text, which is taken in halves and the parser between
\* them bound to a name: TLC evaluates each round once, and recurses less.
RECURSIVE Rounds(_, _)
Rounds(p, text) ==
  IF Len(text) = 1 THEN Round(p, text[1])
  ELSE LET half == Len(text) \div 2
       IN  CHOOSE end \in {Rounds(q, SubSeq(text, half + 1, Len(text))) :
                           q \in {Rounds(p, SubSeq(text, 1, half))}} : TRUE

\* A run that the last call was in the middle of goes on; body_mark is not set
\* until there is a character.
Resumed(p) ==
  [p EXCEPT !.returned = FALSE,
            !.run = <<>>,
            !.mark = CASE p.state = "s_header_field" -> "header_field"
                       [] p.state = "s_header_value" -> "header_value"
                       [] p.state \in UrlStates -> "url"
                       [] p.state = "s_res_status" -> "status"
                       [] OTHER -> "none"]

\* Does the text end in a pass of s_header_field or s_header_value?  That pass
\* counts its characters, and the loop has counted the first of them before.
EndsInHeader(p, text, end) ==
  /\ ~end.returned /\ end.mark \in {"header_field", "header_value"}
  /\ Len(end.run) > 1 \/ (Len(text) = 1 /\ end.state = p.state)

\* text is not empty: a read of no bytes is not given to the parser.
http_parser_execute(p, text) ==
  IF p.http_errno # "OK" THEN p
  ELSE LET last == Rounds(Resumed(p), text)
           end  == IF EndsInHeader(p, text, last) THEN COUNT_HEADER_SIZE(last) ELSE last
       IN  IF end.returned \/ end.mark = "none" THEN [end EXCEPT !.mark = "none", !.run = <<>>]
           ELSE CALLBACK_DATA(end, end.mark)
=============================================================================
