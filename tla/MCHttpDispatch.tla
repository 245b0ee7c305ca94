--------------------------- MODULE MCHttpDispatch ---------------------------
(* Model-checking instances of the connection.                             *)
EXTENDS HttpDispatch

Root  == <<SLASH>>
PathA == <<SLASH, 97>>

\* Requests of HttpClient ...
Ask(method, url, parameters, headers, body) ==
  [method |-> method, url |-> url, parameters |-> parameters, headers |-> headers, body |-> body,
   text |-> <<>>]

\* ... and of another client: its lines up to the body, and the body as written.
AskOther(method, url, version, headers, body, written) ==
  [method |-> method, url |-> url, parameters |-> <<>>, headers |-> headers, body |-> body,
   text |-> method \o <<SP>> \o url \o <<SP, HTTP, 49, DOT, 48 + version>> \o CRLF
              \o FlattenSeq([i \in 1 .. Len(headers) |-> HeaderLine(headers[i][1], headers[i][2])])
              \o CRLF \o written]

Chunk(bytes) == Decimal(Len(bytes)) \o CRLF \o bytes \o CRLF

\* Digests by the last word of the key; that of 312 has a zero byte.
Digest(text) == CASE text = <<310, 311, 313>> -> <<200, 7, 96, 3>>
                  [] text = <<310, 312, 313>> -> <<200, 0, 96, 3>>
                  [] OTHER -> <<1>>
Guid == <<313>>

UpgradeTo(key) == <<<<Connection, Upgrade>>, <<SecWebSocketKey, key>>, <<Upgrade, WebSocketProtocol>>>>

\* A parameter whose value needs every rule of the encoding.
Post == Ask(POST, Root, <<<<<<112>>, <<EQUALS, SP, 255>>>>, <<<<113>>, <<PERCENT, QUESTION, PLUS>>>>>>,
            <<<<<<300, 301>>, <<302, 303>>>>>>, <<98, 99>>)

WebSocketWrong == Ask(GET, Root, <<>>, UpgradeTo(<<310, 312>>), <<>>)
WebSocketNowhere == Ask(GET, PathA, <<>>, UpgradeTo(<<310, 311>>), <<>>)

\* As browsers do it: two values of Connection, no length.
WebSocketBrowser ==
  AskOther(GET, Root, 1, <<<<Connection, KeepAlive \o <<COMMA, SP>> \o Upgrade>>,
                           <<SecWebSocketKey, <<310, 311>>>>, <<Upgrade, WebSocketProtocol>>>>, <<>>, <<>>)

PostChunks == AskOther(POST, PathA, 1, <<<<TransferEncoding, Chunked>>>>, <<97, 98, 99>>,
                       Chunk(<<97, 98>>) \o Chunk(<<99>>) \o <<48>> \o CRLF \o CRLF)

LastGet == AskOther(GET, PathA, 1, <<<<Connection, Close>>>>, <<>>, <<>>)
Tunnel  == AskOther(CONNECT, <<104, COLON, 56>>, 1, <<>>, <<>>, <<>>)
Proxied == AskOther(HEAD, <<104, COLON, SLASH, SLASH, 104, SLASH>>, 0, <<>>, <<>>, <<>>)
Large   == AskOther(GET, Root, 1, <<<<<<300, 301>>, [i \in 1 .. 90 |-> 302]>>>>, <<>>, <<>>)
Long    == AskOther(GET, Root, 1, <<<<<<300, 301>>, [i \in 1 .. 60 |-> 302]>>>>, <<>>, <<>>)

AllRequests == {Post, WebSocketWrong, WebSocketNowhere, WebSocketBrowser, PostChunks,
                LastGet, Tunnel, Proxied, Large, Long}

\* Answers of other servers: in chunks, and up to the end of the connection.
Line(status) == <<HTTP, 49, DOT, 49, SP>> \o Decimal(status) \o <<SP, 79>> \o CRLF

ChunkedReply == [text |-> Line(200) \o HeaderLine(TransferEncoding, Chunked) \o CRLF \o Chunk(<<97, 98>>)
                            \o Chunk(<<99>>) \o <<48>> \o CRLF \o CRLF,
                 status |-> 200, body |-> <<97, 98, 99>>, eof |-> FALSE]
EofReply     == [text |-> Line(200) \o CRLF \o <<97>>, status |-> 200, body |-> <<97>>, eof |-> TRUE]
EmptyReply   == [text |-> Line(204) \o CRLF, status |-> 204, body |-> <<>>, eof |-> FALSE]

Replies == {ChunkedReply, EofReply, EmptyReply}

HttpHandlers == {Root, PathA}
WebSocketHandlers == {Root}

\* Messages.  n bytes that show where each of them belongs, in frames of size.
Transfer(n, size) == [payload |-> [i \in 1 .. n |-> (n + 5 * i) % 16], frameSize |-> size]

MaskKey == {<<130, 2, 5, 8>>}

\* One frame and several; a length of 16 bits; a message that is too long as a
\* whole but not in its frames.  No length is a multiple of the size.
Various == {Transfer(1, 2), Transfer(3, 2), Transfer(127, 1446), Transfer(131, 100)}

\* One request with a header of its own.
Posts == {Post}
=============================================================================
