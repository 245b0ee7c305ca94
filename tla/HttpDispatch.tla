---------------------------- MODULE HttpDispatch ----------------------------
(***************************************************************************)
(* One connection: a client, which asks with HttpClient or is another      *)
(* program, and a server, which is HttpDispatch or another program.  A     *)
(* connection that has switched to WebSocket goes on as in WebSocket, over *)
(* the same stream, in which the end of a request counts as one of a frame.*)
(***************************************************************************)
EXTENDS WebSocket, HttpEncoder, UrlCodec, Base64

CONSTANTS
  Requests,         \* what is asked; see Text
  OtherReplies,     \* what other servers answer: text, status, body, and
                    \* eof: the end of the connection is the end of the body
  HttpUrls, WebSocketUrls,      \* the URLs with a handler of each kind
  m_enableWebSocket,
  SHA1(_), WebSocketGuid,       \* the digest of a text; the suffix of keys
  HTTP_MAX_HEADER_SIZE, ULLONG_MAX,
  HttpReadSizes,    \* bound: the sizes of reads, besides "all there is"
  WriteCuts,        \* bound: where a write fails
  MaxRequests       \* bound: requests on the connection

ASSUME HttpAssumption ==
  /\ m_enableWebSocket \in BOOLEAN /\ HttpReadSizes \subseteq Nat \ {0} /\ WriteCuts \subseteq Nat
  /\ HTTP_MAX_HEADER_SIZE \in Nat /\ ULLONG_MAX \in Nat /\ MaxRequests \in Nat

Http == INSTANCE HttpParser

VARIABLES
  requester,        \* the client: "idle", in Request ("reading"), what Request
                    \* has returned ("done" for 0), "websocket" or "closed"
  m_httpDecoder,    \* the parser of the HttpClient
  current,          \* the request that Request is for
  toClient,         \* the characters on their way to the client
  peer,             \* "HttpDispatch", or "other": another server
  httpRequest,      \* the parser of the server
  httpResponse,     \* what the server is about to write
  m_isWebSocketReq,
  m_wsHandler,      \* whether it is set
  answer,           \* history: the last answer: status, body, whether it was
                    \* written in full, and eof
  asked,            \* history: the requests written and not yet answered
  requests,         \* the number of requests, for the bound
  reused,           \* history: a request followed one that had failed
  cut,              \* history: a read has cut a header of the current
                    \* request or its answer
  inHeader,         \* history: the server's reads of the current request that
                    \* ended in the name or value of a header
  thrown            \* history: m_wsHandler was called and was not set

httpVars == <<requester, m_httpDecoder, current, toClient, peer, httpRequest, httpResponse,
              m_isWebSocketReq, m_wsHandler, answer, asked, requests, reused, cut, inHeader, thrown>>

clientVars == <<requester, m_httpDecoder, current>>
serverVars == <<httpRequest, httpResponse, m_isWebSocketReq, m_wsHandler, thrown>>

----------------------------------------------------------------------------
(* The client.  A request is a record: method, url, parameters and headers *)
(* (sequences of pairs), body, and text, which is empty if HttpClient asks *)
(* and else what another client has written.                               *)

\* The user of HttpClient encodes the parameters.
EncoderOf(r) ==
  [NewHttpEncoder EXCEPT !.m_method = r.method, !.m_url = r.url, !.m_body = r.body,
                         !.m_headers = r.headers,
                         !.m_parameters = [i \in 1 .. Len(r.parameters) |->
                                             <<UrlEncode(r.parameters[i][1]),
                                               UrlEncode(r.parameters[i][2])>>]]

Text(r) == IF r.text = <<>> THEN GetRequestString(EncoderOf(r)) ELSE r.text

\* Does the read go on with a header name or value in the middle of it?
CutsHeader(p, c) == \/ p.state = "s_header_field" /\ c # COLON
                    \/ p.state = "s_header_value" /\ c \notin {CR, LF}

MayAsk == requester \notin {"reading", "websocket", "closed"} /\ requests < MaxRequests

\* Variant: the parser keeps what it has parsed.
Request_NoReset(r) ==
  /\ MayAsk
  /\ Written(Text(r))
  /\ requester' = "reading" /\ current' = r
  /\ asked' = Append(asked, r) /\ requests' = requests + 1
  /\ reused' = (reused \/ requester \notin {"idle", "done"}) /\ cut' = FALSE /\ inHeader' = 0
  /\ UNCHANGED <<m_httpDecoder, toClient, peer, serverVars, answer>>

\* HttpClient::Request: the request is written, ...
Request(r) ==
  /\ MayAsk
  /\ Written(Text(r))
  /\ m_httpDecoder' = Http!Reset(m_httpDecoder)
  /\ requester' = "reading" /\ current' = r
  /\ asked' = Append(asked, r) /\ requests' = requests + 1
  /\ reused' = (reused \/ requester \notin {"idle", "done"}) /\ cut' = FALSE /\ inHeader' = 0
  /\ UNCHANGED <<toClient, peer, serverVars, answer>>

\* ... or only its first k characters: WriteAll has timed out or failed; ...
RequestWriteFails(r, k) ==
  /\ MayAsk /\ k < Len(Text(r))
  /\ IF k = 0 THEN UNCHANGED <<stream, ends>> ELSE Written(SubSeq(Text(r), 1, k))
  /\ requester' = "ETIMEDOUT"
  /\ requests' = requests + 1
  /\ reused' = (reused \/ requester \notin {"idle", "done"})
  /\ UNCHANGED <<m_httpDecoder, current, toClient, peer, serverVars, answer, asked, cut, inHeader>>

\* ... n characters of the answer are read, ...
ReadResponse(n) ==
  /\ requester = "reading"
  /\ toClient' = SubSeq(toClient, n + 1, Len(toClient))
  /\ \E p \in {Http!Parse(m_httpDecoder, SubSeq(toClient, 1, n))} :
       /\ m_httpDecoder' = p
       /\ requester' = CASE ~Http!ParseOk(p) -> "EINVAL"
                         [] Http!ParseOk(p) /\ Http!IsComplete(p) -> "done"
                         [] OTHER -> "reading"
  /\ cut' = (cut \/ CutsHeader(m_httpDecoder, toClient[1]))
  /\ UNCHANGED <<stream, ends, current, peer, serverVars, answer, asked, requests, reused,
                 inHeader>>

\* Variant: the end of the connection is taken for a read like any other.
ReadResponseFails_TimeoutOnly ==
  /\ requester = "reading" /\ toClient = <<>>
  /\ requester' = "ETIMEDOUT"
  /\ UNCHANGED <<stream, ends, m_httpDecoder, current, toClient, peer, serverVars, answer, asked,
                 requests, reused, cut, inHeader>>

\* ... or nothing is: the server has closed the connection, or the time is up.
ReadResponseFails ==
  /\ requester = "reading" /\ toClient = <<>>
  /\ requester' \in {"ETIMEDOUT"} \cup IF phase = "closed" THEN {"EPIPE"} ELSE {}
  /\ UNCHANGED <<stream, ends, m_httpDecoder, current, toClient, peer, serverVars, answer, asked,
                 requests, reused, cut, inHeader>>

\* What the client has to find in the header Sec-WebSocket-Accept.
AcceptIsRight(p, key) ==
  LET accept == Http!GetHeader(p, SecWebSocketAccept)
  IN  IsBase64(accept) /\ base64_decode(accept) = SHA1(key \o WebSocketGuid)

KeyOf(r) == LET i == CHOOSE i \in DOMAIN r.headers : r.headers[i][1] = SecWebSocketKey
            IN  r.headers[i][2]

AsksForWebSocket(r) == \E i \in DOMAIN r.headers : r.headers[i][1] = SecWebSocketKey

\* A client that has asked for WebSocket goes on with messages if the answer is
\* right, and asks nothing more; or it takes no notice of the answer (of
\* HttpDispatch, if no header was cut: the server may else have taken the
\* request for one without a key).
BeginWebSocket ==
  /\ requester = "done" /\ ~reused /\ AsksForWebSocket(current)
  /\ \/ m_httpDecoder.data.m_status = 101 /\ AcceptIsRight(m_httpDecoder, KeyOf(current))
     \/ peer = "HttpDispatch" /\ ~cut
  /\ requester' = "websocket" /\ requests' = MaxRequests
  /\ m_httpDecoder' = Http!NewHttpParser /\ cut' = FALSE
  /\ UNCHANGED <<stream, ends, current, toClient, peer, serverVars, answer, asked, reused, inHeader>>

ClientCloses ==
  /\ requester \notin {"reading", "websocket", "closed"}
  /\ requester' = "closed"
  /\ UNCHANGED <<stream, ends, m_httpDecoder, current, toClient, peer, serverVars, answer, asked,
                 requests, reused, cut, inHeader>>

----------------------------------------------------------------------------
(* class HttpDispatch.                                                     *)

\* The text of the answer to a URL without a handler.
RSP_NOTFOUND == <<123, 125>>

ResponseHttpNotFound(e) ==
  [e EXCEPT !.m_statusCode = 404, !.m_body = RSP_NOTFOUND, !.m_closeConnection = TRUE]

\* The digest is passed on as a char pointer.
ResponseWebSocketHandshake(e, key) ==
  [e EXCEPT !.m_statusCode = 101, !.m_statusMessage = <<83, 119>>,
            !.m_headers = <<<<Connection, Upgrade>>,
                            <<SecWebSocketAccept, base64_encode(c_str(SHA1(key \o WebSocketGuid)))>>,
                            <<Upgrade, WebSocketProtocol>>>>]

\* The user's handler; this one answers with the body of the request.
HttpHandler(e, p) == [e EXCEPT !.m_statusCode = 200, !.m_body = p.data.m_body]

WebSocketKey(p) == IF m_enableWebSocket THEN Http!GetHeader(p, SecWebSocketKey) ELSE <<>>

\* Is there a handler for the request?
Found(p) == c_str(p.data.m_url) \in (IF WebSocketKey(p) # <<>> THEN WebSocketUrls ELSE HttpUrls)

\* Variant: any handler of the URL will do.
Dispatch_AnyHandler(p) ==
  CASE c_str(p.data.m_url) \notin HttpUrls \cup WebSocketUrls -> ResponseHttpNotFound(NewHttpEncoder)
    [] c_str(p.data.m_url) \in HttpUrls \cup WebSocketUrls /\ WebSocketKey(p) # <<>> ->
         ResponseWebSocketHandshake(NewHttpEncoder, WebSocketKey(p))
    [] OTHER -> HttpHandler(NewHttpEncoder, p)

\* The response to a request.
Dispatch(p) ==
  CASE ~Found(p) -> ResponseHttpNotFound(NewHttpEncoder)
    [] Found(p) /\ WebSocketKey(p) # <<>> ->
         ResponseWebSocketHandshake(NewHttpEncoder, WebSocketKey(p))
    [] OTHER -> HttpHandler(NewHttpEncoder, p)

Serving == peer = "HttpDispatch" /\ phase = "Read" /\ httpResponse = <<>>

\* n characters are read and parsed.  m_isWebSocketReq is set whether there is
\* a handler or not.
ParseHttpToDispatch(n) ==
  /\ Serving /\ ~m_isWebSocketReq
  /\ Taken(n)
  /\ cut' = (cut \/ CutsHeader(httpRequest, stream[1]))
  /\ \E p \in {Http!Parse(httpRequest, First(n))} :
       /\ httpRequest' = p
       /\ inHeader' = inHeader + IF p.state \in {"s_header_field", "s_header_value"} THEN 1 ELSE 0
       /\ phase' = IF Http!ParseOk(p) THEN "Read" ELSE "closed"
       /\ IF Http!ParseOk(p) /\ Http!IsComplete(p)
          THEN \E e \in {Dispatch(p)} :
                 /\ m_isWebSocketReq' = (WebSocketKey(p) # <<>>)
                 /\ m_wsHandler' = (m_wsHandler \/ (Found(p) /\ WebSocketKey(p) # <<>>))
                 /\ httpResponse' = GetReponseString(e)
                 /\ answer' = [status |-> e.m_statusCode, body |-> e.m_body, full |-> FALSE,
                               eof |-> FALSE]
          ELSE UNCHANGED <<m_isWebSocketReq, m_wsHandler, httpResponse, answer>>
  /\ UNCHANGED <<clientVars, toClient, peer, asked, requests, reused, thrown>>

\* The request at the head of asked has been answered.
Answered == IF asked = <<>> THEN asked ELSE Tail(asked)

\* Response: the response is written, and the parser made ready for the next
\* request, ...
Response ==
  /\ phase = "Read" /\ httpResponse # <<>>
  /\ toClient' = toClient \o httpResponse
  /\ httpResponse' = <<>>
  /\ httpRequest' = Http!Reset(httpRequest)
  /\ answer' = [answer EXCEPT !.full = TRUE] /\ asked' = Answered
  /\ UNCHANGED <<clientVars, stream, ends, phase, peer, m_isWebSocketReq, m_wsHandler, requests, reused,
                 cut, inHeader, thrown>>

\* ... or a part of it, and the coroutine ends.
HttpResponseFails(k) ==
  /\ phase = "Read" /\ k < Len(httpResponse)
  /\ toClient' = toClient \o SubSeq(httpResponse, 1, k)
  /\ httpResponse' = <<>>
  /\ phase' = "closed" /\ asked' = Answered
  /\ UNCHANGED <<clientVars, stream, ends, httpRequest, peer, m_isWebSocketReq, m_wsHandler, answer,
                 requests, reused, cut, inHeader, thrown>>

\* There is nothing to read: the client has closed the connection, or nothing
\* has come for kKeepAliveMs.
ReadFails ==
  /\ Serving /\ Readable = 0
  /\ phase' = "closed"
  /\ UNCHANGED <<httpVars, stream, ends>>

\* ProcessWebSocketData: a message is complete, and m_wsHandler, which a request
\* answered 404 has left empty, is called.  That throws, nothing catches it, and
\* the process ends with its connections.
CallsUnsetHandler(n) ==
  /\ Serving /\ m_isWebSocketReq /\ ~m_wsHandler
  /\ Taken(n)
  /\ crossed' = (crossed \/ \E e \in ends : e < n)
  /\ \E r \in {Parse(parser, First(n))} :
       r.ok /\ r.parser.m_complete /\ parser' = r.parser
  /\ phase' = "closed" /\ thrown' = TRUE
  /\ UNCHANGED <<client, sent, server, refused, delivered, clientVars, toClient, peer, httpRequest,
                 httpResponse, m_isWebSocketReq, m_wsHandler, answer, asked, requests, reused, cut,
                 inHeader>>

\* Another server answers: a request is taken as a whole.
OtherServer(reply) ==
  /\ peer = "other" /\ phase = "Read" /\ asked # <<>>
  /\ stream' = <<>> /\ ends' = {}
  /\ toClient' = toClient \o reply.text
  /\ phase' = IF reply.eof THEN "closed" ELSE "Read"
  /\ answer' = [status |-> reply.status, body |-> reply.body, full |-> TRUE, eof |-> reply.eof]
  /\ asked' = Answered
  /\ UNCHANGED <<clientVars, serverVars, peer, requests, reused, cut, inHeader>>

----------------------------------------------------------------------------

HttpInit ==
  /\ Init
  /\ requester = "idle" /\ m_httpDecoder = Http!NewHttpParser /\ toClient = <<>>
  /\ current = CHOOSE r \in Requests : TRUE
  /\ peer \in {"HttpDispatch", "other"}
  /\ httpRequest = Http!NewHttpParser /\ httpResponse = <<>>
  /\ m_isWebSocketReq = FALSE /\ m_wsHandler = FALSE
  /\ answer = [status |-> 0, body |-> <<>>, full |-> FALSE, eof |-> FALSE]
  /\ asked = <<>> /\ requests = 0 /\ reused = FALSE /\ cut = FALSE
  /\ inHeader = 0 /\ thrown = FALSE

\* The variables of WebSocket besides the stream, its ends and the phase.
frameVars == <<client, sent, parser, server, crossed, refused, delivered>>

Asking         == \E r \in Requests : Request(r) /\ UNCHANGED <<phase, frameVars>>
AskingFails    == \E r \in Requests, k \in WriteCuts : RequestWriteFails(r, k) /\ UNCHANGED <<phase, frameVars>>
ReadingAnswer  == \E n \in HttpReadSizes \cup {Len(toClient)} :
                    n \in 1 .. Len(toClient) /\ ReadResponse(n) /\ UNCHANGED <<phase, frameVars>>
LosingAnswer   == ReadResponseFails /\ UNCHANGED <<phase, frameVars>>
Switching      == BeginWebSocket /\ UNCHANGED <<phase, frameVars>>
Leaving        == ClientCloses /\ UNCHANGED <<phase, frameVars>>
ReadingRequest == \E n \in HttpReadSizes \cup {Readable} :
                    n \in 1 .. Readable /\ ParseHttpToDispatch(n) /\ UNCHANGED frameVars
Answering      == Response /\ UNCHANGED frameVars
AnsweringFails == \E k \in WriteCuts : HttpResponseFails(k) /\ UNCHANGED frameVars
GivingUp       == ReadFails /\ UNCHANGED frameVars
OtherAnswers   == \E reply \in OtherReplies : OtherServer(reply) /\ UNCHANGED frameVars

\* Messages: the client's steps, and the server's once m_isWebSocketReq is set.
ClientMessages == /\ requester = "websocket"
                  /\ (\E transfer \in Transfers : ClientBegins(transfer)) \/ Sending
                  /\ UNCHANGED httpVars
ReadingFrames  == /\ Serving /\ m_isWebSocketReq /\ Reading /\ (m_wsHandler \/ delivered' = delivered)
                  /\ UNCHANGED httpVars
Throwing       == \E n \in ReadSizes \cup {Readable} : n \in 1 .. Readable /\ CallsUnsetHandler(n)
AnsweringFrames == Responding /\ UNCHANGED httpVars
AnsweringFramesFails == ResponseFails /\ UNCHANGED httpVars

HttpNext ==
  \/ Asking \/ AskingFails \/ ReadingAnswer \/ LosingAnswer \/ Switching \/ Leaving
  \/ ReadingRequest \/ Answering \/ AnsweringFails \/ GivingUp \/ OtherAnswers
  \/ ClientMessages \/ ReadingFrames \/ Throwing \/ AnsweringFrames \/ AnsweringFramesFails

\* Steps that read, of the server and of the client, by what they take: a read
\* is possible whatever the parser makes of it.
ServerReads == Serving /\ \E n \in 1 .. Readable : stream' = After(n)
ClientReads == requester = "reading" /\ \E n \in 1 .. Len(toClient) : toClient' = SubSeq(toClient, n + 1, Len(toClient))

\* The server is a coroutine in a loop, and its reads time out; the client
\* reads what comes, and sees the connection closed; another server answers; a
\* client that has begun a message sends its frames.  Nothing is assumed of the
\* client's own timeout.
HttpSpec ==
  /\ HttpInit /\ [][HttpNext]_<<vars, httpVars>>
  /\ WF_stream(ServerReads) /\ WF_toClient(ClientReads)
  /\ WF_<<vars, httpVars>>(Answering \/ GivingUp \/ OtherAnswers)
  /\ WF_<<vars, httpVars>>(LosingAnswer /\ requester' = "EPIPE")
  /\ WF_<<vars, httpVars>>(Sending /\ UNCHANGED httpVars)
  /\ WF_<<vars, httpVars>>(AnsweringFrames)

----------------------------------------------------------------------------

\* The headers that the server should see.
HeadersOf(r) ==
  PutAll(<<>>, (IF r.text = <<>> THEN <<<<ContentLength, Decimal(Len(r.body))>>, <<Connection, KeepAlive>>>>
         ELSE <<>>) \o r.headers)

\* A request has been dispatched and is being answered.
InHandler == httpResponse # <<>> /\ asked # <<>>

\* However a request is cut into reads, the handler sees the method, URL,
\* parameters (where no name has a = and no value a &, at which the decoded
\* text is split) and body that were sent, unless the client has gone on after
\* a request that had failed.
RequestArrives ==
  InHandler /\ ~reused =>
    LET m == httpRequest.data
        r == Head(asked)
    IN  /\ m.m_method = r.method /\ m.m_url = r.url /\ m.m_body = r.body
        /\ (\A i \in DOMAIN r.parameters : /\ EQUALS \notin ToSet(r.parameters[i][1])
                                          /\ AMP \notin ToSet(r.parameters[i][2]))
             => m.m_parameters = PutAll(<<>>, r.parameters)

\* It also sees the headers, unless a read has cut a name or value.
HeadersArrive ==
  InHandler /\ ~reused /\ ~cut => httpRequest.data.m_headers = HeadersOf(Head(asked))

\* What http_parser.h says of the callbacks, that they are called many times
\* for each string, taken as the users of the parser have to take it: the
\* handler sees the headers however they are cut.
HeadersSurviveReads ==
  InHandler /\ ~reused => httpRequest.data.m_headers = HeadersOf(Head(asked))

\* When Request returns 0 the client has the status and the body of the answer
\* to its request, unless it has gone on after a request that had failed.
AnswerIsOwn ==
  requester = "done" /\ ~reused =>
    /\ answer.full /\ m_httpDecoder.data.m_status = answer.status
    /\ m_httpDecoder.data.m_body = answer.body

\* An answer that was written in full is not reported as a failure of the
\* connection or the parser (its header is within the limit, however it is cut),
\* but for one that ends with the connection.
FullAnswerIsTaken ==
  requester \in {"EPIPE", "EINVAL"} /\ ~reused => asked # <<>> \/ ~answer.full \/ answer.eof

\* The number of characters and words before the body.
HeaderSize(text) ==
  LET end == {i \in 1 .. Len(text) - 3 : SubSeq(text, i, i + 3) = CRLF \o CRLF}
  IN  3 + CHOOSE i \in end : \A j \in end : i <= j

\* The limit on headers: what is dispatched is within it, and the server's
\* parser refuses nothing that the encoders and well-behaved programs write but
\* headers above the limit, or above what the reads that ended in a name or
\* value, each of which counts for one character more, have left of it.
HeaderLimitKept ==
  ~reused => /\ InHandler => HeaderSize(Text(Head(asked))) <= HTTP_MAX_HEADER_SIZE
             /\ httpRequest.http_errno # "OK" =>
                  HeaderSize(Text(current)) + inHeader > HTTP_MAX_HEADER_SIZE

\* No assert of http_parser on the state of a chunk, a body or a header fails,
\* however the texts are cut and whatever a write leaves out.
AssertsHold == m_httpDecoder.http_errno # "assert" /\ httpRequest.http_errno # "assert"

\* The WebSocket handler is set when it is called, but on a connection on which
\* a request for WebSocket was answered 404: that one also goes on in
\* ProcessWebSocketData.
HandlerIsSet == thrown => answer.status = 404

\* A client that has asked for WebSocket and got status 101 finds the right
\* digest in the answer, if the digest has no zero byte and no read
\* has cut a header.
HandshakeIsRight ==
  /\ requester = "done" /\ ~reused /\ ~cut /\ peer = "HttpDispatch"
  /\ m_httpDecoder.data.m_status = 101
  => LET digest == SHA1(KeyOf(current) \o WebSocketGuid)
     IN  0 \notin ToSet(digest) => AcceptIsRight(m_httpDecoder, KeyOf(current))

\* Every message is delivered, unless a read crosses the end of a frame, the
\* handler is not set, or the connection is closed while the message is still on
\* its way or because one above the parser's limit is refused; nothing else is
\* refused.
MessagesArrive ==
  \A k \in 1 .. MaxMessages :
    Len(sent) >= k ~>
      \/ Len(delivered) >= k \/ crossed \/ thrown
      \/ /\ phase = "closed"
         /\ IF refused THEN \E i \in DOMAIN sent : Len(sent[i]) > kMaxLength
            ELSE ~EncoderComplete(client) \/ stream # <<>>

\* Request returns, whatever has gone wrong before and even if the client's own
\* timeout never comes: the server answers or its own timeout closes the
\* connection.
RequestEnds == requester = "reading" ~> requester # "reading"
=============================================================================
