----------------------------- MODULE WebSocket -----------------------------
(***************************************************************************)
(* Messages over WebSocket frames: a client that encodes with              *)
(* WebSocketEncoder (isClient = true), the byte stream, and the server's   *)
(* coroutine, HttpDispatch once the connection has switched to WebSocket:  *)
(* it reads, parses with WebSocketParser, and answers each message.        *)
(*                                                                         *)
(* Bytes are numbers below 256.                                            *)
(***************************************************************************)
EXTENDS Integers, Sequences, SequencesExt

CONSTANTS
  Transfers,      \* what clients send: payload, a sequence of bytes, and
                  \* frameSize, given to SetFrameSize
  MaskKeys,       \* values of random(), as four bytes
  kMaxLength,     \* the parser's limit on a message
  kFrameSize,     \* the default frame size
  ReadSizes,      \* bound: the sizes of reads, besides "all there is"
  MaxMessages,    \* bound: messages the client sends
  MaxInFlight     \* bound: frames in the stream

ASSUME WebSocketAssumption ==
  /\ \A t \in Transfers : t.payload \in Seq(0 .. 255) /\ t.frameSize \in Nat \ {0}
  /\ ReadSizes \subseteq Nat \ {0} /\ kMaxLength \in Nat /\ kFrameSize \in Nat \ {0}
  /\ \A key \in MaskKeys : key \in Seq(0 .. 255) /\ Len(key) = 4
  /\ MaxMessages \in Nat /\ MaxInFlight \in Nat

OpCodeType_Continue == 0
OpCodeType_Text     == 1
OpCodeType_Binary   == 2
OpCodeTypes == {0, 1, 2, 8, 9, 10}

VARIABLES
  client,     \* the client's encoder
  sent,       \* history: the messages the client has begun to send
  stream,     \* the bytes on their way to the server
  ends,       \* history: the positions in stream at which a frame ends
  parser,     \* the WebSocketParser in the server's decoder
  server,     \* the encoder of the server's answer
  phase,      \* where ProcessWebSocketData is: "Read", "Respond", or the
              \* connection is "closed"
  crossed,    \* history: a read has held the end of a frame and bytes after it
  refused,    \* history: the parser has refused a frame
  delivered   \* history: the messages given to the handler

vars == <<client, sent, stream, ends, parser, server, phase, crossed, refused, delivered>>

----------------------------------------------------------------------------
(* class WebSocketEncoder.                                                 *)

\* m_data is what is left to encode from the pointer on.
NewEncoder(isClient, opCode, frameSize, payload) ==
  [m_isClient |-> isClient, m_opCode |-> opCode, m_frameSize |-> frameSize,
   m_data |-> payload, m_len |-> Len(payload), m_offset |-> 0, m_outputBuf |-> <<>>]

EncoderComplete(e) == e.m_offset = e.m_len

\* The exclusive or of two bytes, bit by bit.
Xor(a, b) ==
  LET Bit(weight) == weight * ((a \div weight + b \div weight) % 2)
  IN  Bit(1) + Bit(2) + Bit(4) + Bit(8) + Bit(16) + Bit(32) + Bit(64) + Bit(128)

\* A sequence XORed with a mask key, which is used over and over.
Masked(s, key) == [i \in 1 .. Len(s) |-> Xor(s[i], key[((i - 1) % 4) + 1])]

\* Mask bit and payload length, in network byte order; of the 8 bytes of a long
\* length 4 are sent, the upper ones, zero for any length below 2^32.
LengthBytes(mask, n) ==
  CASE n > 65535 -> <<mask + 127, 0, 0, 0, 0>>
    [] n > 126 /\ n <= 65535 -> <<mask + 126, n \div 256, n % 256>>
    [] OTHER -> <<mask + n>>

\* Is this the last frame?  Not if the rest is exactly a frame.
IsLastFrame(e) == e.m_frameSize > e.m_len - e.m_offset

\* Variant: only a message of one frame gets the FIN bit.
FinBit_Single(e) == IF e.m_frameSize > e.m_len THEN 128 ELSE 0

FinBit(e) == IF IsLastFrame(e) THEN 128 ELSE 0

Encode(e, key) ==
  LET n      == IF IsLastFrame(e) THEN e.m_len - e.m_offset ELSE e.m_frameSize
      opCode == IF e.m_offset # 0 THEN OpCodeType_Continue ELSE e.m_opCode
      data   == SubSeq(e.m_data, 1, n)
      mask   == IF e.m_isClient THEN 128 ELSE 0
  IN  [e EXCEPT !.m_opCode = opCode,
                !.m_outputBuf = <<FinBit(e) + opCode>> \o LengthBytes(mask, n)
                                \o IF e.m_isClient THEN key \o Masked(data, key) ELSE data,
                !.m_data = SubSeq(@, n + 1, Len(@)),
                !.m_offset = @ + n]

----------------------------------------------------------------------------
(* class WebSocketParser.                                                  *)

NewParser ==
  [m_complete |-> FALSE, m_headerComplete |-> FALSE, m_fin |-> FALSE, m_opCode |-> 0,
   m_payloadLen |-> 0, m_offset |-> 0, m_maskKey |-> <<>>, m_inputCache |-> <<>>,
   m_payload |-> <<>>]

HaveBytes(p, len) == Len(p.m_inputCache) - p.m_offset >= len

ResetCurrentFrame(p) ==
  [p EXCEPT !.m_headerComplete = FALSE, !.m_fin = FALSE, !.m_payloadLen = 0, !.m_offset = 0,
            !.m_inputCache = <<>>]

\* Variant: the payload is kept.
Reset_KeepsPayload(p) == [ResetCurrentFrame(p) EXCEPT !.m_complete = FALSE]

Reset(p) == [ResetCurrentFrame(p) EXCEPT !.m_complete = FALSE, !.m_payload = <<>>]

\* The number that the 2 or 8 bytes after the second stand for in network
\* order.  One of 2^30 or more is as good as another, all being beyond
\* kMaxLength (10 MB), and is given as the least of those.
ExtendedLength(bytes, width) ==
  CASE width = 2 -> bytes[3] * 256 + bytes[4]
    [] width = 8 /\ (bytes[7] > 63 \/ \E i \in 3 .. 6 : bytes[i] # 0) -> kMaxLength + 1
    [] OTHER -> ((bytes[7] * 256 + bytes[8]) * 256 + bytes[9]) * 256 + bytes[10]

\* What an incomplete header leaves in the members is overwritten by the next
\* call and not looked at before, so none of it is kept here.
ParseHeader(p) ==
  LET bytes == p.m_inputCache
      len7  == bytes[2] % 128
      ext   == CASE len7 = 126 -> 2 [] len7 = 127 -> 8 [] OTHER -> 0
      mask  == IF (bytes[2] \div 128) % 2 = 1 THEN 4 ELSE 0
      size  == 2 + ext + mask
  IN  IF Len(bytes) < 2 \/ Len(bytes) < size
      THEN [p EXCEPT !.m_offset = 0]
      ELSE [p EXCEPT !.m_headerComplete = TRUE,
                     !.m_opCode = bytes[1] % 16,
                     !.m_fin = (bytes[1] \div 128) % 2 = 1,
                     !.m_payloadLen = IF ext = 0 THEN len7 ELSE ExtendedLength(bytes, ext),
                     !.m_maskKey = SubSeq(bytes, 3 + ext, size),
                     !.m_offset = size]

CheckOpCode(p) ==
  /\ p.m_opCode \in OpCodeTypes
  /\ p.m_opCode = OpCodeType_Continue => p.m_payload # <<>>

\* Variant: the limit is on the frame.
IsValidFrame_FrameOnly(p) ==
  p.m_maskKey # <<>> /\ CheckOpCode(p) /\ p.m_payloadLen <= kMaxLength

IsValidFrame(p) ==
  p.m_maskKey # <<>> /\ CheckOpCode(p) /\ Len(p.m_payload) + p.m_payloadLen <= kMaxLength

ProcessPayload(p) ==
  IF ~HaveBytes(p, p.m_payloadLen) THEN p
  ELSE ResetCurrentFrame(
         [p EXCEPT !.m_payload = @ \o Masked(SubSeq(p.m_inputCache, p.m_offset + 1,
                                                    p.m_offset + p.m_payloadLen), p.m_maskKey),
                   !.m_offset = @ + p.m_payloadLen,
                   !.m_complete = p.m_fin])

\* Parse on a read that is not empty: the parser afterwards and the result.
Parse(p, data) ==
  LET appended == [p EXCEPT !.m_inputCache = @ \o data]
      q == IF p.m_headerComplete THEN appended ELSE ParseHeader(appended)
  IN  CASE ~q.m_headerComplete -> [parser |-> q, ok |-> TRUE]
        [] q.m_headerComplete /\ ~IsValidFrame(q) -> [parser |-> q, ok |-> FALSE]
        [] OTHER -> [parser |-> ProcessPayload(q), ok |-> TRUE]

----------------------------------------------------------------------------

NoEncoder == NewEncoder(FALSE, OpCodeType_Binary, kFrameSize, <<>>)

Init ==
  /\ client = NoEncoder /\ server = NoEncoder
  /\ sent = <<>> /\ delivered = <<>>
  /\ stream = <<>> /\ ends = {}
  /\ parser = NewParser
  /\ phase = "Read" /\ crossed = FALSE /\ refused = FALSE

\* The client takes a new encoder for each message.
ClientBegins(transfer) ==
  /\ EncoderComplete(client) /\ Len(sent) < MaxMessages
  /\ client' = NewEncoder(TRUE, OpCodeType_Binary, transfer.frameSize, transfer.payload)
  /\ sent' = Append(sent, transfer.payload)
  /\ UNCHANGED <<stream, ends, parser, server, phase, crossed, refused, delivered>>

\* Bytes are written to the stream.
Written(bytes) ==
  /\ stream' = stream \o bytes
  /\ ends' = ends \cup {Len(stream) + Len(bytes)}

ClientSendsFrame(key) ==
  /\ ~EncoderComplete(client) /\ Cardinality(ends) < MaxInFlight
  /\ client' = Encode(client, key)
  /\ Written(Encode(client, key).m_outputBuf)
  /\ UNCHANGED <<sent, parser, server, phase, crossed, refused, delivered>>

\* The first n bytes of the stream, and what is left without them.
First(n) == SubSeq(stream, 1, n)
After(n) == SubSeq(stream, n + 1, Len(stream))

Readable == Len(stream)

\* n bytes are taken from the stream.
Taken(n) ==
  /\ stream' = After(n)
  /\ ends' = {e - n : e \in {x \in ends : x > n}}

\* The connection's coroutine reads n bytes and gives them to the parser.
ProcessWebSocketData(n) ==
  /\ phase = "Read"
  /\ Taken(n)
  /\ crossed' = (crossed \/ \E e \in ends : e < n)
  /\ \E r \in {Parse(parser, First(n))} :
       /\ parser' = r.parser
       /\ refused' = ~r.ok
       /\ phase' = CASE ~r.ok -> "closed"
                     [] r.ok /\ r.parser.m_complete -> "Respond"
                     [] OTHER -> "Read"
       /\ IF r.ok /\ r.parser.m_complete
          THEN /\ delivered' = Append(delivered, r.parser.m_payload)
               /\ server' = NewEncoder(FALSE, OpCodeType_Text, kFrameSize, r.parser.m_payload)
          ELSE UNCHANGED <<delivered, server>>
  /\ UNCHANGED <<client, sent>>

\* ResponseWebSocketData: a frame of the answer (the handler of
\* example/http_server echoes the message) is written, ...
RespondFrame ==
  /\ phase = "Respond" /\ ~EncoderComplete(server)
  /\ server' = Encode(server, <<>>)
  /\ UNCHANGED <<client, sent, stream, ends, parser, phase, crossed, refused, delivered>>

\* ... or cannot be, ...
ResponseFails ==
  /\ phase = "Respond" /\ ~EncoderComplete(server)
  /\ server' = Encode(server, <<>>)
  /\ phase' = "closed"
  /\ UNCHANGED <<client, sent, stream, ends, parser, crossed, refused, delivered>>

\* ... and then the decoder is reset for the next message.
RespondEnd ==
  /\ phase = "Respond" /\ EncoderComplete(server)
  /\ parser' = Reset(parser)
  /\ phase' = "Read"
  /\ UNCHANGED <<client, sent, stream, ends, server, crossed, refused, delivered>>

Sending   == \E key \in MaskKeys : ClientSendsFrame(key)
Reading   == \E n \in ReadSizes \cup {Readable} :
               n \in 1 .. Readable /\ ProcessWebSocketData(n)
Responding == RespondFrame \/ RespondEnd

Next ==
  \/ \E transfer \in Transfers : ClientBegins(transfer)
  \/ Sending \/ Reading \/ Responding \/ ResponseFails

\* A client that has begun a message sends its frames, and the server reads
\* and answers: each is a thread in a loop.
Spec == Init /\ [][Next]_vars /\ WF_vars(Sending) /\ WF_vars(Reading) /\ WF_vars(Responding)

----------------------------------------------------------------------------

\* Types; even after a read that crosses the end of a frame, whose rest
\* ResetCurrentFrame drops, so that the parser takes up in the middle of the
\* next one, it is never beyond its input and its payload within kMaxLength.
TypeOK ==
  /\ phase \in {"Read", "Respond", "closed"} /\ refused \in BOOLEAN
  /\ parser.m_offset \in 0 .. Len(parser.m_inputCache)
  /\ parser.m_payload \in Seq(0 .. 255) /\ Len(parser.m_payload) <= kMaxLength
  /\ client.m_offset \in 0 .. client.m_len /\ server.m_offset \in 0 .. server.m_len

\* However messages are cut into frames and the frames into reads, the handler
\* gets the messages that were sent, in their order, with nothing added, lost
\* or mixed, as long as no read crosses the end of a frame.
DeliveredIsSent == ~crossed => IsPrefix(delivered, sent)

\* The number in a field of a frame (those of 2^24 or more are all alike).
Field(frame, first, width) ==
  MapThenSumSet(LAMBDA i : LET digit == width - 1 - i
                           IN  CASE frame[first + i] = 0 -> 0
                                 [] frame[first + i] # 0 /\ digit > 2 -> 2^24
                                 [] OTHER -> frame[first + i] * 256 ^ digit,
                0 .. width - 1)

\* The length of a frame as the diagram at the head of WebSocketParser.h has
\* it: an extended payload length follows if the payload length is 126 or 127,
\* a masking key if the mask bit is set.
LayoutLength(frame) ==
  LET len7 == frame[2] % 128
      ext  == CASE len7 = 126 -> 2 [] len7 = 127 -> 8 [] OTHER -> 0
      mask == IF frame[2] >= 128 THEN 4 ELSE 0
  IN  IF Len(frame) < 2 + ext THEN -1
      ELSE 2 + ext + mask + IF ext = 0 THEN len7 ELSE Field(frame, 3, ext)

\* Every frame that either encoder produces has that layout.
FramesFollowLayout ==
  \A e \in {client, server} :
    e.m_outputBuf # <<>> => LayoutLength(e.m_outputBuf) = Len(e.m_outputBuf)
=============================================================================
