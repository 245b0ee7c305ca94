-------------------------- MODULE WebSocketProofs --------------------------
(***************************************************************************)
(* Theorems about WebSocket: the state stays typed, and messages arrive as *)
(* they were sent while no read crosses the end of a frame.                *)
(***************************************************************************)
EXTENDS WebSocket, SequenceTheorems, TLAPS

Byte == 0 .. 255

----------------------------------------------------------------------------
(* Bytes and sequences of bytes.                                           *)

LEMMA ByteIsNat == ASSUME NEW a \in Byte PROVE a \in Nat /\ a < 256
BY DEF Byte

LEMMA ByteRemainders == ASSUME NEW a \in Byte PROVE a % 16 \in 0 .. 15 /\ a % 128 \in Nat
BY DEF Byte

LEMMA TwoBytes == ASSUME NEW a \in Byte, NEW b \in Byte PROVE a * 256 + b \in Nat
BY DEF Byte

LEMMA FourBytes ==
  ASSUME NEW a \in Byte, NEW b \in Byte, NEW c \in Byte, NEW d \in Byte
  PROVE  ((a * 256 + b) * 256 + c) * 256 + d \in Nat
BY DEF Byte

\* The mask bit above a length of 7 bits, and a length of 16 bits in two bytes.
LEMMA SevenBits ==
  ASSUME NEW n \in 1 .. 125
  PROVE  (128 + n) % 128 = n /\ ((128 + n) \div 128) % 2 = 1
OBVIOUS

LEMMA SixteenBits ==
  ASSUME NEW n \in Nat, NEW high, NEW low, high = n \div 256, low = n % 256
  PROVE  high * 256 + low = n
OBVIOUS

LEMMA ConcatBytes ==
  ASSUME NEW s \in Seq(Byte), NEW t \in Seq(Byte)
  PROVE  /\ s \o t \in Seq(Byte)
         /\ Len(s \o t) = Len(s) + Len(t)
         /\ \A i \in 1 .. Len(s) : (s \o t)[i] = s[i]
         /\ \A i \in 1 .. Len(t) : (s \o t)[Len(s) + i] = t[i]
BY ConcatProperties

\* The same, one fact each.
LEMMA ConcatSeq ==
  \A s, t \in Seq(Byte) : s \o t \in Seq(Byte) /\ Len(s \o t) = Len(s) + Len(t)
BY ConcatBytes

LEMMA ConcatFirst ==
  \A s, t \in Seq(Byte) : \A i \in 1 .. Len(s) : (s \o t)[i] = s[i]
BY ConcatBytes

LEMMA ConcatSecond ==
  \A s, t \in Seq(Byte) : \A i \in 1 .. Len(t) : (s \o t)[Len(s) + i] = t[i]
BY ConcatBytes

LEMMA SubSeqBytes ==
  ASSUME NEW s \in Seq(Byte), NEW m \in 1 .. Len(s) + 1, NEW n \in m - 1 .. Len(s)
  PROVE  /\ SubSeq(s, m, n) \in Seq(Byte)
         /\ Len(SubSeq(s, m, n)) = n - m + 1
         /\ \A i \in 1 .. n - m + 1 : SubSeq(s, m, n)[i] = s[m + i - 1]
<1>1. Len(s) \in Nat /\ m \in Int /\ n \in Int
  OBVIOUS
<1>2. \A i \in m .. n : s[i] \in Byte
  BY ElementOfSeq
<1>3. /\ SubSeq(s, m, n) \in Seq(Byte)
      /\ Len(SubSeq(s, m, n)) = IF m <= n THEN n - m + 1 ELSE 0
      /\ \A i \in 1 .. n - m + 1 : SubSeq(s, m, n)[i] = s[m + i - 1]
  BY <1>1, <1>2, SubSeqProperties
<1> QED
  BY <1>1, <1>3

----------------------------------------------------------------------------
(* The exclusive or of bytes.                                              *)

BitOf(n, weight) == (n \div weight) % 2

BitSum(b1, b2, b4, b8, b16, b32, b64, b128) ==
  b1 + 2 * b2 + 4 * b4 + 8 * b8 + 16 * b16 + 32 * b32 + 64 * b64 + 128 * b128

\* Xor is a byte.
LEMMA XorIsByte ==
  ASSUME NEW a \in Byte, NEW b \in Byte
  PROVE  Xor(a, b) \in Byte
BY DEF Xor, Byte

\* A byte is the sum of its bits, ...
LEMMA ByteIsBitSum ==
  ASSUME NEW a \in Byte
  PROVE  a = BitSum(BitOf(a, 1), BitOf(a, 2), BitOf(a, 4), BitOf(a, 8), BitOf(a, 16),
                    BitOf(a, 32), BitOf(a, 64), BitOf(a, 128))
BY DEF Byte, BitOf, BitSum

\* ... and the bits of a sum of bits are those bits.
LEMMA BitsOfBitSum ==
  ASSUME NEW b1 \in 0 .. 1, NEW b2 \in 0 .. 1, NEW b4 \in 0 .. 1, NEW b8 \in 0 .. 1,
         NEW b16 \in 0 .. 1, NEW b32 \in 0 .. 1, NEW b64 \in 0 .. 1, NEW b128 \in 0 .. 1,
         NEW n, n = BitSum(b1, b2, b4, b8, b16, b32, b64, b128)
  PROVE  /\ BitOf(n, 1) = b1 /\ BitOf(n, 2) = b2 /\ BitOf(n, 4) = b4 /\ BitOf(n, 8) = b8
         /\ BitOf(n, 16) = b16 /\ BitOf(n, 32) = b32 /\ BitOf(n, 64) = b64
         /\ BitOf(n, 128) = b128
BY DEF BitOf, BitSum

\* The parser's use of the mask key undoes the encoder's.
LEMMA XorTwice ==
  ASSUME NEW a \in Byte, NEW b \in Byte
  PROVE  Xor(Xor(a, b), b) = a
<1> DEFINE x == Xor(a, b)
           p(weight) == (a \div weight + b \div weight) % 2
<1> HIDE DEF x
<1>1. x = BitSum(p(1), p(2), p(4), p(8), p(16), p(32), p(64), p(128))
  BY DEF x, Xor, Byte, BitSum
<1>2. /\ p(1) \in 0 .. 1 /\ p(2) \in 0 .. 1 /\ p(4) \in 0 .. 1 /\ p(8) \in 0 .. 1
      /\ p(16) \in 0 .. 1 /\ p(32) \in 0 .. 1 /\ p(64) \in 0 .. 1 /\ p(128) \in 0 .. 1
  BY DEF Byte
<1> HIDE DEF p
<1>3. /\ BitOf(x, 1) = p(1) /\ BitOf(x, 2) = p(2) /\ BitOf(x, 4) = p(4) /\ BitOf(x, 8) = p(8)
      /\ BitOf(x, 16) = p(16) /\ BitOf(x, 32) = p(32) /\ BitOf(x, 64) = p(64)
      /\ BitOf(x, 128) = p(128)
  BY <1>1, <1>2, BitsOfBitSum
<1>4. x \in Byte
  BY <1>1, <1>2 DEF Byte, BitSum
<1>5. ASSUME NEW weight \in {1, 2, 4, 8, 16, 32, 64, 128}, BitOf(x, weight) = p(weight)
      PROVE  (x \div weight + b \div weight) % 2 = BitOf(a, weight)
  <2>1. x \div weight \in Int /\ b \div weight \in Int /\ a \div weight \in Int
    BY <1>4 DEF Byte
  <2> QED
    BY <1>5, <2>1 DEF BitOf, p
<1>6. Xor(x, b) = BitSum(BitOf(a, 1), BitOf(a, 2), BitOf(a, 4), BitOf(a, 8), BitOf(a, 16),
                         BitOf(a, 32), BitOf(a, 64), BitOf(a, 128))
  <2>1. /\ (x \div 1 + b \div 1) % 2 = BitOf(a, 1)
        /\ (x \div 2 + b \div 2) % 2 = BitOf(a, 2)
        /\ (x \div 4 + b \div 4) % 2 = BitOf(a, 4)
        /\ (x \div 8 + b \div 8) % 2 = BitOf(a, 8)
        /\ (x \div 16 + b \div 16) % 2 = BitOf(a, 16)
        /\ (x \div 32 + b \div 32) % 2 = BitOf(a, 32)
        /\ (x \div 64 + b \div 64) % 2 = BitOf(a, 64)
        /\ (x \div 128 + b \div 128) % 2 = BitOf(a, 128)
    BY <1>3, <1>5
  <2>2. BitOf(a, 1) \in Int
    BY DEF BitOf, Byte
  <2> QED
    BY <2>1, <2>2 DEF Xor, BitSum
<1> QED
  BY <1>6, ByteIsBitSum DEF x

\* A sequence of bytes XORed with a key is a sequence of bytes of that length.
LEMMA MaskedIsBytes ==
  ASSUME NEW s \in Seq(Byte), NEW key \in Seq(Byte), Len(key) = 4
  PROVE  /\ Masked(s, key) \in Seq(Byte)
         /\ Len(Masked(s, key)) = Len(s)
         /\ \A i \in 1 .. Len(s) : Masked(s, key)[i] = Xor(s[i], key[((i - 1) % 4) + 1])
<1>1. \A i \in 1 .. Len(s) : Xor(s[i], key[((i - 1) % 4) + 1]) \in Byte
  <2> SUFFICES ASSUME NEW i \in 1 .. Len(s)
               PROVE  Xor(s[i], key[((i - 1) % 4) + 1]) \in Byte
    OBVIOUS
  <2>1. s[i] \in Byte
    BY ElementOfSeq
  <2>2. ((i - 1) % 4) + 1 \in 1 .. Len(key)
    OBVIOUS
  <2>3. key[((i - 1) % 4) + 1] \in Byte
    BY <2>2, ElementOfSeq
  <2> QED
    BY <2>1, <2>3, XorIsByte
<1>2. Len(s) \in Nat
  OBVIOUS
<1> QED
  BY <1>1, <1>2 DEF Masked

----------------------------------------------------------------------------
(* Types.                                                                  *)

Encoders ==
  [m_isClient : BOOLEAN, m_opCode : {0, 1, 2}, m_frameSize : Nat \ {0}, m_data : Seq(Byte),
   m_len : Nat, m_offset : Nat, m_outputBuf : Seq(Byte)]

\* m_data is what is left of the payload.
EncoderFits(e) == e.m_offset <= e.m_len /\ Len(e.m_data) = e.m_len - e.m_offset

Parsers ==
  [m_complete : BOOLEAN, m_headerComplete : BOOLEAN, m_fin : BOOLEAN, m_opCode : 0 .. 15,
   m_payloadLen : Nat, m_offset : Nat, m_maskKey : Seq(Byte), m_inputCache : Seq(Byte),
   m_payload : Seq(Byte)]

\* There is a mask key of four bytes or none.
ParserFits(p) ==
  /\ p.m_offset <= Len(p.m_inputCache)
  /\ Len(p.m_maskKey) \in {0, 4}
  /\ Len(p.m_payload) <= kMaxLength

StateTyped ==
  /\ client \in Encoders /\ server \in Encoders
  /\ sent \in Seq(Seq(Byte)) /\ delivered \in Seq(Seq(Byte))
  /\ stream \in Seq(Byte) /\ ends \subseteq Int
  /\ parser \in Parsers
  /\ phase \in {"Read", "Respond", "closed"} /\ crossed \in BOOLEAN /\ refused \in BOOLEAN

\* The inductive form of TypeOK.
TypeInv ==
  /\ StateTyped
  /\ EncoderFits(client) /\ EncoderFits(server)
  /\ ParserFits(parser)

\* The number of payload bytes in the next frame of an encoder.
FrameBytes(e) == IF IsLastFrame(e) THEN e.m_len - e.m_offset ELSE e.m_frameSize

\* The op code of that frame, and the frame.
FrameOpCode(e) == IF e.m_offset # 0 THEN OpCodeType_Continue ELSE e.m_opCode

MaskBit(e) == IF e.m_isClient THEN 128 ELSE 0

FrameBody(e, key) ==
  IF e.m_isClient THEN key \o Masked(SubSeq(e.m_data, 1, FrameBytes(e)), key)
  ELSE SubSeq(e.m_data, 1, FrameBytes(e))

Frame(e, key) ==
  <<FinBit(e) + FrameOpCode(e)>> \o LengthBytes(MaskBit(e), FrameBytes(e)) \o FrameBody(e, key)

LEMMA EncodeIs ==
  ASSUME NEW e, NEW key
  PROVE  Encode(e, key) = [e EXCEPT !.m_opCode = FrameOpCode(e),
                                    !.m_outputBuf = Frame(e, key),
                                    !.m_data = SubSeq(@, FrameBytes(e) + 1, Len(@)),
                                    !.m_offset = @ + FrameBytes(e)]
BY DEF Encode, FrameOpCode, Frame, FrameBody, FrameBytes, MaskBit

\* A frame takes at most what is left.
LEMMA FrameBytesFit ==
  ASSUME NEW e \in Encoders, EncoderFits(e)
  PROVE  FrameBytes(e) \in 0 .. e.m_len - e.m_offset
BY DEF Encoders, EncoderFits, FrameBytes, IsLastFrame

\* The length field is one, three or five bytes.
LEMMA LengthBytesType ==
  ASSUME NEW n \in Nat, NEW mask \in {0, 128}
  PROVE  LengthBytes(mask, n) \in Seq(Byte)
<1>1. CASE n > 65535
  <2>1. LengthBytes(mask, n) = <<mask + 127, 0, 0, 0, 0>>
    BY <1>1 DEF LengthBytes
  <2>2. mask + 127 \in Byte /\ 0 \in Byte
    BY DEF Byte
  <2> QED
    BY <2>1, <2>2
<1>2. CASE n > 126 /\ n <= 65535
  <2>1. LengthBytes(mask, n) = <<mask + 126, n \div 256, n % 256>>
    BY <1>2 DEF LengthBytes
  <2>2. mask + 126 \in Byte /\ n \div 256 \in Byte /\ n % 256 \in Byte
    BY <1>2 DEF Byte
  <2> QED
    BY <2>1, <2>2
<1>3. CASE n <= 126
  <2>1. LengthBytes(mask, n) = <<mask + n>>
    BY <1>3 DEF LengthBytes
  <2>2. mask + n \in Byte
    BY <1>3 DEF Byte
  <2> QED
    BY <2>1, <2>2
<1> QED
  BY <1>1, <1>2, <1>3

\* The rest of a frame: the mask key, if there is one, and the payload.
LEMMA FrameBodyType ==
  ASSUME NEW e \in Encoders, EncoderFits(e),
         NEW key, e.m_isClient => key \in Seq(Byte) /\ Len(key) = 4
  PROVE  FrameBody(e, key) \in Seq(Byte)
<1> DEFINE data == SubSeq(e.m_data, 1, FrameBytes(e))
<1>1. FrameBytes(e) \in 0 .. Len(e.m_data) /\ e.m_data \in Seq(Byte) /\ e.m_isClient \in BOOLEAN
  BY FrameBytesFit DEF Encoders, EncoderFits
<1>2. data \in Seq(Byte)
  BY <1>1
<1>3. CASE e.m_isClient
  <2>1. Masked(data, key) \in Seq(Byte)
    BY <1>2, <1>3, MaskedIsBytes
  <2>2. key \o Masked(data, key) \in Seq(Byte)
    BY <1>3, <2>1, ConcatProperties
  <2> QED
    BY <1>3, <2>2 DEF FrameBody
<1>4. CASE ~e.m_isClient
  BY <1>2, <1>4 DEF FrameBody
<1> QED
  BY <1>3, <1>4

LEMMA FrameType ==
  ASSUME NEW e \in Encoders, EncoderFits(e),
         NEW key, e.m_isClient => key \in Seq(Byte) /\ Len(key) = 4
  PROVE  Frame(e, key) \in Seq(Byte)
<1>1. FinBit(e) + FrameOpCode(e) \in Byte
  <2>1. FinBit(e) \in 0 .. 128
    BY DEF FinBit
  <2>2. FrameOpCode(e) \in 0 .. 2
    BY DEF Encoders, FrameOpCode, OpCodeType_Continue
  <2>3. \A a \in 0 .. 128, b \in 0 .. 2 : a + b \in Byte
    BY DEF Byte
  <2> QED
    BY <2>1, <2>2, <2>3
<1>2. LengthBytes(MaskBit(e), FrameBytes(e)) \in Seq(Byte)
  <2>1. MaskBit(e) \in {0, 128} /\ FrameBytes(e) \in Nat
    BY FrameBytesFit DEF MaskBit, Encoders
  <2> QED
    BY <2>1, LengthBytesType
<1>3. <<FinBit(e) + FrameOpCode(e)>> \o LengthBytes(MaskBit(e), FrameBytes(e)) \in Seq(Byte)
  BY <1>1, <1>2, ConcatProperties
<1> QED
  BY <1>3, FrameBodyType, ConcatProperties DEF Frame

\* Encode keeps an encoder typed.
LEMMA EncodeType ==
  ASSUME NEW e \in Encoders, EncoderFits(e),
         NEW key, e.m_isClient => key \in Seq(Byte) /\ Len(key) = 4
  PROVE  Encode(e, key) \in Encoders /\ EncoderFits(Encode(e, key))
<1>1. FrameBytes(e) \in 0 .. e.m_len - e.m_offset /\ e.m_data \in Seq(Byte)
      /\ e.m_len \in Nat /\ e.m_offset \in Nat /\ Len(e.m_data) = e.m_len - e.m_offset
  BY FrameBytesFit DEF Encoders, EncoderFits
<1>2. SubSeq(e.m_data, FrameBytes(e) + 1, Len(e.m_data)) \in Seq(Byte)
      /\ Len(SubSeq(e.m_data, FrameBytes(e) + 1, Len(e.m_data))) = Len(e.m_data) - FrameBytes(e)
  BY <1>1
<1>3. FrameOpCode(e) \in {0, 1, 2}
  BY DEF Encoders, FrameOpCode, OpCodeType_Continue
<1>4. Frame(e, key) \in Seq(Byte)
  BY FrameType
<1> DEFINE rest == SubSeq(e.m_data, FrameBytes(e) + 1, Len(e.m_data))
<1>5. Encode(e, key) = [m_isClient |-> e.m_isClient, m_opCode |-> FrameOpCode(e),
                        m_frameSize |-> e.m_frameSize, m_data |-> rest, m_len |-> e.m_len,
                        m_offset |-> e.m_offset + FrameBytes(e),
                        m_outputBuf |-> Frame(e, key)]
  BY EncodeIs DEF Encoders
<1> HIDE DEF rest
<1>6. /\ e.m_isClient \in BOOLEAN /\ e.m_frameSize \in Nat \ {0} /\ rest \in Seq(Byte)
      /\ e.m_offset + FrameBytes(e) \in Nat
  BY <1>1, <1>2 DEF Encoders, rest
<1>7. Encode(e, key) \in Encoders
  BY <1>1, <1>3, <1>4, <1>5, <1>6 DEF Encoders
<1>8. EncoderFits(Encode(e, key))
  BY <1>1, <1>2, <1>5 DEF EncoderFits, rest
<1> QED
  BY <1>7, <1>8

\* The parser after a header: the size of it and what is taken from it.
HeaderExt(bytes) == CASE bytes[2] % 128 = 126 -> 2 [] bytes[2] % 128 = 127 -> 8 [] OTHER -> 0
HeaderMask(bytes) == IF (bytes[2] \div 128) % 2 = 1 THEN 4 ELSE 0
HeaderSize(bytes) == 2 + HeaderExt(bytes) + HeaderMask(bytes)

HeaderLength(bytes) ==
  IF HeaderExt(bytes) = 0 THEN bytes[2] % 128 ELSE ExtendedLength(bytes, HeaderExt(bytes))

LEMMA ParseHeaderIs ==
  ASSUME NEW p, NEW bytes, p.m_inputCache = bytes
  PROVE  ParseHeader(p) =
           IF Len(bytes) < 2 \/ Len(bytes) < HeaderSize(bytes)
           THEN [p EXCEPT !.m_offset = 0]
           ELSE [p EXCEPT !.m_headerComplete = TRUE,
                          !.m_opCode = bytes[1] % 16,
                          !.m_fin = (bytes[1] \div 128) % 2 = 1,
                          !.m_payloadLen = HeaderLength(bytes),
                          !.m_maskKey = SubSeq(bytes, 3 + HeaderExt(bytes), HeaderSize(bytes)),
                          !.m_offset = HeaderSize(bytes)]
BY DEF ParseHeader, HeaderExt, HeaderMask, HeaderSize, HeaderLength

\* A header has at least two bytes, and its length is a number.
LEMMA HeaderTypes ==
  ASSUME NEW bytes \in Seq(Byte), Len(bytes) >= 2, Len(bytes) >= HeaderSize(bytes)
  PROVE  /\ HeaderExt(bytes) \in {0, 2, 8} /\ HeaderMask(bytes) \in {0, 4}
         /\ HeaderSize(bytes) = 2 + HeaderExt(bytes) + HeaderMask(bytes)
         /\ HeaderLength(bytes) \in Nat
         /\ bytes[1] % 16 \in 0 .. 15
<1>1. bytes[1] \in Byte /\ bytes[2] \in Byte
  BY ElementOfSeq
<1>2. HeaderExt(bytes) \in {0, 2, 8} /\ HeaderMask(bytes) \in {0, 4}
  BY DEF HeaderExt, HeaderMask
<1>3. HeaderSize(bytes) = 2 + HeaderExt(bytes) + HeaderMask(bytes)
  BY DEF HeaderSize
<1>4. bytes[1] % 16 \in 0 .. 15
  BY <1>1, ByteRemainders
<1>5. HeaderLength(bytes) \in Nat
  <2>1. CASE HeaderExt(bytes) = 0
    <3>1. HeaderLength(bytes) = bytes[2] % 128
      BY <2>1 DEF HeaderLength
    <3> QED
      BY <1>1, <3>1, ByteRemainders
  <2>2. CASE HeaderExt(bytes) = 2
    <3>1. Len(bytes) >= 4
      BY <1>2, <1>3, <2>2
    <3>2. bytes[3] \in Byte /\ bytes[4] \in Byte
      BY <3>1, ElementOfSeq
    <3>3. HeaderLength(bytes) = bytes[3] * 256 + bytes[4]
      BY <2>2 DEF HeaderLength, ExtendedLength
    <3> QED
      BY <3>2, <3>3, TwoBytes, ZenonT(60)
  <2>3. CASE HeaderExt(bytes) = 8
    <3>1. Len(bytes) >= 10
      BY <1>2, <1>3, <2>3
    <3>2. bytes[7] \in Byte /\ bytes[8] \in Byte /\ bytes[9] \in Byte /\ bytes[10] \in Byte
      BY <3>1, ElementOfSeq
    <3>3. \/ HeaderLength(bytes) = kMaxLength + 1
          \/ HeaderLength(bytes) =
               ((bytes[7] * 256 + bytes[8]) * 256 + bytes[9]) * 256 + bytes[10]
      BY <2>3 DEF HeaderLength, ExtendedLength
    <3>4. ((bytes[7] * 256 + bytes[8]) * 256 + bytes[9]) * 256 + bytes[10] \in Nat
      <4> DEFINE a == bytes[7]
                 b == bytes[8]
                 c == bytes[9]
                 d == bytes[10]
      <4>1. a \in Byte /\ b \in Byte /\ c \in Byte /\ d \in Byte
        BY <3>2
      <4> HIDE DEF a, b, c, d
      <4>2. ((a * 256 + b) * 256 + c) * 256 + d \in Nat
        BY <4>1, FourBytes
      <4> QED
        BY <4>2 DEF a, b, c, d
    <3> HIDE DEF HeaderLength
    <3>5. kMaxLength + 1 \in Nat
      BY WebSocketAssumption
    <3> QED
      BY <3>3, <3>4, <3>5
  <2> QED
    BY <1>2, <2>1, <2>2, <2>3
<1> QED
  BY <1>2, <1>3, <1>4, <1>5

\* ParseHeader keeps a parser typed, and its payload and input as they are.
LEMMA ParseHeaderType ==
  ASSUME NEW p \in Parsers, ParserFits(p)
  PROVE  LET q == ParseHeader(p)
         IN  /\ q \in Parsers /\ ParserFits(q)
             /\ q.m_payload = p.m_payload /\ q.m_inputCache = p.m_inputCache
             /\ q.m_complete = p.m_complete
<1> DEFINE bytes == p.m_inputCache
<1>1. bytes \in Seq(Byte) /\ Len(bytes) \in Nat
  BY DEF Parsers
<1>2. CASE Len(bytes) < 2 \/ Len(bytes) < HeaderSize(bytes)
  <2>1. ParseHeader(p) = [p EXCEPT !.m_offset = 0]
    BY <1>2, ParseHeaderIs
  <2> QED
    BY <1>1, <2>1, SMTT(40) DEF Parsers, ParserFits
<1>3. CASE Len(bytes) >= 2 /\ Len(bytes) >= HeaderSize(bytes)
  <2> DEFINE key == SubSeq(bytes, 3 + HeaderExt(bytes), HeaderSize(bytes))
             fin == (bytes[1] \div 128) % 2 = 1
  <2>1. /\ HeaderExt(bytes) \in {0, 2, 8} /\ HeaderMask(bytes) \in {0, 4}
        /\ HeaderSize(bytes) = 2 + HeaderExt(bytes) + HeaderMask(bytes)
        /\ HeaderLength(bytes) \in Nat /\ bytes[1] % 16 \in 0 .. 15
    BY <1>1, <1>3, HeaderTypes
  <2>2. \A i \in 3 + HeaderExt(bytes) .. HeaderSize(bytes) : bytes[i] \in Byte
    BY <1>1, <1>3, <2>1, ElementOfSeq
  <2>3. key \in Seq(Byte) /\ Len(key) \in {0, 4}
    <3>1. 3 + HeaderExt(bytes) \in Int /\ HeaderSize(bytes) \in Int
      BY <2>1
    <3>2. key \in Seq(Byte) /\ Len(key) = IF 3 + HeaderExt(bytes) <= HeaderSize(bytes)
                                          THEN HeaderSize(bytes) - (3 + HeaderExt(bytes)) + 1
                                          ELSE 0
      BY <2>2, <3>1, SubSeqProperties
    <3> QED
      BY <2>1, <3>2
  <2>4. ~(Len(bytes) < 2 \/ Len(bytes) < HeaderSize(bytes))
    BY <1>1, <1>3, <2>1
  <2> HIDE DEF key
  <2>5. ParseHeader(p) = [m_complete |-> p.m_complete, m_headerComplete |-> TRUE,
                          m_fin |-> fin, m_opCode |-> bytes[1] % 16,
                          m_payloadLen |-> HeaderLength(bytes), m_offset |-> HeaderSize(bytes),
                          m_maskKey |-> key, m_inputCache |-> bytes, m_payload |-> p.m_payload]
    <3>1. ParseHeader(p) = [p EXCEPT !.m_headerComplete = TRUE,
                          !.m_opCode = bytes[1] % 16,
                          !.m_fin = (bytes[1] \div 128) % 2 = 1,
                          !.m_payloadLen = HeaderLength(bytes),
                          !.m_maskKey = SubSeq(bytes, 3 + HeaderExt(bytes), HeaderSize(bytes)),
                          !.m_offset = HeaderSize(bytes)]
      BY <2>4, ParseHeaderIs, ZenonT(60)
    <3> QED
      BY <3>1 DEF Parsers, key
  <2>6. fin \in BOOLEAN /\ HeaderSize(bytes) \in Nat /\ HeaderSize(bytes) <= Len(bytes)
    BY <1>1, <1>3, <2>1
  <2>7. p.m_complete \in BOOLEAN /\ p.m_payload \in Seq(Byte) /\ Len(p.m_payload) <= kMaxLength
    BY DEF Parsers, ParserFits
  <2> HIDE DEF fin, bytes
  <2>8. ParseHeader(p) \in Parsers
    BY <1>1, <2>1, <2>3, <2>5, <2>6, <2>7 DEF Parsers
  <2>9. ParserFits(ParseHeader(p))
    BY <2>3, <2>5, <2>6, <2>7 DEF ParserFits
  <2> QED
    BY <2>5, <2>8, <2>9 DEF bytes
<1>4. HeaderSize(bytes) \in Int
  BY DEF HeaderSize, HeaderExt, HeaderMask
<1> QED
  BY <1>1, <1>2, <1>3, <1>4

\* ProcessPayload on a frame that IsValidFrame has let through keeps a parser
\* typed and the payload within kMaxLength.
LEMMA ProcessPayloadType ==
  ASSUME NEW p \in Parsers, ParserFits(p), IsValidFrame(p)
  PROVE  ProcessPayload(p) \in Parsers /\ ParserFits(ProcessPayload(p))
<1>1. CASE ~HaveBytes(p, p.m_payloadLen)
  BY <1>1 DEF ProcessPayload
<1>2. CASE HaveBytes(p, p.m_payloadLen)
  <2> DEFINE data == SubSeq(p.m_inputCache, p.m_offset + 1, p.m_offset + p.m_payloadLen)
             taken == p.m_payload \o Masked(data, p.m_maskKey)
  <2>1. /\ p.m_inputCache \in Seq(Byte) /\ p.m_offset \in Nat /\ p.m_payloadLen \in Nat
        /\ p.m_payload \in Seq(Byte) /\ p.m_maskKey \in Seq(Byte)
        /\ p.m_offset + p.m_payloadLen <= Len(p.m_inputCache)
    BY <1>2 DEF Parsers, ParserFits, HaveBytes
  <2>2. data \in Seq(Byte) /\ Len(data) = p.m_payloadLen
    BY <2>1
  <2>3. Len(p.m_maskKey) = 4 /\ Len(p.m_payload) + p.m_payloadLen <= kMaxLength
    BY <2>1 DEF ParserFits, IsValidFrame
  <2> HIDE DEF data
  <2>4. Masked(data, p.m_maskKey) \in Seq(Byte) /\ Len(Masked(data, p.m_maskKey)) = Len(data)
    BY <2>1, <2>2, <2>3, MaskedIsBytes
  <2>5. taken \in Seq(Byte) /\ Len(taken) <= kMaxLength
    <3>1. taken \in Seq(Byte) /\ Len(taken) = Len(p.m_payload) + Len(Masked(data, p.m_maskKey))
      BY <2>1, <2>4, ConcatBytes
    <3> QED
      BY <2>1, <2>2, <2>3, <2>4, <3>1
  <2> HIDE DEF taken
  <2>6. ProcessPayload(p) =
          [m_complete |-> p.m_fin, m_headerComplete |-> FALSE, m_fin |-> FALSE,
           m_opCode |-> p.m_opCode, m_payloadLen |-> 0, m_offset |-> 0,
           m_maskKey |-> p.m_maskKey, m_inputCache |-> <<>>, m_payload |-> taken]
    BY <1>2 DEF ProcessPayload, ResetCurrentFrame, Parsers, taken, data
  <2>7. <<>> \in Seq(Byte) /\ Len(<<>>) = 0
    OBVIOUS
  <2>8. p.m_fin \in BOOLEAN /\ p.m_opCode \in 0 .. 15
    BY DEF Parsers
  <2> QED
    BY <2>1, <2>3, <2>5, <2>6, <2>7, <2>8 DEF Parsers, ParserFits
<1> QED
  BY <1>1, <1>2

\* Parse keeps a parser typed, whatever is read.
LEMMA ParseType ==
  ASSUME NEW p \in Parsers, ParserFits(p), NEW data \in Seq(Byte)
  PROVE  /\ Parse(p, data).parser \in Parsers /\ ParserFits(Parse(p, data).parser)
         /\ Parse(p, data).ok \in BOOLEAN
<1> DEFINE bytes == p.m_inputCache \o data
           appended == [p EXCEPT !.m_inputCache = bytes]
           q == IF p.m_headerComplete THEN appended ELSE ParseHeader(appended)
<1>1. appended \in Parsers /\ ParserFits(appended)
  <2>1. p.m_inputCache \in Seq(Byte) /\ p.m_offset \in Nat
    BY DEF Parsers
  <2>2. bytes \in Seq(Byte) /\ Len(bytes) >= Len(p.m_inputCache)
    BY <2>1, ConcatBytes
  <2>3. Len(p.m_inputCache) \in Nat /\ Len(bytes) \in Nat
    BY <2>1, <2>2
  <2> HIDE DEF bytes
  <2>5. appended \in Parsers
    BY <2>2 DEF Parsers
  <2>4. /\ appended.m_offset = p.m_offset /\ appended.m_inputCache = bytes
        /\ appended.m_maskKey = p.m_maskKey /\ appended.m_payload = p.m_payload
    BY DEF Parsers
  <2> HIDE DEF appended
  <2>6. ParserFits(appended)
    BY <2>1, <2>2, <2>3, <2>4 DEF ParserFits
  <2> QED
    BY <2>5, <2>6
<1> HIDE DEF appended
<1>2. q \in Parsers /\ ParserFits(q)
  BY <1>1, ParseHeaderType
<1> HIDE DEF q
<1>3. Parse(p, data) = CASE ~q.m_headerComplete -> [parser |-> q, ok |-> TRUE]
        [] q.m_headerComplete /\ ~IsValidFrame(q) -> [parser |-> q, ok |-> FALSE]
        [] OTHER -> [parser |-> ProcessPayload(q), ok |-> TRUE]
  BY DEF Parse, q, appended
<1>4. CASE ~q.m_headerComplete
  <2>1. Parse(p, data) = [parser |-> q, ok |-> TRUE]
    BY <1>3, <1>4
  <2> QED
    BY <1>2, <2>1
<1>5. CASE q.m_headerComplete /\ ~IsValidFrame(q)
  <2>1. Parse(p, data) = [parser |-> q, ok |-> FALSE]
    BY <1>3, <1>5
  <2> QED
    BY <1>2, <2>1
<1>6. CASE q.m_headerComplete /\ IsValidFrame(q)
  <2>1. Parse(p, data) = [parser |-> ProcessPayload(q), ok |-> TRUE]
    BY <1>3, <1>6
  <2> QED
    BY <1>2, <1>6, <2>1, ProcessPayloadType
<1> QED
  BY <1>4, <1>5, <1>6

----------------------------------------------------------------------------
(* Every step keeps the types.                                             *)

LEMMA NewEncoderType ==
  ASSUME NEW isClient \in BOOLEAN, NEW opCode \in {0, 1, 2}, NEW frameSize \in Nat \ {0},
         NEW payload \in Seq(Byte)
  PROVE  /\ NewEncoder(isClient, opCode, frameSize, payload) \in Encoders
         /\ EncoderFits(NewEncoder(isClient, opCode, frameSize, payload))
<1>1. <<>> \in Seq(Byte) /\ Len(payload) \in Nat
  OBVIOUS
<1> QED
  BY <1>1 DEF NewEncoder, Encoders, EncoderFits

LEMMA TypeInit == Init => TypeInv
<1> SUFFICES ASSUME Init PROVE TypeInv
  OBVIOUS
<1>1. <<>> \in Seq(Byte) /\ Len(<<>>) = 0 /\ <<>> \in Seq(Seq(Byte))
  OBVIOUS
<1>2. NoEncoder \in Encoders /\ EncoderFits(NoEncoder)
  BY <1>1, NewEncoderType, WebSocketAssumption DEF NoEncoder, OpCodeType_Binary
<1>3. NewParser \in Parsers /\ ParserFits(NewParser)
  BY <1>1, WebSocketAssumption DEF NewParser, Parsers, ParserFits
<1> QED
  BY <1>1, <1>2, <1>3 DEF Init, TypeInv, StateTyped

LEMMA TypeClientBegins ==
  ASSUME TypeInv, NEW transfer \in Transfers, ClientBegins(transfer)
  PROVE  TypeInv'
<1>1. transfer.payload \in Seq(Byte) /\ transfer.frameSize \in Nat \ {0}
  BY WebSocketAssumption DEF Byte
<1>2. client' \in Encoders /\ EncoderFits(client')
  BY <1>1, NewEncoderType DEF ClientBegins, OpCodeType_Binary
<1>3. sent' \in Seq(Seq(Byte))
  BY <1>1 DEF ClientBegins, TypeInv, StateTyped
<1> QED
  BY <1>2, <1>3 DEF ClientBegins, TypeInv, StateTyped

LEMMA TypeClientSendsFrame ==
  ASSUME TypeInv, NEW key \in MaskKeys, ClientSendsFrame(key)
  PROVE  TypeInv'
<1>1. key \in Seq(Byte) /\ Len(key) = 4
  BY WebSocketAssumption DEF Byte
<1>2. client \in Encoders /\ EncoderFits(client) /\ stream \in Seq(Byte) /\ ends \subseteq Int
  BY DEF TypeInv, StateTyped
<1>3. Encode(client, key) \in Encoders /\ EncoderFits(Encode(client, key))
  BY <1>1, <1>2, EncodeType
<1> DEFINE out == Encode(client, key).m_outputBuf
<1>4. out \in Seq(Byte)
  BY <1>3 DEF Encoders
<1>5. /\ client' = Encode(client, key) /\ stream' = stream \o out
      /\ ends' = ends \cup {Len(stream) + Len(out)}
      /\ UNCHANGED <<sent, parser, server, phase, crossed, refused, delivered>>
  BY DEF ClientSendsFrame, Written
<1> HIDE DEF out
<1>6. stream' \in Seq(Byte)
  BY <1>2, <1>4, <1>5, ConcatBytes
<1>7. ends' \subseteq Int
  <2>1. Len(stream) + Len(out) \in Int
    BY <1>2, <1>4
  <2> QED
    BY <1>2, <1>5, <2>1
<1> QED
  BY <1>3, <1>5, <1>6, <1>7 DEF TypeInv, StateTyped

LEMMA TypeRead ==
  ASSUME TypeInv, NEW n \in 1 .. Len(stream), ProcessWebSocketData(n)
  PROVE  TypeInv'
<1> DEFINE r == Parse(parser, First(n))
<1>1. /\ stream \in Seq(Byte) /\ ends \subseteq Int /\ Len(stream) \in Nat
      /\ parser \in Parsers /\ ParserFits(parser) /\ n \in Int
  BY DEF TypeInv, StateTyped
<1>2. First(n) \in Seq(Byte) /\ After(n) \in Seq(Byte)
  BY <1>1, SubSeqBytes DEF First, After
<1>3. r.parser \in Parsers /\ ParserFits(r.parser) /\ r.ok \in BOOLEAN
  BY <1>1, <1>2, ParseType
<1>4. r.parser.m_payload \in Seq(Byte)
  BY <1>3 DEF Parsers
<1>5. /\ stream' = After(n) /\ ends' = {e - n : e \in {x \in ends : x > n}}
      /\ crossed' = (crossed \/ \E e \in ends : e < n)
      /\ parser' = r.parser /\ refused' = ~r.ok
      /\ phase' = CASE ~r.ok -> "closed" [] r.ok /\ r.parser.m_complete -> "Respond"
                    [] OTHER -> "Read"
      /\ IF r.ok /\ r.parser.m_complete
         THEN /\ delivered' = Append(delivered, r.parser.m_payload)
              /\ server' = NewEncoder(FALSE, OpCodeType_Text, kFrameSize, r.parser.m_payload)
         ELSE UNCHANGED <<delivered, server>>
      /\ UNCHANGED <<client, sent>>
  BY DEF ProcessWebSocketData, Taken
<1> HIDE DEF r
<1>6. ends' \subseteq Int /\ crossed' \in BOOLEAN /\ refused' \in BOOLEAN
  BY <1>1, <1>3, <1>5 DEF TypeInv, StateTyped
<1>7. phase' \in {"Read", "Respond", "closed"}
  BY <1>3, <1>5
<1>8. server' \in Encoders /\ EncoderFits(server') /\ delivered' \in Seq(Seq(Byte))
  <2>1. CASE r.ok /\ r.parser.m_complete
    <3>1. server' \in Encoders /\ EncoderFits(server')
      BY <1>4, <1>5, <2>1, NewEncoderType, WebSocketAssumption DEF OpCodeType_Text
    <3>2. delivered \in Seq(Seq(Byte)) /\ delivered' = Append(delivered, r.parser.m_payload)
      BY <1>5, <2>1 DEF TypeInv, StateTyped
    <3>3. delivered' \in Seq(Seq(Byte))
      BY <1>4, <3>2, AppendProperties
    <3> QED
      BY <3>1, <3>3
  <2>2. CASE ~(r.ok /\ r.parser.m_complete)
    BY <1>5, <2>2 DEF TypeInv, StateTyped
  <2> QED
    BY <2>1, <2>2
<1> QED
  BY <1>2, <1>3, <1>5, <1>6, <1>7, <1>8 DEF TypeInv, StateTyped

LEMMA ResetIs ==
  ASSUME NEW p \in Parsers
  PROVE  Reset(p) = [m_complete |-> FALSE, m_headerComplete |-> FALSE, m_fin |-> FALSE,
                     m_opCode |-> p.m_opCode, m_payloadLen |-> 0, m_offset |-> 0,
                     m_maskKey |-> p.m_maskKey, m_inputCache |-> <<>>, m_payload |-> <<>>]
<1> DEFINE none == <<>>
<1>1. Reset(p) = [[p EXCEPT !.m_headerComplete = FALSE, !.m_fin = FALSE, !.m_payloadLen = 0,
                            !.m_offset = 0, !.m_inputCache = none]
                  EXCEPT !.m_complete = FALSE, !.m_payload = none]
  BY DEF Reset, ResetCurrentFrame
<1> HIDE DEF none
<1>2. Reset(p) = [m_complete |-> FALSE, m_headerComplete |-> FALSE, m_fin |-> FALSE,
                  m_opCode |-> p.m_opCode, m_payloadLen |-> 0, m_offset |-> 0,
                  m_maskKey |-> p.m_maskKey, m_inputCache |-> none, m_payload |-> none]
  BY <1>1 DEF Parsers
<1> QED
  BY <1>2 DEF none

\* The server's encoder is not a client's.
ServerIsServer == ~server.m_isClient

LEMMA TypeRespond ==
  ASSUME TypeInv, ServerIsServer, RespondFrame \/ ResponseFails \/ RespondEnd
  PROVE  TypeInv'
<1>1. server \in Encoders /\ EncoderFits(server) /\ parser \in Parsers /\ ParserFits(parser)
  BY DEF TypeInv, StateTyped
<1>2. Encode(server, <<>>) \in Encoders /\ EncoderFits(Encode(server, <<>>))
  BY <1>1, EncodeType DEF ServerIsServer
<1>3. Reset(parser) \in Parsers /\ ParserFits(Reset(parser))
  <2>1. <<>> \in Seq(Byte) /\ Len(<<>>) = 0 /\ kMaxLength \in Nat
    BY WebSocketAssumption
  <2>2. Reset(parser) = [m_complete |-> FALSE, m_headerComplete |-> FALSE, m_fin |-> FALSE,
                         m_opCode |-> parser.m_opCode, m_payloadLen |-> 0, m_offset |-> 0,
                         m_maskKey |-> parser.m_maskKey, m_inputCache |-> <<>>,
                         m_payload |-> <<>>]
    BY <1>1, ResetIs
  <2>3. /\ parser.m_opCode \in 0 .. 15 /\ parser.m_maskKey \in Seq(Byte)
        /\ Len(parser.m_maskKey) \in {0, 4}
    BY <1>1 DEF Parsers, ParserFits
  <2>4. Reset(parser) \in Parsers
    BY <2>1, <2>2, <2>3 DEF Parsers
  <2> QED
    BY <2>1, <2>2, <2>3, <2>4 DEF ParserFits
<1>4. CASE RespondFrame
  BY <1>2, <1>4 DEF RespondFrame, TypeInv, StateTyped
<1>5. CASE ResponseFails
  BY <1>2, <1>5 DEF ResponseFails, TypeInv, StateTyped
<1>6. CASE RespondEnd
  BY <1>3, <1>6 DEF RespondEnd, TypeInv, StateTyped
<1> QED
  BY <1>4, <1>5, <1>6

LEMMA TypeNext == TypeInv /\ ServerIsServer /\ [Next]_vars => TypeInv' /\ ServerIsServer'
<1> SUFFICES ASSUME TypeInv, ServerIsServer, [Next]_vars
             PROVE  TypeInv' /\ ServerIsServer'
  OBVIOUS
<1>1. ASSUME NEW transfer \in Transfers, ClientBegins(transfer)
      PROVE  TypeInv' /\ ServerIsServer'
  BY <1>1, TypeClientBegins DEF ClientBegins, ServerIsServer
<1>2. ASSUME NEW key \in MaskKeys, ClientSendsFrame(key)
      PROVE  TypeInv' /\ ServerIsServer'
  BY <1>2, TypeClientSendsFrame DEF ClientSendsFrame, ServerIsServer
<1>3. ASSUME NEW n \in 1 .. Len(stream), ProcessWebSocketData(n)
      PROVE  TypeInv' /\ ServerIsServer'
  BY <1>3, TypeRead DEF ProcessWebSocketData, ServerIsServer, NewEncoder
<1>4. CASE RespondFrame \/ ResponseFails \/ RespondEnd
  <2>1. ~Encode(server, <<>>).m_isClient
    BY EncodeIs DEF TypeInv, StateTyped, Encoders, ServerIsServer
  <2> QED
    BY <1>4, <2>1, TypeRespond DEF RespondFrame, ResponseFails, RespondEnd, ServerIsServer
<1>5. CASE UNCHANGED vars
  BY <1>5 DEF vars, TypeInv, StateTyped, ServerIsServer
<1> QED
  BY <1>1, <1>2, <1>3, <1>4, <1>5 DEF Next, Sending, Reading, Responding, Readable

\* Whatever is sent and however it is read, even after reads that cross the end
\* of a frame and lose the rest of it, the parser is never beyond its input,
\* its payload are bytes within kMaxLength, and no encoder is beyond its data.
THEOREM WebSocketTyped == Spec => []TypeOK
<1>1. Init => TypeInv /\ ServerIsServer
  BY TypeInit DEF Init, ServerIsServer, NoEncoder, NewEncoder
<1>2. TypeInv => TypeOK
  BY DEF TypeInv, StateTyped, EncoderFits, ParserFits, Encoders, Parsers, TypeOK, Byte
<1> QED
  BY <1>1, <1>2, TypeNext, PTL DEF Spec

----------------------------------------------------------------------------
(* What a client writes.  A frame is described by the number of its        *)
(* message, the part of the message it carries (the bytes after from up to *)
(* to), its mask key, and at, the number of bytes written before it.       *)

\* Can a message of len bytes be sent in frames of size bytes?  Its last frame
\* gets the FIN bit only if it is shorter than the others, so len is no multiple
\* of size; and the length of no frame is 126 or above 65535, which Encode does
\* not write as the parser reads it.
MaxShort == 65535

Framable(len, size) ==
  \A q \in 0 .. len :
    LET rest == len - q * size
        n    == IF size > rest THEN rest ELSE size
    IN  rest # 0 /\ (rest > 0 => n # 126 /\ n <= MaxShort)

FrameRecords == [msg : Nat, from : Nat, to : Nat, at : Nat, key : Seq(Byte)]

SizeOf(f) == f.to - f.from

HeaderLen(n) == IF n > 126 THEN 8 ELSE 6

EndOf(f) == f.at + HeaderLen(SizeOf(f)) + SizeOf(f)

\* The bytes of frame f are in wire, all that was written.
Header(wire, f, msgs) ==
  LET n == SizeOf(f)
  IN  /\ wire[f.at + 1] = (IF f.to = Len(msgs[f.msg]) THEN 128 ELSE 0)
                          + (IF f.from = 0 THEN 2 ELSE 0)
      /\ wire[f.at + 2] = 128 + (IF n > 126 THEN 126 ELSE n)
      /\ n > 126 => wire[f.at + 3] = n \div 256 /\ wire[f.at + 4] = n % 256
      /\ \A i \in 1 .. 4 : wire[f.at + (HeaderLen(n) - 4) + i] = f.key[i]

Payload(wire, f, msgs) ==
  \A i \in 1 .. SizeOf(f) :
    wire[f.at + HeaderLen(SizeOf(f)) + i] =
      Xor(msgs[f.msg][f.from + i], f.key[((i - 1) % 4) + 1])

IsFrame(wire, f, msgs) ==
  /\ f.msg \in 1 .. Len(msgs) /\ f.from < f.to /\ f.to <= Len(msgs[f.msg])
  /\ Len(f.key) = 4 /\ SizeOf(f) # 126 /\ SizeOf(f) <= MaxShort
  /\ EndOf(f) <= Len(wire)
  /\ Header(wire, f, msgs) /\ Payload(wire, f, msgs)

\* out is the client's frame with the first n bytes of what is left to encode.
Spells(out, e, key, n) ==
  /\ Len(out) = HeaderLen(n) + n
  /\ out[1] = FinBit(e) + FrameOpCode(e)
  /\ out[2] = 128 + (IF n > 126 THEN 126 ELSE n)
  /\ n > 126 => out[3] = n \div 256 /\ out[4] = n % 256
  /\ \A i \in 1 .. 4 : out[(HeaderLen(n) - 4) + i] = key[i]
  /\ \A i \in 1 .. n : out[HeaderLen(n) + i] = Xor(e.m_data[i], key[((i - 1) % 4) + 1])

\* What Encode writes for a client, byte by byte.
LEMMA FrameOfClient ==
  ASSUME NEW e \in Encoders, EncoderFits(e), e.m_isClient,
         NEW key \in Seq(Byte), Len(key) = 4,
         NEW n \in Nat \ {0}, n = FrameBytes(e), n # 126, n <= MaxShort
  PROVE  Spells(Frame(e, key), e, key, n)
<1> DEFINE first  == <<FinBit(e) + FrameOpCode(e)>>
           second == LengthBytes(128, n)
           head   == first \o second
           data   == SubSeq(e.m_data, 1, n)
           masked == Masked(data, key)
           body   == key \o masked
           out    == head \o body
<1>1. Frame(e, key) = out
  BY DEF Frame, FrameBody, MaskBit
<1>2. first \in Seq(Byte) /\ Len(first) = 1 /\ first[1] = FinBit(e) + FrameOpCode(e)
  <2>1. FinBit(e) \in 0 .. 128
    BY DEF FinBit
  <2>2. FrameOpCode(e) \in 0 .. 2
    BY DEF Encoders, FrameOpCode, OpCodeType_Continue
  <2>3. \A a \in 0 .. 128, b \in 0 .. 2 : a + b \in Byte
    BY DEF Byte
  <2>4. FinBit(e) + FrameOpCode(e) \in Byte
    BY <2>1, <2>2, <2>3
  <2> QED
    BY <2>4
<1>3. /\ second \in Seq(Byte) /\ Len(second) = HeaderLen(n) - 5
      /\ second[1] = 128 + (IF n > 126 THEN 126 ELSE n)
      /\ n > 126 => second[2] = n \div 256 /\ second[3] = n % 256
  <2>1. second \in Seq(Byte)
    BY LengthBytesType
  <2>2. CASE n > 126
    <3>1. n <= 65535
      BY SMT DEF MaxShort
    <3>2. second = <<128 + 126, n \div 256, n % 256>>
      BY <2>2, <3>1, SMT DEF LengthBytes
    <3>3. /\ Len(second) = 3 /\ second[1] = 254
          /\ second[2] = n \div 256 /\ second[3] = n % 256
      BY <3>2
    <3>4. HeaderLen(n) = 8
      BY <2>2 DEF HeaderLen
    <3> QED
      BY <2>1, <2>2, <3>3, <3>4
  <2>3. CASE n <= 126
    <3>1. second = <<128 + n>>
      BY <2>3 DEF LengthBytes
    <3> QED
      BY <2>1, <2>3, <3>1 DEF HeaderLen
  <2> QED
    BY <2>2, <2>3
<1>4. data \in Seq(Byte) /\ Len(data) = n /\ \A i \in 1 .. n : data[i] = e.m_data[i]
  <2>1. e.m_data \in Seq(Byte) /\ n \in 0 .. Len(e.m_data)
    BY FrameBytesFit DEF Encoders, EncoderFits
  <2> QED
    BY <2>1
<1> HIDE DEF first, second, data
<1>5. /\ head \in Seq(Byte) /\ Len(head) = HeaderLen(n) - 4
      /\ head[1] = first[1]
      /\ \A i \in 1 .. Len(second) : head[1 + i] = second[i]
  <2>1. /\ head \in Seq(Byte) /\ Len(head) = Len(first) + Len(second)
        /\ \A i \in 1 .. Len(first) : head[i] = first[i]
        /\ \A i \in 1 .. Len(second) : head[Len(first) + i] = second[i]
    <3>1. first \in Seq(Byte) /\ second \in Seq(Byte)
      BY <1>2, <1>3
    <3>2. head \in Seq(Byte) /\ Len(head) = Len(first) + Len(second)
      BY <3>1, ConcatSeq, Zenon
    <3>3. \A i \in 1 .. Len(first) : head[i] = first[i]
      BY <3>1, ConcatFirst, ZenonT(60)
    <3>4. \A i \in 1 .. Len(second) : head[Len(first) + i] = second[i]
      BY <3>1, ConcatSecond, ZenonT(60)
    <3> QED
      BY <3>2, <3>3, <3>4
  <2> HIDE DEF head
  <2>2. HeaderLen(n) \in {6, 8}
    BY DEF HeaderLen
  <2> QED
    BY <1>2, <1>3, <2>1, <2>2
<1>6. /\ body \in Seq(Byte) /\ Len(body) = 4 + n
      /\ \A i \in 1 .. 4 : body[i] = key[i]
      /\ \A i \in 1 .. n : body[4 + i] = Xor(e.m_data[i], key[((i - 1) % 4) + 1])
  <2>1. /\ masked \in Seq(Byte) /\ Len(masked) = Len(data)
        /\ \A i \in 1 .. Len(data) : masked[i] = Xor(data[i], key[((i - 1) % 4) + 1])
    BY <1>4, MaskedIsBytes
  <2> HIDE DEF masked
  <2>2. key \in Seq(Byte) /\ masked \in Seq(Byte)
    BY <2>1
  <2>3. /\ body \in Seq(Byte) /\ Len(body) = Len(key) + Len(masked)
        /\ \A i \in 1 .. Len(key) : body[i] = key[i]
        /\ \A i \in 1 .. Len(masked) : body[Len(key) + i] = masked[i]
    <3>1. body \in Seq(Byte) /\ Len(body) = Len(key) + Len(masked)
      BY <2>2, ConcatSeq, Zenon
    <3>2. \A i \in 1 .. Len(key) : body[i] = key[i]
      BY <2>2, ConcatFirst, ZenonT(60)
    <3>3. \A i \in 1 .. Len(masked) : body[Len(key) + i] = masked[i]
      BY <2>2, ConcatSecond, ZenonT(60)
    <3> QED
      BY <3>1, <3>2, <3>3
  <2> HIDE DEF body
  <2> QED
    BY <1>4, <2>1, <2>3
<1> HIDE DEF head, body
<1>7. /\ Len(out) = Len(head) + Len(body)
      /\ \A i \in 1 .. Len(head) : out[i] = head[i]
      /\ \A i \in 1 .. Len(body) : out[Len(head) + i] = body[i]
  <2>1. head \in Seq(Byte) /\ body \in Seq(Byte)
    BY <1>5, <1>6
  <2> QED
    BY <2>1, ConcatBytes
<1> HIDE DEF out
<1>8. HeaderLen(n) \in {6, 8} /\ (n > 126 => HeaderLen(n) = 8)
  BY DEF HeaderLen
<1>9. Len(out) = HeaderLen(n) + n
  BY <1>5, <1>6, <1>7, <1>8, SMTT(40)
<1>10. out[1] = FinBit(e) + FrameOpCode(e)
  BY <1>2, <1>5, <1>7, <1>8
<1>11. out[2] = 128 + (IF n > 126 THEN 126 ELSE n)
  <2>1. out[2] = head[1 + 1] /\ head[1 + 1] = second[1]
    BY <1>3, <1>5, <1>7, <1>8, SMTT(40)
  <2> QED
    BY <1>3, <2>1
<1>12. n > 126 => out[3] = n \div 256 /\ out[4] = n % 256
  <2> SUFFICES ASSUME n > 126 PROVE out[3] = n \div 256 /\ out[4] = n % 256
    OBVIOUS
  <2>1. /\ out[3] = head[1 + 2] /\ head[1 + 2] = second[2]
        /\ out[4] = head[1 + 3] /\ head[1 + 3] = second[3]
    BY <1>3, <1>5, <1>7, <1>8
  <2> QED
    BY <1>3, <2>1
<1>13. \A i \in 1 .. 4 : out[(HeaderLen(n) - 4) + i] = key[i]
  BY <1>5, <1>6, <1>7, SMTT(40)
<1>14. \A i \in 1 .. n : out[HeaderLen(n) + i] = Xor(e.m_data[i], key[((i - 1) % 4) + 1])
  <2> SUFFICES ASSUME NEW i \in 1 .. n
               PROVE  out[HeaderLen(n) + i] = Xor(e.m_data[i], key[((i - 1) % 4) + 1])
    OBVIOUS
  <2>1. 4 + i \in 1 .. Len(body) /\ Len(head) + (4 + i) = HeaderLen(n) + i
    BY <1>5, <1>6, <1>8
  <2> QED
    BY <1>6, <1>7, <2>1, SMTT(40)
<1>15. Spells(out, e, key, n)
  BY <1>9, <1>10, <1>11, <1>12, <1>13, <1>14 DEF Spells
<1> QED
  BY <1>1, <1>15

----------------------------------------------------------------------------
(* What the parser makes of a frame, or of the beginning of one.           *)

\* bytes are the first bytes of frame f.
Begins(bytes, wire, f) ==
  /\ bytes \in Seq(Byte) /\ Len(bytes) <= HeaderLen(SizeOf(f)) + SizeOf(f)
  /\ \A i \in 1 .. Len(bytes) : bytes[i] = wire[f.at + i]

\* The parser has taken the header of frame f.
HeaderTaken(p, f, msgs) ==
  /\ p.m_offset = HeaderLen(SizeOf(f)) /\ p.m_payloadLen = SizeOf(f)
  /\ p.m_fin = (f.to = Len(msgs[f.msg]))
  /\ p.m_maskKey = f.key

\* m_payload is the part of the message before position n.
HasPart(p, msg, n, msgs) ==
  Len(p.m_payload) = n /\ \A i \in 1 .. n : p.m_payload[i] = msgs[msg][i]

\* The marker of a 16-bit length is found where Encode has put it, ...
LEMMA HeaderOfFrame ==
  ASSUME NEW wire, NEW f \in FrameRecords, NEW msgs \in Seq(Seq(Byte)), IsFrame(wire, f, msgs),
         NEW bytes, Begins(bytes, wire, f), Len(bytes) >= 2
  PROVE  /\ HeaderExt(bytes) = HeaderLen(SizeOf(f)) - 6
         /\ HeaderMask(bytes) = 4
         /\ HeaderSize(bytes) = HeaderLen(SizeOf(f))
<1> DEFINE n == SizeOf(f)
<1>1. n \in Nat \ {0} /\ n # 126
  BY DEF FrameRecords, IsFrame, SizeOf
<1>2. bytes[2] = 128 + (IF n > 126 THEN 126 ELSE n)
  <2>1. bytes[2] = wire[f.at + 2]
    BY DEF Begins
  <2> QED
    BY <2>1 DEF IsFrame, Header
<1> HIDE DEF n
<1>3. CASE n > 126
  <2>1. bytes[2] = 254
    BY <1>2, <1>3
  <2>2. HeaderExt(bytes) = 2 /\ HeaderMask(bytes) = 4
    BY <2>1 DEF HeaderExt, HeaderMask
  <2> QED
    BY <1>3, <2>2 DEF HeaderSize, HeaderLen, n
<1>4. CASE n <= 126
  <2>1. n \in 1 .. 125
    BY <1>1, <1>4
  <2>2. bytes[2] = 128 + n /\ n # 127
    <3>1. (IF n > 126 THEN 126 ELSE n) = n /\ n # 127
      BY <1>1, <2>1
    <3> QED
      BY <1>2, <3>1
  <2>3. bytes[2] % 128 = n /\ (bytes[2] \div 128) % 2 = 1
    BY <2>1, <2>2, SevenBits
  <2>4. HeaderExt(bytes) = 0 /\ HeaderMask(bytes) = 4
    BY <1>1, <2>2, <2>3 DEF HeaderExt, HeaderMask
  <2> QED
    BY <1>1, <1>4, <2>4 DEF HeaderSize, HeaderLen, n
<1> QED
  BY <1>1, <1>3, <1>4 DEF n

\* ... and so are the length, the FIN bit and the mask key.
LEMMA FieldsOfFrame ==
  ASSUME NEW wire, NEW f \in FrameRecords, NEW msgs \in Seq(Seq(Byte)), IsFrame(wire, f, msgs),
         NEW bytes, Begins(bytes, wire, f), Len(bytes) >= HeaderLen(SizeOf(f))
  PROVE  /\ HeaderLength(bytes) = SizeOf(f)
         /\ ((bytes[1] \div 128) % 2 = 1) <=> (f.to = Len(msgs[f.msg]))
         /\ SubSeq(bytes, 3 + HeaderExt(bytes), HeaderSize(bytes)) = f.key
<1> DEFINE n == SizeOf(f)
<1>1. n \in Nat \ {0} /\ n # 126 /\ n <= MaxShort /\ f.at \in Nat
  BY DEF FrameRecords, IsFrame, SizeOf
<1>2. /\ HeaderLen(n) \in {6, 8} /\ bytes \in Seq(Byte) /\ Len(bytes) \in Nat
      /\ Len(bytes) >= HeaderLen(n)
  BY DEF HeaderLen, Begins
<1>3. HeaderExt(bytes) = HeaderLen(n) - 6 /\ HeaderSize(bytes) = HeaderLen(n)
  BY <1>2, HeaderOfFrame
<1>4. Header(wire, f, msgs)
  BY DEF IsFrame
<1> HIDE DEF n
<1>5. HeaderLength(bytes) = n
  <2>1. bytes[2] = 128 + (IF n > 126 THEN 126 ELSE n)
    <3>1. bytes[2] = wire[f.at + 2]
      BY <1>2 DEF Begins
    <3> QED
      BY <1>4, <3>1 DEF Header, n
  <2>2. CASE n <= 126
    <3>1. HeaderExt(bytes) = 0
      BY <1>1, <1>3, <2>2 DEF HeaderLen
    <3>2. n \in 1 .. 125
      BY <1>1, <2>2
    <3>3. bytes[2] = 128 + n
      <4>1. (IF n > 126 THEN 126 ELSE n) = n
        BY <1>1, <3>2
      <4> QED
        BY <2>1, <4>1
    <3>4. bytes[2] % 128 = n
      BY <3>2, <3>3, SevenBits
    <3> QED
      BY <3>1, <3>4 DEF HeaderLength
  <2>3. CASE n > 126
    <3>1. HeaderExt(bytes) = 2 /\ HeaderLen(n) = 8
      BY <1>1, <1>3, <2>3 DEF HeaderLen
    <3>2. bytes[3] = wire[f.at + 3] /\ bytes[4] = wire[f.at + 4]
      BY <1>2, <3>1 DEF Begins
    <3>3. bytes[3] = n \div 256 /\ bytes[4] = n % 256
      BY <1>4, <2>3, <3>2 DEF Header, n
    <3>4. bytes[3] * 256 + bytes[4] = n
      BY <1>1, <3>3, SixteenBits
    <3>5. HeaderLength(bytes) = bytes[3] * 256 + bytes[4]
      BY <3>1 DEF HeaderLength, ExtendedLength
    <3> QED
      BY <3>4, <3>5
  <2> QED
    BY <1>1, <2>2, <2>3
<1>6. ((bytes[1] \div 128) % 2 = 1) <=> (f.to = Len(msgs[f.msg]))
  <2>1. bytes[1] = (IF f.to = Len(msgs[f.msg]) THEN 128 ELSE 0) + (IF f.from = 0 THEN 2 ELSE 0)
    <3>1. bytes[1] = wire[f.at + 1]
      BY <1>2 DEF Begins
    <3> QED
      BY <1>4, <3>1 DEF Header
  <2>2. CASE f.to = Len(msgs[f.msg])
    <3>1. bytes[1] = 128 \/ bytes[1] = 130
      BY <2>1, <2>2
    <3> QED
      BY <2>2, <3>1
  <2>3. CASE f.to # Len(msgs[f.msg])
    <3>1. bytes[1] = 0 \/ bytes[1] = 2
      BY <2>1, <2>3
    <3> QED
      BY <2>3, <3>1
  <2> QED
    BY <2>2, <2>3
<1>7. SubSeq(bytes, 3 + HeaderExt(bytes), HeaderSize(bytes)) = f.key
  <2> DEFINE m == HeaderLen(n) - 3
             key == SubSeq(bytes, m, m + 3)
  <2>1. 3 + HeaderExt(bytes) = m /\ HeaderSize(bytes) = m + 3 /\ m \in {3, 5}
    BY <1>2, <1>3
  <2>2. m + 3 = HeaderLen(n)
    BY <1>2
  <2> HIDE DEF m
  <2>8. m \in 1 .. Len(bytes) + 1 /\ m + 3 \in m - 1 .. Len(bytes)
    BY <1>2, <2>1, <2>2
  <2>3. /\ key \in Seq(Byte) /\ Len(key) = (m + 3) - m + 1
        /\ \A i \in 1 .. (m + 3) - m + 1 : key[i] = bytes[m + i - 1]
    BY <1>2, <2>8, SubSeqBytes
  <2> HIDE DEF key
  <2>4. Len(key) = 4 /\ \A i \in 1 .. 4 : key[i] = bytes[m + i - 1]
    BY <2>1, <2>3
  <2>5. f.key \in Seq(Byte) /\ Len(f.key) = 4
    BY DEF FrameRecords, IsFrame
  <2>6. ASSUME NEW i \in 1 .. 4 PROVE key[i] = f.key[i]
    <3>1. m + i - 1 \in 1 .. Len(bytes)
      BY <1>2, <2>1, <2>8
    <3>2. bytes[m + i - 1] = wire[f.at + (m + i - 1)]
      BY <3>1 DEF Begins
    <3>3. f.at + (m + i - 1) = f.at + (HeaderLen(n) - 4) + i
      BY <1>1, <1>2, SMTT(40) DEF m
    <3>4. wire[f.at + (HeaderLen(n) - 4) + i] = f.key[i]
      BY <1>4 DEF Header, n
    <3> QED
      BY <2>4, <3>2, <3>3, <3>4
  <2>7. key = f.key
    BY <2>3, <2>4, <2>5, <2>6, SeqEqual
  <2> QED
    BY <2>1, <2>7 DEF key
<1> QED
  BY <1>5, <1>6, <1>7 DEF n

\* The parser has taken all of frame f.
FrameTaken(p, f, msgs) ==
  /\ p.m_inputCache = <<>> /\ p.m_headerComplete = FALSE
  /\ p.m_complete = (f.to = Len(msgs[f.msg]))
  /\ HasPart(p, f.msg, f.to, msgs)

\* The parser has taken some of frame f.
PartTaken(p, f, msgs) ==
  /\ p.m_complete = FALSE
  /\ p.m_headerComplete => HeaderTaken(p, f, msgs)
  /\ HasPart(p, f.msg, f.from, msgs)

\* Unmasked and appended, the payload of a frame continues the message.
LEMMA PayloadOfFrame ==
  ASSUME NEW wire, NEW f \in FrameRecords, NEW msgs \in Seq(Seq(Byte)), IsFrame(wire, f, msgs),
         NEW p \in Parsers, Begins(p.m_inputCache, wire, f),
         HeaderTaken(p, f, msgs), HasPart(p, f.msg, f.from, msgs),
         Len(p.m_inputCache) = HeaderLen(SizeOf(f)) + SizeOf(f)
  PROVE  LET data == SubSeq(p.m_inputCache, p.m_offset + 1, p.m_offset + p.m_payloadLen)
             taken == p.m_payload \o Masked(data, p.m_maskKey)
         IN  Len(taken) = f.to /\ \A i \in 1 .. f.to : taken[i] = msgs[f.msg][i]
<1> DEFINE n      == SizeOf(f)
           h      == HeaderLen(n)
           bytes  == p.m_inputCache
           msg    == msgs[f.msg]
           data   == SubSeq(bytes, h + 1, h + n)
           masked == Masked(data, f.key)
           taken  == p.m_payload \o masked
<1>1. /\ n \in Nat \ {0} /\ f.at \in Nat /\ f.from \in Nat /\ f.to = f.from + n
      /\ f.key \in Seq(Byte) /\ Len(f.key) = 4
  <2>1. /\ f.at \in Nat /\ f.from \in Nat /\ f.to \in Nat /\ f.from < f.to
        /\ f.key \in Seq(Byte) /\ Len(f.key) = 4
    BY DEF FrameRecords, IsFrame
  <2>2. n = f.to - f.from
    BY DEF SizeOf
  <2>3. n \in Nat \ {0} /\ f.to = f.from + n
    BY <2>1, <2>2
  <2> QED
    BY <2>1, <2>3
<1>2. /\ p.m_offset = h /\ p.m_payloadLen = n /\ p.m_maskKey = f.key
      /\ Len(p.m_payload) = f.from /\ \A i \in 1 .. f.from : p.m_payload[i] = msg[i]
  BY DEF HeaderTaken, HasPart
<1>3. h \in {6, 8}
  BY DEF HeaderLen
<1>4. /\ bytes \in Seq(Byte) /\ Len(bytes) = h + n
      /\ \A i \in 1 .. Len(bytes) : bytes[i] = wire[f.at + i]
  BY DEF Begins
<1>5. p.m_payload \in Seq(Byte)
  BY DEF Parsers
<1>6. msg \in Seq(Byte) /\ f.to <= Len(msg) /\ Len(msg) \in Nat
  BY DEF IsFrame
<1>7. \A i \in 1 .. n : wire[f.at + h + i] = Xor(msg[f.from + i], f.key[((i - 1) % 4) + 1])
  BY DEF IsFrame, Payload
<1> HIDE DEF n, h, bytes, msg
<1>8. /\ data \in Seq(Byte) /\ Len(data) = n
      /\ \A i \in 1 .. n : data[i] = bytes[h + i]
  <2>1. h + 1 \in 1 .. Len(bytes) + 1 /\ h + n \in (h + 1) - 1 .. Len(bytes)
    BY <1>1, <1>3, <1>4
  <2>2. /\ data \in Seq(Byte) /\ Len(data) = (h + n) - (h + 1) + 1
        /\ \A i \in 1 .. (h + n) - (h + 1) + 1 : data[i] = bytes[(h + 1) + i - 1]
    BY <1>4, <2>1, SubSeqBytes
  <2> HIDE DEF data
  <2>3. (h + n) - (h + 1) + 1 = n /\ \A i \in 1 .. n : (h + 1) + i - 1 = h + i
    BY <1>1, <1>3
  <2> QED
    BY <2>2, <2>3
<1> HIDE DEF data
<1>9. /\ masked \in Seq(Byte) /\ Len(masked) = n
      /\ \A i \in 1 .. n : masked[i] = Xor(data[i], f.key[((i - 1) % 4) + 1])
  BY <1>1, <1>8, MaskedIsBytes
<1> HIDE DEF masked
<1>10. ASSUME NEW i \in 1 .. n PROVE masked[i] = msg[f.from + i]
  <2> DEFINE k == f.key[((i - 1) % 4) + 1]
             b == msg[f.from + i]
  <2>1. k \in Byte
    <3>1. ((i - 1) % 4) + 1 \in 1 .. Len(f.key)
      BY <1>1
    <3> QED
      BY <1>1, <3>1, ElementOfSeq
  <2>2. b \in Byte
    <3>1. f.from + i \in 1 .. Len(msg)
      BY <1>1, <1>6
    <3> QED
      BY <1>6, <3>1, ElementOfSeq
  <2>3. data[i] = Xor(b, k)
    <3>1. f.at + (h + i) = f.at + h + i
      <4>1. \A x, y, z \in Int : x + (y + z) = x + y + z
        OBVIOUS
      <4>2. f.at \in Int /\ h \in Int /\ i \in Int
        BY <1>1, <1>3
      <4> QED
        BY <4>1, <4>2
    <3>2. bytes[h + i] = wire[f.at + h + i]
      <4>1. h + i \in 1 .. h + n
        BY <1>1, <1>3
      <4>2. bytes[h + i] = wire[f.at + (h + i)]
        BY <1>4, <4>1
      <4> QED
        BY <3>1, <4>2
    <3>3. wire[f.at + h + i] = Xor(b, k)
      BY <1>7
    <3>4. data[i] = bytes[h + i]
      BY <1>8
    <3> QED
      BY <3>2, <3>3, <3>4
  <2>4. masked[i] = Xor(data[i], k)
    BY <1>9
  <2> HIDE DEF k, b
  <2>5. masked[i] = b
    BY <2>1, <2>2, <2>3, <2>4, XorTwice
  <2> QED
    BY <2>5 DEF b
<1>11. /\ Len(taken) = Len(p.m_payload) + Len(masked)
       /\ \A i \in 1 .. Len(p.m_payload) : taken[i] = p.m_payload[i]
       /\ \A i \in 1 .. Len(masked) : taken[Len(p.m_payload) + i] = masked[i]
  <2>1. p.m_payload \in Seq(Byte) /\ masked \in Seq(Byte)
    BY <1>5, <1>9
  <2>2. Len(taken) = Len(p.m_payload) + Len(masked)
    BY <2>1, ConcatBytes
  <2>3. \A i \in 1 .. Len(p.m_payload) : taken[i] = p.m_payload[i]
    BY <2>1, ConcatBytes
  <2>4. \A i \in 1 .. Len(masked) : taken[Len(p.m_payload) + i] = masked[i]
    BY <2>1, ConcatBytes
  <2> QED
    BY <2>2, <2>3, <2>4
<1> HIDE DEF taken
<1>12. Len(taken) = f.to
  BY <1>1, <1>2, <1>9, <1>11
<1>13. ASSUME NEW i \in 1 .. f.to PROVE taken[i] = msg[i]
  <2>1. CASE i <= f.from
    <3>1. i \in 1 .. f.from
      BY <1>1, <2>1
    <3> QED
      BY <1>2, <1>11, <3>1
  <2>2. CASE i > f.from
    <3> DEFINE j == i - f.from
    <3>1. j \in 1 .. n /\ i = f.from + j
      BY <1>1, <2>2
    <3> HIDE DEF j
    <3>2. taken[f.from + j] = masked[j]
      BY <1>2, <1>9, <1>11, <3>1
    <3> QED
      BY <1>10, <3>1, <3>2
  <2> QED
    BY <1>1, <2>1, <2>2
<1> QED
  BY <1>2, <1>12, <1>13 DEF taken, masked, data, msg, bytes

\* ParseHeader on the beginning of a frame.
LEMMA ParseHeaderOfFrame ==
  ASSUME NEW wire, NEW f \in FrameRecords, NEW msgs \in Seq(Seq(Byte)), IsFrame(wire, f, msgs),
         NEW p \in Parsers, Begins(p.m_inputCache, wire, f), ~p.m_headerComplete
  PROVE  /\ ParseHeader(p).m_headerComplete => HeaderTaken(ParseHeader(p), f, msgs)
         /\ ParseHeader(p).m_headerComplete <=> Len(p.m_inputCache) >= HeaderLen(SizeOf(f))
<1> DEFINE bytes == p.m_inputCache
           h == HeaderLen(SizeOf(f))
<1>1. bytes \in Seq(Byte) /\ Len(bytes) \in Nat /\ h \in {6, 8}
  BY DEF Begins, HeaderLen
<1>2. CASE Len(bytes) < h
  <2>1. Len(bytes) < 2 \/ Len(bytes) < HeaderSize(bytes)
    <3>1. CASE Len(bytes) >= 2
      <4>1. HeaderSize(bytes) = h
        BY <3>1, HeaderOfFrame
      <4> QED
        BY <1>2, <4>1
    <3> QED
      BY <1>1, <3>1
  <2>2. ParseHeader(p) = [p EXCEPT !.m_offset = 0]
    BY <2>1, ParseHeaderIs
  <2>3. ~ParseHeader(p).m_headerComplete
    BY <2>2 DEF Parsers
  <2>4. ~(Len(bytes) >= h)
    BY <1>1, <1>2
  <2> QED
    BY <2>3, <2>4
<1>3. CASE Len(bytes) >= h
  <2> DEFINE key == SubSeq(bytes, 3 + HeaderExt(bytes), HeaderSize(bytes))
             fin == (bytes[1] \div 128) % 2 = 1
  <2>1. Len(bytes) >= 2
    BY <1>1, <1>3
  <2>2. HeaderSize(bytes) = h
    BY <2>1, HeaderOfFrame
  <2>3. HeaderLength(bytes) = SizeOf(f) /\ (fin <=> (f.to = Len(msgs[f.msg]))) /\ key = f.key
    <3>1. HeaderLength(bytes) = SizeOf(f)
      BY <1>3, FieldsOfFrame
    <3>2. fin <=> (f.to = Len(msgs[f.msg]))
      BY <1>3, FieldsOfFrame, ZenonT(60)
    <3>3. key = f.key
      BY <1>3, FieldsOfFrame, ZenonT(60)
    <3> QED
      BY <3>1, <3>2, <3>3
  <2>4. ~(Len(bytes) < 2 \/ Len(bytes) < HeaderSize(bytes))
    BY <1>1, <1>3, <2>1, <2>2
  <2>5. ParseHeader(p) = [p EXCEPT !.m_headerComplete = TRUE, !.m_opCode = bytes[1] % 16,
                                   !.m_fin = fin, !.m_payloadLen = HeaderLength(bytes),
                                   !.m_maskKey = key, !.m_offset = HeaderSize(bytes)]
    BY <2>4, ParseHeaderIs, ZenonT(60)
  <2> HIDE DEF key, fin
  <2>6. /\ ParseHeader(p).m_headerComplete = TRUE /\ ParseHeader(p).m_fin = fin
        /\ ParseHeader(p).m_payloadLen = HeaderLength(bytes)
        /\ ParseHeader(p).m_maskKey = key /\ ParseHeader(p).m_offset = HeaderSize(bytes)
    BY <2>5 DEF Parsers
  <2>7. fin = (f.to = Len(msgs[f.msg]))
    BY <2>3 DEF fin
  <2>8. HeaderTaken(ParseHeader(p), f, msgs)
    BY <2>2, <2>3, <2>6, <2>7 DEF HeaderTaken
  <2> QED
    BY <1>3, <2>6, <2>8
<1> QED
  BY <1>1, <1>2, <1>3

\* ProcessPayload with enough bytes and without.
LEMMA ProcessPayloadIs ==
  ASSUME NEW p \in Parsers
  PROVE  LET data == SubSeq(p.m_inputCache, p.m_offset + 1, p.m_offset + p.m_payloadLen)
             q == ProcessPayload(p)
         IN  IF HaveBytes(p, p.m_payloadLen)
             THEN /\ q.m_payload = p.m_payload \o Masked(data, p.m_maskKey)
                  /\ q.m_complete = p.m_fin /\ q.m_headerComplete = FALSE
                  /\ q.m_inputCache = <<>>
             ELSE q = p
<1>1. CASE ~HaveBytes(p, p.m_payloadLen)
  BY <1>1 DEF ProcessPayload
<1>2. CASE HaveBytes(p, p.m_payloadLen)
  <2> DEFINE data == SubSeq(p.m_inputCache, p.m_offset + 1, p.m_offset + p.m_payloadLen)
             taken == p.m_payload \o Masked(data, p.m_maskKey)
             none == <<>>
  <2>1. ProcessPayload(p) = [[p EXCEPT !.m_payload = taken, !.m_offset = @ + p.m_payloadLen,
                                       !.m_complete = p.m_fin]
                              EXCEPT !.m_headerComplete = FALSE, !.m_fin = FALSE,
                                     !.m_payloadLen = 0, !.m_offset = 0, !.m_inputCache = none]
    BY <1>2 DEF ProcessPayload, ResetCurrentFrame
  <2> HIDE DEF taken, none
  <2>2. /\ ProcessPayload(p).m_payload = taken /\ ProcessPayload(p).m_complete = p.m_fin
        /\ ProcessPayload(p).m_headerComplete = FALSE /\ ProcessPayload(p).m_inputCache = none
    BY <2>1 DEF Parsers
  <2> QED
    BY <1>2, <2>2 DEF taken, none
<1> QED
  BY <1>1, <1>2

\* A read that does not go beyond frame f: the parser has then taken all of the
\* frame or a part of it, unless it refuses it.
LEMMA ParseOfFrame ==
  ASSUME NEW wire, NEW f \in FrameRecords, NEW msgs \in Seq(Seq(Byte)), IsFrame(wire, f, msgs),
         NEW p \in Parsers, ParserFits(p), NEW data \in Seq(Byte), PartTaken(p, f, msgs),
         NEW bytes, bytes = p.m_inputCache \o data, Begins(bytes, wire, f),
         Parse(p, data).ok
  PROVE  LET q == Parse(p, data).parser
         IN  IF Len(bytes) = HeaderLen(SizeOf(f)) + SizeOf(f)
             THEN FrameTaken(q, f, msgs)
             ELSE q.m_inputCache = bytes /\ PartTaken(q, f, msgs)
<1> DEFINE appended == [p EXCEPT !.m_inputCache = bytes]
           q == IF p.m_headerComplete THEN appended ELSE ParseHeader(appended)
           h == HeaderLen(SizeOf(f))
           n == SizeOf(f)
<1>1. n \in Nat \ {0} /\ h \in {6, 8} /\ Len(bytes) \in Nat /\ Len(bytes) <= h + n
  <2>1. n \in Nat \ {0}
    BY SMTT(40) DEF FrameRecords, IsFrame, SizeOf
  <2>2. h \in {6, 8}
    BY DEF HeaderLen
  <2>3. bytes \in Seq(Byte) /\ Len(bytes) <= h + n
    BY DEF Begins
  <2> QED
    BY <2>1, <2>2, <2>3
<1>2. /\ appended \in Parsers
      /\ appended.m_inputCache = bytes /\ appended.m_payload = p.m_payload
      /\ appended.m_headerComplete = p.m_headerComplete /\ appended.m_complete = p.m_complete
      /\ appended.m_offset = p.m_offset /\ appended.m_payloadLen = p.m_payloadLen
      /\ appended.m_fin = p.m_fin /\ appended.m_maskKey = p.m_maskKey
  <2>1. bytes \in Seq(Byte)
    BY DEF Begins
  <2> QED
    BY <2>1 DEF Parsers
<1>3. ParserFits(appended)
  <2>1. p.m_inputCache \in Seq(Byte) /\ p.m_offset \in Nat /\ p.m_offset <= Len(p.m_inputCache)
    BY DEF Parsers, ParserFits
  <2>2. Len(bytes) = Len(p.m_inputCache) + Len(data)
    BY <2>1, ConcatBytes
  <2>3. p.m_offset <= Len(bytes)
    BY <2>1, <2>2
  <2> QED
    BY <1>2, <2>3 DEF ParserFits
<1> HIDE DEF appended
<1>4. PartTaken(appended, f, msgs)
  BY <1>2 DEF PartTaken, HeaderTaken, HasPart
<1>5. /\ q \in Parsers /\ q.m_inputCache = bytes /\ q.m_payload = p.m_payload
      /\ q.m_complete = p.m_complete
  BY <1>2, <1>3, ParseHeaderType
<1>6. /\ q.m_headerComplete => HeaderTaken(q, f, msgs)
      /\ ~q.m_headerComplete => Len(bytes) < h
  <2>1. CASE p.m_headerComplete
    BY <1>2, <1>4, <2>1 DEF PartTaken
  <2>2. CASE ~p.m_headerComplete
    <3>1. q = ParseHeader(appended) /\ ~appended.m_headerComplete
      BY <1>2, <2>2
    <3>2. Begins(appended.m_inputCache, wire, f)
      BY <1>2
    <3>3. /\ q.m_headerComplete => HeaderTaken(q, f, msgs)
          /\ q.m_headerComplete <=> Len(bytes) >= h
      BY <1>2, <3>1, <3>2, ParseHeaderOfFrame
    <3> HIDE DEF q
    <3> QED
      BY <1>1, <3>3
  <2> QED
    BY <2>1, <2>2
<1>7. PartTaken(q, f, msgs)
  BY <1>5, <1>6 DEF PartTaken, HasPart
<1> HIDE DEF q
<1>8. Parse(p, data) = CASE ~q.m_headerComplete -> [parser |-> q, ok |-> TRUE]
        [] q.m_headerComplete /\ ~IsValidFrame(q) -> [parser |-> q, ok |-> FALSE]
        [] OTHER -> [parser |-> ProcessPayload(q), ok |-> TRUE]
  BY DEF Parse, q, appended
<1> HIDE DEF n, h
<1>9. CASE ~q.m_headerComplete
  <2>1. Parse(p, data).parser = q
    BY <1>8, <1>9
  <2>2. Len(bytes) # h + n
    BY <1>1, <1>6, <1>9
  <2> QED
    BY <1>5, <1>7, <2>1, <2>2 DEF h, n
<1>10. CASE q.m_headerComplete
  <2>1. Parse(p, data).parser = ProcessPayload(q)
    <3>1. CASE ~IsValidFrame(q)
      <4>1. Parse(p, data) = [parser |-> q, ok |-> FALSE]
        BY <1>8, <1>10, <3>1
      <4> QED
        BY <4>1
    <3>2. CASE IsValidFrame(q)
      <4>1. Parse(p, data) = [parser |-> ProcessPayload(q), ok |-> TRUE]
        BY <1>8, <1>10, <3>2
      <4> QED
        BY <4>1
    <3> QED
      BY <3>1, <3>2
  <2>2. /\ HeaderTaken(q, f, msgs) /\ q.m_offset = h /\ q.m_payloadLen = n
        /\ q.m_fin = (f.to = Len(msgs[f.msg]))
    BY <1>6, <1>10 DEF HeaderTaken, h, n
  <2>3. HaveBytes(q, q.m_payloadLen) <=> Len(bytes) = h + n
    <3>1. HaveBytes(q, q.m_payloadLen) <=> Len(bytes) - h >= n
      BY <1>5, <2>2 DEF HaveBytes
    <3> QED
      BY <1>1, <3>1
  <2>4. CASE Len(bytes) # h + n
    <3>1. ProcessPayload(q) = q
      BY <1>5, <2>3, <2>4, ProcessPayloadIs
    <3> QED
      BY <1>5, <1>7, <2>1, <2>4, <3>1 DEF h, n
  <2>5. CASE Len(bytes) = h + n
    <3> DEFINE part == SubSeq(q.m_inputCache, q.m_offset + 1, q.m_offset + q.m_payloadLen)
               taken == q.m_payload \o Masked(part, q.m_maskKey)
    <3>1. /\ ProcessPayload(q).m_payload = taken /\ ProcessPayload(q).m_complete = q.m_fin
          /\ ProcessPayload(q).m_headerComplete = FALSE
          /\ ProcessPayload(q).m_inputCache = <<>>
      BY <1>5, <2>3, <2>5, ProcessPayloadIs
    <3>2. Len(taken) = f.to /\ \A i \in 1 .. f.to : taken[i] = msgs[f.msg][i]
      <4>1. Begins(q.m_inputCache, wire, f) /\ HasPart(q, f.msg, f.from, msgs)
        BY <1>5, <1>7 DEF PartTaken
      <4>2. Len(q.m_inputCache) = HeaderLen(SizeOf(f)) + SizeOf(f)
        BY <1>5, <2>5 DEF h, n
      <4> QED
        BY <1>5, <2>2, <4>1, <4>2, PayloadOfFrame
    <3> HIDE DEF taken
    <3>3. FrameTaken(ProcessPayload(q), f, msgs)
      BY <2>2, <3>1, <3>2 DEF FrameTaken, HasPart
    <3> QED
      BY <2>1, <2>5, <3>3 DEF h, n
  <2> QED
    BY <2>4, <2>5
<1> QED
  BY <1>9, <1>10

----------------------------------------------------------------------------
(* The invariant.                                                          *)

\* The client is at a border between frames, with the rest of the last message
\* in sent before it.
ClientInv ==
  ~EncoderComplete(client) =>
    LET msg == sent[Len(sent)]
    IN  /\ client.m_isClient /\ (client.m_offset = 0 => client.m_opCode = 2)
        /\ Len(sent) > 0 /\ client.m_len = Len(msg)
        /\ \A i \in 1 .. Len(client.m_data) : client.m_data[i] = msg[client.m_offset + i]
        /\ Framable(client.m_len, client.m_frameSize)
        /\ \E q \in 0 .. client.m_len : client.m_offset = q * client.m_frameSize

\* Where the client's next frame begins.
NextMessage == IF EncoderComplete(client) THEN Len(sent) + 1 ELSE Len(sent)
NextByte    == IF EncoderComplete(client) THEN 0 ELSE client.m_offset

\* Frame g begins where frame f ends.
Follows(f, g, msgs) ==
  /\ g.at = EndOf(f)
  /\ IF f.to = Len(msgs[f.msg]) THEN g.msg = f.msg + 1 /\ g.from = 0
                                ELSE g.msg = f.msg /\ g.from = f.to

\* wire is made of the first last frames of frames, one after the other, and
\* frames[last + 1] tells where the next will begin.
IsWire(wire, frames, last) ==
  /\ \A i \in 1 .. last : IsFrame(wire, frames[i], sent) /\ Follows(frames[i], frames[i + 1], sent)
  /\ \A i, j \in 1 .. last + 1 : i < j => frames[i].at < frames[j].at
  /\ frames[last + 1].at = Len(wire)
  /\ frames[last + 1].msg = NextMessage /\ frames[last + 1].from = NextByte

\* What is read of it: the parser is in frame cur, and the messages before it
\* are delivered.
IsRead(wire, frames, last, cur) ==
  LET f == frames[cur]
      read == f.at + Len(parser.m_inputCache)
  IN  /\ read + Len(stream) = Len(wire)
      /\ \A i \in 1 .. Len(parser.m_inputCache) : parser.m_inputCache[i] = wire[f.at + i]
      /\ \A i \in 1 .. Len(stream) : stream[i] = wire[read + i]
      /\ ends = {frames[i].at - read : i \in cur + 1 .. last + 1}
      /\ cur <= last => read < frames[cur + 1].at
      /\ f.msg = Len(delivered) + 1
      /\ phase = "Read" => PartTaken(parser, f, sent) /\ (parser.m_headerComplete => cur <= last)
      /\ phase = "Respond" => f.from = 0 /\ parser.m_inputCache = <<>>

InStep ==
  \E wire \in Seq(Byte), frames \in [Nat -> FrameRecords], last \in Nat, cur \in Nat :
    cur \in 1 .. last + 1 /\ IsWire(wire, frames, last) /\ IsRead(wire, frames, last, cur)

\* The messages delivered are the first of those sent.
Prefix ==
  Len(delivered) <= Len(sent) /\ \A i \in 1 .. Len(delivered) : delivered[i] = sent[i]

DeliveryInv ==
  /\ TypeInv /\ ServerIsServer /\ ClientInv
  /\ ~crossed => Prefix
  /\ ~crossed /\ phase # "closed" => InStep

LEMMA FrameFields ==
  ASSUME NEW f \in FrameRecords
  PROVE  f.msg \in Nat /\ f.from \in Nat /\ f.to \in Nat /\ f.at \in Nat /\ f.key \in Seq(Byte)
BY DEF FrameRecords

\* More bytes and more messages leave a frame where it is.
LEMMA FrameKept ==
  ASSUME NEW f \in FrameRecords,
         NEW wire, NEW wire2, Len(wire) \in Nat, Len(wire2) \in Nat, Len(wire) <= Len(wire2),
         \A i \in 1 .. Len(wire) : wire2[i] = wire[i],
         NEW msgs, NEW msgs2, Len(msgs) \in Nat, Len(msgs2) \in Nat, Len(msgs) <= Len(msgs2),
         \A i \in 1 .. Len(msgs) : msgs2[i] = msgs[i],
         IsFrame(wire, f, msgs)
  PROVE  IsFrame(wire2, f, msgs2)
<1> DEFINE n == SizeOf(f)
           h == HeaderLen(n)
<1>1. f.at \in Nat /\ f.from \in Nat /\ f.to \in Nat /\ f.from < f.to
  BY DEF FrameRecords, IsFrame
<1>2. n \in Nat \ {0}
  BY <1>1 DEF SizeOf
<1>3. h \in {6, 8} /\ (n > 126 => h = 8)
  BY DEF HeaderLen
<1>4. f.at + h + n <= Len(wire)
  BY DEF IsFrame, EndOf
<1>5. msgs2[f.msg] = msgs[f.msg] /\ f.msg \in 1 .. Len(msgs2)
  BY DEF IsFrame
<1>6. ASSUME NEW j \in 1 .. h + n PROVE wire2[f.at + j] = wire[f.at + j]
  <2> HIDE DEF n, h
  <2>1. \A a, b, c, k, l \in Nat : a + b + c <= l /\ k \in 1 .. b + c => a + k \in 1 .. l
    OBVIOUS
  <2>2. h \in Nat /\ n \in Nat
    BY <1>2, <1>3
  <2>3. j \in Nat /\ j \in 1 .. h + n
    BY <2>2
  <2>4. f.at \in Nat /\ Len(wire) \in Nat
    BY <1>1
  <2>5. f.at + j \in 1 .. Len(wire)
    BY <1>4, <2>1, <2>2, <2>3, <2>4
  <2> QED
    BY <2>5
<1>7. EndOf(f) <= Len(wire2)
  <2>1. EndOf(f) = f.at + h + n
    BY DEF EndOf
  <2> QED
    BY <1>1, <1>2, <1>3, <1>4, <2>1
<1>8. Header(wire, f, msgs) /\ Payload(wire, f, msgs)
  BY DEF IsFrame
<1> HIDE DEF n, h
<1>9. Header(wire2, f, msgs2)
  <2>1. 1 \in 1 .. h + n /\ 2 \in 1 .. h + n /\ 3 \in 1 .. h + n /\ 4 \in 1 .. h + n
    BY <1>2, <1>3
  <2>2. ASSUME NEW i \in 1 .. 4 PROVE wire2[f.at + (h - 4) + i] = f.key[i]
    <3>1. (h - 4) + i \in 1 .. h + n
      BY <1>2, <1>3
    <3>2. f.at + ((h - 4) + i) = f.at + (h - 4) + i
      <4>1. \A x, y, z \in Int : x + (y + z) = x + y + z
        OBVIOUS
      <4>2. f.at \in Int /\ h - 4 \in Int /\ i \in Int
        BY <1>1, <1>3
      <4> QED
        BY <4>1, <4>2
    <3>3. wire[f.at + (h - 4) + i] = f.key[i]
      BY <1>8 DEF Header, h, n
    <3> QED
      BY <1>6, <3>1, <3>2, <3>3
  <2>3. /\ wire2[f.at + 1] = wire[f.at + 1] /\ wire2[f.at + 2] = wire[f.at + 2]
        /\ wire2[f.at + 3] = wire[f.at + 3] /\ wire2[f.at + 4] = wire[f.at + 4]
    BY <1>6, <2>1
  <2> QED
    BY <1>5, <1>8, <2>2, <2>3 DEF Header, h, n
<1>10. Payload(wire2, f, msgs2)
  <2> SUFFICES ASSUME NEW i \in 1 .. n
               PROVE  wire2[f.at + h + i] =
                        Xor(msgs2[f.msg][f.from + i], f.key[((i - 1) % 4) + 1])
    BY DEF Payload, h, n
  <2>1. h + i \in 1 .. h + n
    BY <1>2, <1>3
  <2>2. f.at + (h + i) = f.at + h + i
    <3>1. \A x, y, z \in Int : x + (y + z) = x + y + z
      OBVIOUS
    <3>2. f.at \in Int /\ h \in Int /\ i \in Int
      BY <1>1, <1>3
    <3> QED
      BY <3>1, <3>2
  <2>3. wire[f.at + h + i] = Xor(msgs[f.msg][f.from + i], f.key[((i - 1) % 4) + 1])
    BY <1>8 DEF Payload, h, n
  <2> QED
    BY <1>5, <1>6, <2>1, <2>2, <2>3
<1> QED
  BY <1>5, <1>7, <1>9, <1>10 DEF IsFrame

\* The next frame of a message that can be sent: it has bytes, a length that is
\* encoded right, and the FIN bit exactly if it ends the message.
LEMMA NextFrame ==
  ASSUME NEW len \in Nat, NEW size \in Nat \ {0}, Framable(len, size),
         NEW q \in 0 .. len, NEW offset \in Nat, offset = q * size, offset < len,
         NEW n, n = IF size > len - offset THEN len - offset ELSE size
  PROVE  /\ n \in Nat \ {0} /\ n # 126 /\ n <= MaxShort /\ offset + n <= len
         /\ size > len - offset <=> offset + n = len
         /\ ~(size > len - offset) => q + 1 \in 0 .. len /\ offset + n = (q + 1) * size
<1>1. len - offset > 0 /\ n # 126 /\ n <= MaxShort
  BY DEF Framable
<1>2. n \in Nat \ {0} /\ offset + n <= len
  OBVIOUS
<1>3. CASE size > len - offset
  BY <1>1, <1>2, <1>3
<1>4. CASE ~(size > len - offset)
  <2>1. offset + n = (q + 1) * size
    BY <1>4
  <2>2. q + 1 <= (q + 1) * size
    OBVIOUS
  <2>3. q + 1 \in 0 .. len
    BY <1>2, <2>1, <2>2
  <2>4. len - (q + 1) * size # 0
    BY <2>3 DEF Framable
  <2>5. (q + 1) * size \in Nat
    OBVIOUS
  <2>6. offset + n # len
    BY <2>1, <2>4, <2>5
  <2> QED
    BY <1>1, <1>2, <1>4, <2>1, <2>3, <2>6
<1> QED
  BY <1>3, <1>4

----------------------------------------------------------------------------
(* The steps.                                                              *)

LEMMA DeliveryInit == Init => DeliveryInv
<1> SUFFICES ASSUME Init PROVE DeliveryInv
  OBVIOUS
<1>1. TypeInv /\ ServerIsServer
  BY TypeInit DEF Init, ServerIsServer, NoEncoder, NewEncoder
<1>2. EncoderComplete(client) /\ ClientInv
  BY DEF Init, NoEncoder, NewEncoder, EncoderComplete, ClientInv
<1>3. Prefix
  BY DEF Init, Prefix
<1>4. InStep
  <2> DEFINE start  == [msg |-> 1, from |-> 0, to |-> 0, at |-> 0, key |-> <<>>]
             frames == [i \in Nat |-> start]
  <2>1. start \in FrameRecords
    BY DEF FrameRecords
  <2>2. frames \in [Nat -> FrameRecords]
    BY <2>1
  <2>3. frames[1].msg = 1 /\ frames[1].from = 0 /\ frames[1].at = 0
    OBVIOUS
  <2> HIDE DEF frames
  <2>4. /\ sent = <<>> /\ stream = <<>> /\ ends = {} /\ delivered = <<>> /\ phase = "Read"
        /\ parser = NewParser
    BY DEF Init
  <2>5. IsWire(<<>>, frames, 0)
    BY <1>2, <2>3, <2>4 DEF IsWire, NextMessage, NextByte
  <2>6. PartTaken(parser, frames[1], sent) /\ ~parser.m_headerComplete
    BY <2>3, <2>4 DEF PartTaken, HasPart, NewParser
  <2>7. Len(parser.m_inputCache) = 0
    BY <2>4 DEF NewParser
  <2>8. IsRead(<<>>, frames, 0, 1)
    BY <2>3, <2>4, <2>6, <2>7 DEF IsRead
  <2>9. <<>> \in Seq(Byte) /\ 0 \in Nat /\ 1 \in Nat /\ 1 \in 1 .. 0 + 1
    OBVIOUS
  <2> QED
    BY <2>2, <2>5, <2>8, <2>9 DEF InStep
<1> QED
  BY <1>1, <1>2, <1>3, <1>4 DEF DeliveryInv

\* A new message changes nothing of what is written and read.
LEMMA DeliveryClientBegins ==
  ASSUME DeliveryInv, TypeInv', ServerIsServer',
         NEW transfer \in Transfers, ClientBegins(transfer),
         Framable(Len(transfer.payload), transfer.frameSize)
  PROVE  DeliveryInv'
<1> DEFINE payload == transfer.payload
<1>1. /\ EncoderComplete(client)
      /\ client' = NewEncoder(TRUE, OpCodeType_Binary, transfer.frameSize, payload)
      /\ sent' = Append(sent, payload)
      /\ UNCHANGED <<stream, ends, parser, server, phase, crossed, refused, delivered>>
  BY DEF ClientBegins
<1>2. /\ payload \in Seq(Byte) /\ Len(payload) \in Nat /\ transfer.frameSize \in Nat \ {0}
      /\ sent \in Seq(Seq(Byte)) /\ delivered \in Seq(Seq(Byte))
  BY WebSocketAssumption DEF Byte, DeliveryInv, TypeInv, StateTyped
<1>3. Len(payload) > 0
  <2>1. Len(payload) - 0 * transfer.frameSize # 0
    BY <1>2 DEF Framable
  <2> QED
    BY <1>2, <2>1
<1>4. /\ Len(sent) \in Nat /\ Len(sent') = Len(sent) + 1
      /\ sent'[Len(sent')] = payload
      /\ \A i \in 1 .. Len(sent) : sent'[i] = sent[i]
  BY <1>1, <1>2, AppendProperties
<1>5. /\ client'.m_isClient /\ client'.m_opCode = 2 /\ client'.m_offset = 0
      /\ client'.m_len = Len(payload) /\ client'.m_frameSize = transfer.frameSize
      /\ client'.m_data = payload
  BY <1>1 DEF NewEncoder, OpCodeType_Binary
<1>6. ~EncoderComplete(client)'
  BY <1>2, <1>3, <1>5 DEF EncoderComplete
<1> HIDE DEF payload
<1>7. ClientInv'
  <2>1. Framable(client'.m_len, client'.m_frameSize)
    BY <1>5 DEF payload
  <2>2. \E q \in 0 .. client'.m_len : client'.m_offset = q * client'.m_frameSize
    <3>1. 0 \in 0 .. client'.m_len /\ client'.m_offset = 0 * client'.m_frameSize
      BY <1>2, <1>5
    <3> QED
      BY <3>1
  <2>3. \A i \in 1 .. Len(client'.m_data) :
          client'.m_data[i] = sent'[Len(sent')][client'.m_offset + i]
    BY <1>2, <1>4, <1>5
  <2> QED
    BY <1>4, <1>5, <2>1, <2>2, <2>3 DEF ClientInv
<1>8. ~crossed' => Prefix'
  <2> SUFFICES ASSUME ~crossed PROVE Prefix'
    BY <1>1
  <2>1. Prefix
    BY DEF DeliveryInv
  <2> QED
    BY <1>1, <1>2, <1>4, <2>1 DEF Prefix
<1>9. ~crossed' /\ phase' # "closed" => InStep'
  <2> SUFFICES ASSUME ~crossed, phase # "closed" PROVE InStep'
    BY <1>1
  <2>1. InStep
    BY DEF DeliveryInv
  <2>2. PICK wire \in Seq(Byte), frames \in [Nat -> FrameRecords], last \in Nat, cur \in Nat :
          cur \in 1 .. last + 1 /\ IsWire(wire, frames, last) /\ IsRead(wire, frames, last, cur)
    BY <2>1 DEF InStep
  <2>3. ASSUME NEW i \in 1 .. last
        PROVE  /\ IsFrame(wire, frames[i], sent')
               /\ Follows(frames[i], frames[i + 1], sent')
               /\ sent'[frames[i].msg] = sent[frames[i].msg]
    <3>1. IsFrame(wire, frames[i], sent) /\ Follows(frames[i], frames[i + 1], sent)
      BY <2>2 DEF IsWire
    <3>2. frames[i] \in FrameRecords /\ Len(wire) \in Nat
      OBVIOUS
    <3>3. Len(sent') \in Nat /\ Len(sent) <= Len(sent')
      BY <1>4
    <3>4. IsFrame(wire, frames[i], sent')
      BY <1>4, <3>1, <3>2, <3>3, FrameKept, SMTT(40)
    <3>5. sent'[frames[i].msg] = sent[frames[i].msg]
      BY <1>4, <3>1 DEF IsFrame
    <3> QED
      BY <3>1, <3>4, <3>5 DEF Follows
  <2>4. NextMessage' = NextMessage /\ NextByte' = NextByte /\ NextByte = 0
    BY <1>1, <1>4, <1>5, <1>6 DEF NextMessage, NextByte
  <2>5. IsWire(wire, frames, last)'
    BY <2>2, <2>3, <2>4 DEF IsWire
  <2>6. PartTaken(parser, frames[cur], sent) /\ (parser.m_headerComplete => cur <= last)
        => PartTaken(parser', frames[cur], sent')
    <3>1. CASE cur <= last
      <4>1. cur \in 1 .. last
        BY <2>2, <3>1
      <4>2. sent'[frames[cur].msg] = sent[frames[cur].msg]
        BY <2>3, <4>1
      <4> QED
        BY <1>1, <4>2 DEF PartTaken, HeaderTaken, HasPart
    <3>2. CASE ~(cur <= last)
      <4>1. cur = last + 1
        BY <2>2, <3>2
      <4>2. frames[cur].from = 0
        BY <2>2, <2>4, <4>1 DEF IsWire
      <4> QED
        BY <1>1, <3>2, <4>2 DEF PartTaken, HasPart
    <3> QED
      BY <3>1, <3>2
  <2>7. IsRead(wire, frames, last, cur)'
    BY <1>1, <2>2, <2>6 DEF IsRead
  <2> QED
    BY <2>2, <2>5, <2>7 DEF InStep
<1> QED
  BY <1>7, <1>8, <1>9 DEF DeliveryInv

\* Nor does an answer, after which the parser is ready for the next message.
LEMMA DeliveryRespond ==
  ASSUME DeliveryInv, TypeInv', ServerIsServer', RespondFrame \/ ResponseFails \/ RespondEnd
  PROVE  DeliveryInv'
<1>1. /\ UNCHANGED <<client, sent, stream, ends, crossed, delivered>>
      /\ phase = "Respond"
      /\ \/ UNCHANGED <<parser, phase>>
         \/ phase' = "closed"
         \/ parser' = Reset(parser) /\ phase' = "Read"
  BY DEF RespondFrame, ResponseFails, RespondEnd
<1>2. ClientInv'
  BY <1>1 DEF DeliveryInv, ClientInv, EncoderComplete
<1>3. ~crossed' => Prefix'
  BY <1>1 DEF DeliveryInv, Prefix
<1>4. ~crossed' /\ phase' # "closed" => InStep'
  <2> SUFFICES ASSUME ~crossed, phase' # "closed" PROVE InStep'
    BY <1>1
  <2>1. InStep
    BY <1>1 DEF DeliveryInv
  <2>2. PICK wire \in Seq(Byte), frames \in [Nat -> FrameRecords], last \in Nat, cur \in Nat :
          cur \in 1 .. last + 1 /\ IsWire(wire, frames, last) /\ IsRead(wire, frames, last, cur)
    BY <2>1 DEF InStep
  <2>3. IsWire(wire, frames, last)'
    BY <1>1, <2>2 DEF IsWire, NextMessage, NextByte, EncoderComplete
  <2>4. IsRead(wire, frames, last, cur)'
    <3>1. CASE UNCHANGED <<parser, phase>>
      BY <1>1, <2>2, <3>1 DEF IsRead
    <3>2. CASE parser' = Reset(parser) /\ phase' = "Read"
      <4>1. parser \in Parsers
        BY DEF DeliveryInv, TypeInv, StateTyped
      <4>2. /\ parser'.m_inputCache = <<>> /\ parser'.m_headerComplete = FALSE
            /\ parser'.m_complete = FALSE /\ parser'.m_payload = <<>>
        BY <3>2, <4>1, ResetIs
      <4>3. frames[cur].from = 0 /\ parser.m_inputCache = <<>>
        BY <1>1, <2>2 DEF IsRead
      <4>4. PartTaken(parser', frames[cur], sent')
        BY <4>2, <4>3 DEF PartTaken, HasPart
      <4> QED
        BY <1>1, <2>2, <3>2, <4>2, <4>3, <4>4 DEF IsRead
    <3> QED
      BY <1>1, <3>1, <3>2
  <2> QED
    BY <2>2, <2>3, <2>4 DEF InStep
<1> QED
  BY <1>2, <1>3, <1>4 DEF DeliveryInv

\* A read that does not cross the end of a frame stays within the frame that the
\* parser is in, and adds to the bytes that it has of it.
LEMMA ReadWithinFrame ==
  ASSUME TypeInv, NEW wire \in Seq(Byte), NEW frames \in [Nat -> FrameRecords],
         NEW last \in Nat, NEW cur \in 1 .. last + 1,
         IsWire(wire, frames, last), IsRead(wire, frames, last, cur),
         NEW n \in 1 .. Len(stream), ~ \E e \in ends : e < n
  PROVE  LET bytes == parser.m_inputCache \o First(n)
         IN  /\ cur \in 1 .. last /\ First(n) \in Seq(Byte)
             /\ bytes \in Seq(Byte) /\ Len(bytes) = Len(parser.m_inputCache) + n
             /\ Begins(bytes, wire, frames[cur])
             /\ EndOf(frames[cur]) = frames[cur + 1].at
<1> DEFINE f     == frames[cur]
           cache == parser.m_inputCache
           read  == f.at + Len(cache)
           data  == First(n)
           bytes == cache \o data
<1>1. /\ cache \in Seq(Byte) /\ Len(cache) \in Nat /\ stream \in Seq(Byte) /\ Len(stream) \in Nat
      /\ cur \in Nat /\ f \in FrameRecords /\ f.at \in Nat /\ Len(wire) \in Nat /\ n \in Nat
  <2>1. parser \in Parsers /\ stream \in Seq(Byte)
    BY DEF TypeInv, StateTyped
  <2>2. cache \in Seq(Byte)
    BY <2>1 DEF Parsers
  <2>3. cur \in Nat /\ f \in FrameRecords
    OBVIOUS
  <2>4. f.at \in Nat
    BY <2>3 DEF FrameRecords
  <2> QED
    BY <2>1, <2>2, <2>3, <2>4
<1>2. /\ read + Len(stream) = Len(wire)
      /\ \A i \in 1 .. Len(cache) : cache[i] = wire[f.at + i]
      /\ \A i \in 1 .. Len(stream) : stream[i] = wire[read + i]
      /\ ends = {frames[i].at - read : i \in cur + 1 .. last + 1}
  BY DEF IsRead
<1>3. frames[last + 1].at = Len(wire)
  BY DEF IsWire
<1>4. cur \in 1 .. last
  <2> SUFFICES ASSUME cur = last + 1 PROVE FALSE
    OBVIOUS
  <2>1. f.at = Len(wire)
    BY <1>3
  <2> HIDE DEF f, cache
  <2> QED
    BY <1>1, <1>2, <2>1
<1>5. Follows(f, frames[cur + 1], sent)
  <2>1. \A i \in 1 .. last : Follows(frames[i], frames[i + 1], sent)
    BY DEF IsWire
  <2> QED
    BY <1>4, <2>1
<1>6. EndOf(f) = frames[cur + 1].at /\ frames[cur + 1].at \in Nat
  <2>1. EndOf(f) = frames[cur + 1].at
    BY <1>5 DEF Follows
  <2>2. frames[cur + 1] \in FrameRecords
    BY <1>1
  <2> QED
    BY <2>1, <2>2, FrameFields
<1>7. frames[cur + 1].at - read \in ends
  <2>1. cur + 1 \in cur + 1 .. last + 1
    BY <1>4
  <2> QED
    BY <1>2, <2>1
<1>8. read + n <= frames[cur + 1].at
  <2>1. ~(frames[cur + 1].at - read < n)
    BY <1>7
  <2>2. read \in Nat
    BY <1>1
  <2> HIDE DEF read
  <2> QED
    BY <1>1, <1>6, <2>1, <2>2
<1>9. data \in Seq(Byte) /\ Len(data) = n /\ \A i \in 1 .. n : data[i] = stream[i]
  <2>1. n \in 0 .. Len(stream)
    BY <1>1
  <2> QED
    BY <1>1, <2>1 DEF First
<1> HIDE DEF cache, data
<1>10. /\ bytes \in Seq(Byte) /\ Len(bytes) = Len(cache) + n
       /\ \A i \in 1 .. Len(cache) : bytes[i] = cache[i]
       /\ \A i \in 1 .. n : bytes[Len(cache) + i] = data[i]
  BY <1>1, <1>9, ConcatBytes
<1> HIDE DEF bytes, f
<1>11. \A i \in 1 .. Len(bytes) : bytes[i] = wire[f.at + i]
  <2> SUFFICES ASSUME NEW i \in 1 .. Len(bytes) PROVE bytes[i] = wire[f.at + i]
    OBVIOUS
  <2>1. CASE i <= Len(cache)
    <3>1. i \in 1 .. Len(cache)
      BY <1>1, <2>1
    <3> QED
      BY <1>2, <1>10, <3>1
  <2>2. CASE ~(i <= Len(cache))
    <3> DEFINE j == i - Len(cache)
    <3>1. j \in 1 .. n /\ j \in 1 .. Len(stream) /\ i = Len(cache) + j
      BY <1>1, <1>10, <2>2
    <3>2. f.at + Len(cache) + j = f.at + i
      BY <1>1, <3>1
    <3> HIDE DEF j
    <3>3. stream[j] = wire[f.at + Len(cache) + j]
      BY <1>2, <3>1
    <3> QED
      BY <1>9, <1>10, <3>1, <3>2, <3>3
  <2> QED
    BY <2>1, <2>2
<1>12. Len(bytes) <= HeaderLen(SizeOf(f)) + SizeOf(f)
  <2> DEFINE h == HeaderLen(SizeOf(f))
             s == SizeOf(f)
  <2>1. h \in Nat
    BY DEF HeaderLen
  <2>2. s \in Int
    BY <1>1 DEF SizeOf, FrameRecords
  <2>3. f.at + h + s = frames[cur + 1].at
    BY <1>6 DEF EndOf
  <2>4. f.at + Len(cache) + n <= frames[cur + 1].at
    BY <1>8
  <2> HIDE DEF h, s
  <2>5. Len(cache) + n <= h + s
    BY <1>1, <1>6, <2>1, <2>2, <2>3, <2>4
  <2> QED
    BY <1>10, <2>5 DEF h, s
<1>13. Begins(bytes, wire, f)
  BY <1>10, <1>11, <1>12 DEF Begins
<1> QED
  BY <1>4, <1>6, <1>9, <1>10, <1>13 DEF bytes, cache, data, f

\* The ends of frames that are left in the stream after such a read.
LEMMA EndsLeft ==
  ASSUME NEW frames \in [Nat -> FrameRecords], NEW last \in Nat, NEW cur \in 1 .. last,
         \A i, j \in 1 .. last + 1 : i < j => frames[i].at < frames[j].at,
         NEW read \in Nat, NEW n \in Nat, read + n <= frames[cur + 1].at,
         NEW old, old = {frames[i].at - read : i \in cur + 1 .. last + 1},
         NEW new, new = {e - n : e \in {x \in old : x > n}}
  PROVE  /\ read + n < frames[cur + 1].at =>
              new = {frames[i].at - (read + n) : i \in cur + 1 .. last + 1}
         /\ read + n = frames[cur + 1].at =>
              new = {frames[i].at - (read + n) : i \in cur + 2 .. last + 1}
<1>1. ASSUME NEW i \in cur + 1 .. last + 1
      PROVE  frames[i].at \in Nat /\ i \in Nat
  <2>1. i \in Nat
    OBVIOUS
  <2>2. frames[i] \in FrameRecords
    BY <2>1
  <2> QED
    BY <2>1, <2>2, FrameFields
<1>2. cur + 1 \in cur + 1 .. last + 1
  OBVIOUS
<1>3. ASSUME NEW i \in cur + 2 .. last + 1
      PROVE  frames[cur + 1].at < frames[i].at /\ i \in cur + 1 .. last + 1
  OBVIOUS
<1>4. \A a, b, c \in Int : (a - b) - c = a - (b + c) /\ (a - b > c <=> b + c < a)
  OBVIOUS
<1>5. new = {frames[i].at - (read + n) :
               i \in {k \in cur + 1 .. last + 1 : read + n < frames[k].at}}
  <2> DEFINE ahead == {k \in cur + 1 .. last + 1 : read + n < frames[k].at}
             set   == {frames[i].at - (read + n) : i \in ahead}
  <2>1. ASSUME NEW x \in new PROVE x \in set
    <3>1. PICK i \in cur + 1 .. last + 1 : frames[i].at - read > n /\ x = (frames[i].at - read) - n
      OBVIOUS
    <3>2. frames[i].at \in Int /\ read \in Int /\ n \in Int
      BY <1>1
    <3>3. x = frames[i].at - (read + n) /\ read + n < frames[i].at
      BY <1>4, <3>1, <3>2
    <3> QED
      BY <3>3
  <2>2. ASSUME NEW x \in set PROVE x \in new
    <3>1. PICK i \in cur + 1 .. last + 1 : read + n < frames[i].at /\ x = frames[i].at - (read + n)
      OBVIOUS
    <3>2. frames[i].at \in Int /\ read \in Int /\ n \in Int
      BY <1>1
    <3>3. x = (frames[i].at - read) - n /\ frames[i].at - read > n
      BY <1>4, <3>1, <3>2
    <3>4. frames[i].at - read \in old
      OBVIOUS
    <3> QED
      BY <3>3, <3>4
  <2> QED
    BY <2>1, <2>2
<1>6. ASSUME read + n < frames[cur + 1].at
      PROVE  {k \in cur + 1 .. last + 1 : read + n < frames[k].at} = cur + 1 .. last + 1
  <2> SUFFICES ASSUME NEW k \in cur + 1 .. last + 1 PROVE read + n < frames[k].at
    OBVIOUS
  <2>1. k = cur + 1 \/ k \in cur + 2 .. last + 1
    OBVIOUS
  <2>2. frames[k].at \in Nat /\ frames[cur + 1].at \in Nat
    BY <1>1, <1>2
  <2>3. k = cur + 1 \/ frames[cur + 1].at < frames[k].at
    BY <1>3, <2>1
  <2> QED
    BY <1>6, <2>2, <2>3
<1>7. ASSUME read + n = frames[cur + 1].at
      PROVE  {k \in cur + 1 .. last + 1 : read + n < frames[k].at} = cur + 2 .. last + 1
  <2>1. ASSUME NEW k \in cur + 1 .. last + 1, read + n < frames[k].at
        PROVE  k \in cur + 2 .. last + 1
    <3>1. k # cur + 1
      BY <1>7, <2>1
    <3> QED
      BY <3>1
  <2>2. ASSUME NEW k \in cur + 2 .. last + 1
        PROVE  k \in cur + 1 .. last + 1 /\ read + n < frames[k].at
    BY <1>3, <1>7
  <2> QED
    BY <2>1, <2>2
<1> QED
  BY <1>5, <1>6, <1>7

\* A read that leaves the connection open: the parser is still in step.
LEMMA ReadInStep ==
  ASSUME TypeInv, TypeInv', Prefix, NEW n \in 1 .. Len(stream), ProcessWebSocketData(n),
         NEW wire \in Seq(Byte), NEW frames \in [Nat -> FrameRecords],
         NEW last \in Nat, NEW cur \in 1 .. last + 1,
         IsWire(wire, frames, last), IsRead(wire, frames, last, cur),
         ~crossed', Parse(parser, First(n)).ok
  PROVE  Prefix' /\ InStep'
<1> DEFINE f     == frames[cur]
           g     == frames[cur + 1]
           cache == parser.m_inputCache
           data  == First(n)
           bytes == cache \o data
           read  == f.at + Len(cache)
           full  == HeaderLen(SizeOf(f)) + SizeOf(f)
<1>1. /\ UNCHANGED <<client, sent>> /\ phase = "Read" /\ stream' = After(n)
      /\ ends' = {e - n : e \in {x \in ends : x > n}}
      /\ ~ \E e \in ends : e < n
      /\ parser' = Parse(parser, data).parser
  BY DEF ProcessWebSocketData, Taken
<1>2. IF parser'.m_complete
      THEN phase' = "Respond" /\ delivered' = Append(delivered, parser'.m_payload)
      ELSE phase' = "Read" /\ delivered' = delivered
  BY DEF ProcessWebSocketData
<1>3. /\ parser \in Parsers /\ ParserFits(parser) /\ cache \in Seq(Byte) /\ Len(cache) \in Nat
      /\ stream \in Seq(Byte) /\ Len(stream) \in Nat /\ n \in Nat
      /\ sent \in Seq(Seq(Byte)) /\ delivered \in Seq(Seq(Byte))
      /\ cur \in Nat /\ cur + 1 \in Nat
  <2>1. /\ parser \in Parsers /\ ParserFits(parser) /\ stream \in Seq(Byte)
        /\ sent \in Seq(Seq(Byte)) /\ delivered \in Seq(Seq(Byte))
    BY DEF TypeInv, StateTyped
  <2>2. cache \in Seq(Byte)
    BY <2>1 DEF Parsers
  <2> QED
    BY <2>1, <2>2
<1>4. f \in FrameRecords /\ g \in FrameRecords
  BY <1>3
<1>5. f.at \in Nat /\ g.at \in Nat /\ f.to \in Nat /\ f.from \in Nat /\ f.msg \in Nat
  BY <1>4, FrameFields
<1>6. /\ cur \in 1 .. last /\ data \in Seq(Byte)
      /\ bytes \in Seq(Byte) /\ Len(bytes) = Len(cache) + n
      /\ Begins(bytes, wire, f) /\ EndOf(f) = g.at
  BY <1>1, ReadWithinFrame
<1>7. IsFrame(wire, f, sent) /\ Follows(f, g, sent)
  <2>1. \A i \in 1 .. last :
          IsFrame(wire, frames[i], sent) /\ Follows(frames[i], frames[i + 1], sent)
    BY DEF IsWire
  <2> QED
    BY <1>6, <2>1
<1>8. PartTaken(parser, f, sent)
  BY <1>1 DEF IsRead
<1>9. IF Len(bytes) = full
      THEN FrameTaken(parser', f, sent)
      ELSE parser'.m_inputCache = bytes /\ PartTaken(parser', f, sent)
  <2>1. LET q == Parse(parser, data).parser
        IN  IF Len(bytes) = HeaderLen(SizeOf(f)) + SizeOf(f)
            THEN FrameTaken(q, f, sent)
            ELSE q.m_inputCache = bytes /\ PartTaken(q, f, sent)
    BY <1>3, <1>4, <1>6, <1>7, <1>8, ParseOfFrame
  <2> QED
    BY <1>1, <2>1
<1>10. full \in Nat /\ g.at = f.at + full /\ Len(bytes) <= full
  <2> DEFINE h == HeaderLen(SizeOf(f))
             s == SizeOf(f)
  <2>1. h \in {6, 8}
    BY DEF HeaderLen
  <2>2. s \in Nat
    BY <1>5, <1>7, SMTT(40) DEF SizeOf, IsFrame
  <2>3. g.at = f.at + h + s /\ Len(bytes) <= h + s
    BY <1>6 DEF EndOf, Begins
  <2> HIDE DEF h, s, f, g
  <2>4. h + s \in Nat /\ g.at = f.at + (h + s)
    <3>1. \A x, y, z \in Nat : x + y + z = x + (y + z) /\ y + z \in Nat
      OBVIOUS
    <3>2. f.at \in Nat /\ h \in Nat /\ s \in Nat
      BY <1>5, <2>1, <2>2
    <3> QED
      BY <2>3, <3>1, <3>2
  <2> QED
    BY <2>3, <2>4 DEF h, s
<1>11. /\ read + Len(stream) = Len(wire)
       /\ \A i \in 1 .. Len(stream) : stream[i] = wire[read + i]
       /\ ends = {frames[i].at - read : i \in cur + 1 .. last + 1}
       /\ f.msg = Len(delivered) + 1
  BY DEF IsRead
<1>12. /\ Len(stream') = Len(stream) - n
       /\ \A i \in 1 .. Len(stream') : stream'[i] = wire[(read + n) + i]
  <2>1. n + 1 \in 1 .. Len(stream) + 1 /\ Len(stream) \in (n + 1) - 1 .. Len(stream)
    BY <1>3
  <2>2. /\ Len(stream') = Len(stream) - (n + 1) + 1
        /\ \A i \in 1 .. Len(stream) - (n + 1) + 1 : stream'[i] = stream[(n + 1) + i - 1]
    BY <1>1, <1>3, <2>1, SubSeqBytes DEF After
  <2>3. Len(stream') = Len(stream) - n
    BY <1>3, <2>2
  <2>4. read \in Nat
    BY <1>3, <1>5, SMTT(40)
  <2> HIDE DEF read
  <2>5. ASSUME NEW i \in 1 .. Len(stream') PROVE stream'[i] = wire[(read + n) + i]
    <3>1. n + i \in 1 .. Len(stream) /\ i \in 1 .. Len(stream) - (n + 1) + 1
      BY <1>3, <2>3
    <3>2. (n + 1) + i - 1 = n + i /\ read + (n + i) = (read + n) + i
      BY <1>3, <2>4
    <3>3. stream'[i] = stream[n + i]
      BY <2>2, <3>1, <3>2
    <3>4. stream[n + i] = wire[read + (n + i)]
      BY <1>11, <3>1
    <3> QED
      BY <3>2, <3>3, <3>4
  <2> QED
    BY <2>3, <2>5
<1>13. \A i, j \in 1 .. last + 1 : i < j => frames[i].at < frames[j].at
  BY DEF IsWire
<1>14. IsWire(wire, frames, last)'
  BY <1>1 DEF IsWire, NextMessage, NextByte, EncoderComplete
<1> HIDE DEF f, g, cache, data, bytes, full
<1>15. /\ read \in Nat /\ read + n \in Nat /\ read + n = f.at + Len(bytes) /\ read + n <= g.at
       /\ (read + n) + Len(stream') = Len(wire)
       /\ (Len(bytes) = full => read + n = g.at) /\ (Len(bytes) # full => read + n < g.at)
  <2>1. Len(bytes) \in Nat /\ Len(wire) \in Nat
    BY <1>6
  <2>2. read \in Nat /\ read + n \in Nat
    BY <1>3, <1>5, SMTT(40)
  <2>3. read + n = f.at + Len(bytes)
    BY <1>3, <1>5, <1>6, SMTT(40)
  <2> HIDE DEF read
  <2>4. (read + n) + Len(stream') = Len(wire)
    <3>1. read + Len(stream) = Len(wire) /\ Len(stream') = Len(stream) - n
      BY <1>11, <1>12
    <3>2. \A a, b, c \in Nat : (a + c) + (b - c) = a + b
      OBVIOUS
    <3>3. (read + n) + (Len(stream) - n) = read + Len(stream)
      BY <1>3, <2>2, <3>2
    <3> QED
      BY <3>1, <3>3
  <2>5. read + n <= g.at /\ (Len(bytes) = full => read + n = g.at)
        /\ (Len(bytes) # full => read + n < g.at)
    BY <1>5, <1>10, <2>1, <2>2, <2>3, SMTT(40)
  <2> QED
    BY <2>2, <2>3, <2>4, <2>5
<1> HIDE DEF read
<1>16. /\ read + n < g.at => ends' = {frames[i].at - (read + n) : i \in cur + 1 .. last + 1}
       /\ read + n = g.at => ends' = {frames[i].at - (read + n) : i \in cur + 2 .. last + 1}
  <2>1. ends = {frames[i].at - read : i \in cur + 1 .. last + 1}
    BY <1>11
  <2>2. ends' = {e - n : e \in {x \in ends : x > n}}
    BY <1>1
  <2>3. read \in Nat /\ n \in Nat /\ cur \in 1 .. last /\ read + n <= frames[cur + 1].at
    BY <1>3, <1>6, <1>15 DEF g
  <2>4. /\ read + n < frames[cur + 1].at =>
             ends' = {frames[i].at - (read + n) : i \in cur + 1 .. last + 1}
        /\ read + n = frames[cur + 1].at =>
             ends' = {frames[i].at - (read + n) : i \in cur + 2 .. last + 1}
    BY <1>13, <2>1, <2>2, <2>3, EndsLeft
  <2> QED
    BY <2>4 DEF g
<1>17. CASE Len(bytes) # full
  <2>1. parser'.m_inputCache = bytes /\ PartTaken(parser', f, sent)
    BY <1>9, <1>17
  <2>2. phase' = "Read" /\ delivered' = delivered
    BY <1>2, <2>1 DEF PartTaken
  <2>3. Prefix'
    BY <1>1, <2>2 DEF Prefix
  <2>4. ends' = {frames[i].at - (read + n) : i \in cur + 1 .. last + 1}
    BY <1>15, <1>16, <1>17 DEF g
  <2>5. \A i \in 1 .. Len(bytes) : bytes[i] = wire[f.at + i]
    BY <1>6 DEF Begins
  <2>6. IsRead(wire, frames, last, cur)'
    <3> DEFINE now == read + n
    <3>1. /\ now = f.at + Len(parser'.m_inputCache) /\ now + Len(stream') = Len(wire)
          /\ now < frames[cur + 1].at
      BY <1>15, <1>17, <2>1 DEF g
    <3>2. /\ ends' = {frames[i].at - now : i \in cur + 1 .. last + 1}
          /\ \A i \in 1 .. Len(stream') : stream'[i] = wire[now + i]
      BY <1>12, <2>4
    <3>3. f.msg = Len(delivered') + 1 /\ cur <= last /\ PartTaken(parser', f, sent')
      BY <1>1, <1>6, <1>11, <2>1, <2>2
    <3>4. \A i \in 1 .. Len(parser'.m_inputCache) : parser'.m_inputCache[i] = wire[f.at + i]
      BY <2>1, <2>5
    <3> HIDE DEF now
    <3> QED
      BY <2>2, <3>1, <3>2, <3>3, <3>4 DEF IsRead, f
  <2>7. cur \in Nat /\ cur \in 1 .. last + 1
    BY <1>3
  <2> QED
    BY <1>14, <2>3, <2>6, <2>7 DEF InStep
<1>18. CASE Len(bytes) = full
  <2>1. FrameTaken(parser', f, sent)
    BY <1>9, <1>18
  <2>2. /\ parser'.m_inputCache = <<>> /\ ~parser'.m_headerComplete
        /\ parser'.m_complete = (f.to = Len(sent[f.msg]))
        /\ HasPart(parser', f.msg, f.to, sent)
    BY <2>1 DEF FrameTaken
  <2>3. ends' = {frames[i].at - (read + n) : i \in cur + 2 .. last + 1}
    BY <1>15, <1>16, <1>18 DEF g
  <2>4. (cur + 1) + 1 = cur + 2 /\ cur + 1 \in 1 .. last + 1
    BY <1>3, <1>6
  <2>5. read + n = g.at /\ g.at + Len(parser'.m_inputCache) = g.at
    BY <1>5, <1>15, <1>18, <2>2, SMTT(40)
  <2>6. cur + 1 <= last => g.at < frames[(cur + 1) + 1].at
    <3> SUFFICES ASSUME cur + 1 <= last PROVE frames[cur + 1].at < frames[(cur + 1) + 1].at
      BY DEF g
    <3>1. cur + 1 \in 1 .. last + 1 /\ (cur + 1) + 1 \in 1 .. last + 1 /\ cur + 1 < (cur + 1) + 1
      BY <1>3
    <3> QED
      BY <1>13, <3>1
  <2>7. /\ g.msg = Len(delivered') + 1 /\ Prefix'
        /\ phase' = "Read" => PartTaken(parser', g, sent')
        /\ phase' = "Respond" => g.from = 0
    <3>1. CASE f.to = Len(sent[f.msg])
      <4>1. phase' = "Respond" /\ delivered' = Append(delivered, parser'.m_payload)
        BY <1>2, <2>2, <3>1
      <4>2. g.msg = f.msg + 1 /\ g.from = 0
        BY <1>7, <3>1 DEF Follows
      <4>3. parser'.m_payload \in Seq(Byte)
        BY DEF TypeInv, StateTyped, Parsers
      <4>4. f.msg \in 1 .. Len(sent)
        BY <1>7 DEF IsFrame
      <4>5. sent[f.msg] \in Seq(Byte)
        BY <1>3, <4>4, ElementOfSeq
      <4>6. parser'.m_payload = sent[f.msg]
        <5>1. /\ Len(parser'.m_payload) = Len(sent[f.msg])
              /\ \A i \in 1 .. Len(parser'.m_payload) : parser'.m_payload[i] = sent[f.msg][i]
          BY <2>2, <3>1 DEF HasPart
        <5> QED
          BY <4>3, <4>5, <5>1, SeqEqual
      <4>7. /\ Len(delivered') = Len(delivered) + 1 /\ Len(delivered) \in Nat
            /\ delivered'[Len(delivered) + 1] = sent[f.msg]
            /\ \A i \in 1 .. Len(delivered) : delivered'[i] = delivered[i]
        BY <1>3, <4>1, <4>3, <4>6, AppendProperties
      <4>8. Prefix'
        <5>1. Len(delivered') <= Len(sent) /\ sent' = sent
          BY <1>1, <1>11, <4>4, <4>7
        <5>2. ASSUME NEW i \in 1 .. Len(delivered') PROVE delivered'[i] = sent[i]
          <6>1. i \in 1 .. Len(delivered) \/ i = Len(delivered) + 1
            BY <4>7
          <6> QED
            BY <1>11, <4>7, <6>1 DEF Prefix
        <5> QED
          BY <5>1, <5>2 DEF Prefix
      <4> QED
        BY <1>5, <1>11, <4>1, <4>2, <4>7, <4>8
    <3>2. CASE f.to # Len(sent[f.msg])
      <4>1. phase' = "Read" /\ delivered' = delivered /\ parser'.m_complete = FALSE
        BY <1>2, <2>2, <3>2
      <4>2. g.msg = f.msg /\ g.from = f.to
        BY <1>7, <3>2 DEF Follows
      <4>3. PartTaken(parser', g, sent')
        BY <1>1, <2>2, <4>1, <4>2 DEF PartTaken
      <4> QED
        BY <1>1, <1>11, <4>1, <4>2, <4>3 DEF Prefix
    <3> QED
      BY <3>1, <3>2
  <2>8. IsRead(wire, frames, last, cur + 1)'
    <3> DEFINE c == cur + 1
    <3>1. /\ g = frames[c] /\ ends' = {frames[i].at - g.at : i \in c + 1 .. last + 1}
          /\ g.at + Len(stream') = Len(wire)
          /\ \A i \in 1 .. Len(stream') : stream'[i] = wire[g.at + i]
      BY <1>12, <1>15, <2>3, <2>4, <2>5, ZenonT(60) DEF g
    <3>2. c <= last => g.at < frames[c + 1].at
      BY <2>6
    <3> HIDE DEF c
    <3>3. \A i \in 1 .. Len(parser'.m_inputCache) : parser'.m_inputCache[i] = wire[g.at + i]
      BY <2>2
    <3>4. IsRead(wire, frames, last, c)'
      BY <2>2, <2>5, <2>7, <3>1, <3>2, <3>3, SMTT(40) DEF IsRead
    <3> QED
      BY <3>4 DEF c
  <2> QED
    BY <1>3, <1>14, <2>4, <2>7, <2>8 DEF InStep
<1> QED
  BY <1>17, <1>18

\* Messages are delivered as they were sent.
LEMMA DeliveryRead ==
  ASSUME DeliveryInv, TypeInv', ServerIsServer',
         NEW n \in 1 .. Len(stream), ProcessWebSocketData(n)
  PROVE  DeliveryInv'
<1>1. UNCHANGED <<client, sent>> /\ phase = "Read" /\ (~crossed' => ~crossed)
  BY DEF ProcessWebSocketData
<1>2. ClientInv'
  BY <1>1 DEF DeliveryInv, ClientInv, EncoderComplete
<1>3. ASSUME ~crossed', Parse(parser, First(n)).ok PROVE Prefix' /\ InStep'
  <2>1. TypeInv /\ Prefix /\ InStep
    BY <1>1, <1>3 DEF DeliveryInv
  <2>2. PICK wire \in Seq(Byte), frames \in [Nat -> FrameRecords], last \in Nat, cur \in Nat :
          cur \in 1 .. last + 1 /\ IsWire(wire, frames, last) /\ IsRead(wire, frames, last, cur)
    BY <2>1 DEF InStep
  <2> QED
    BY <1>3, <2>1, <2>2, ReadInStep
<1>4. ASSUME ~crossed', ~Parse(parser, First(n)).ok PROVE Prefix' /\ phase' = "closed"
  <2>1. Prefix
    BY <1>1, <1>4 DEF DeliveryInv
  <2>2. phase' = "closed" /\ delivered' = delivered
    BY <1>4 DEF ProcessWebSocketData
  <2> QED
    BY <1>1, <2>1, <2>2 DEF Prefix
<1> QED
  BY <1>2, <1>3, <1>4 DEF DeliveryInv

\* The bytes out are those of frame f, ...
IsBytesOf(out, f, msgs) ==
  LET n == SizeOf(f)
  IN  /\ Len(out) = HeaderLen(n) + n
      /\ out[1] = (IF f.to = Len(msgs[f.msg]) THEN 128 ELSE 0) + (IF f.from = 0 THEN 2 ELSE 0)
      /\ out[2] = 128 + (IF n > 126 THEN 126 ELSE n)
      /\ n > 126 => out[3] = n \div 256 /\ out[4] = n % 256
      /\ \A i \in 1 .. 4 : out[(HeaderLen(n) - 4) + i] = f.key[i]
      /\ \A i \in 1 .. n : out[HeaderLen(n) + i] =
                             Xor(msgs[f.msg][f.from + i], f.key[((i - 1) % 4) + 1])

\* ... and are written after all the others.
LEMMA FrameWritten ==
  ASSUME NEW wire \in Seq(Byte), NEW out \in Seq(Byte), NEW msgs, NEW f \in FrameRecords,
         f.msg \in 1 .. Len(msgs), f.from < f.to, f.to <= Len(msgs[f.msg]), Len(f.key) = 4,
         SizeOf(f) # 126, SizeOf(f) <= MaxShort, f.at = Len(wire), IsBytesOf(out, f, msgs)
  PROVE  IsFrame(wire \o out, f, msgs) /\ EndOf(f) = Len(wire \o out)
<1> DEFINE n    == SizeOf(f)
           h    == HeaderLen(n)
           all  == wire \o out
<1>1. f.at \in Nat /\ f.from \in Nat /\ f.to \in Nat
  BY FrameFields
<1>2. n \in Nat \ {0}
  BY <1>1 DEF SizeOf
<1>3. h \in {6, 8} /\ (n > 126 => h = 8)
  BY DEF HeaderLen
<1>4. /\ Len(all) = Len(wire) + Len(out) /\ Len(wire) \in Nat /\ Len(out) \in Nat
      /\ \A i \in 1 .. Len(out) : all[Len(wire) + i] = out[i]
  <2>1. Len(wire) \in Nat /\ Len(out) \in Nat
    OBVIOUS
  <2>2. Len(all) = Len(wire) + Len(out)
    BY ConcatBytes
  <2>3. \A i \in 1 .. Len(out) : all[Len(wire) + i] = out[i]
    BY ConcatSecond, Zenon
  <2> QED
    BY <2>1, <2>2, <2>3
<1> HIDE DEF all
<1>5. \A i \in 1 .. h + n : all[f.at + i] = out[i]
  <2>1. Len(out) = h + n /\ f.at = Len(wire)
    BY DEF IsBytesOf
  <2> HIDE DEF n, h
  <2> QED
    BY <1>4, <2>1
<1>6. EndOf(f) = Len(all)
  <2>1. EndOf(f) = f.at + h + n /\ Len(out) = h + n /\ f.at = Len(wire)
    BY DEF EndOf, IsBytesOf
  <2> HIDE DEF n, h
  <2>2. \A x, y, z \in Nat : x + y + z = x + (y + z)
    OBVIOUS
  <2>3. f.at \in Nat /\ h \in Nat /\ n \in Nat
    BY <1>1, <1>2, <1>3
  <2>4. f.at + h + n = f.at + (h + n)
    BY <2>2, <2>3
  <2> QED
    BY <1>4, <2>1, <2>4
<1>7. /\ out[1] = (IF f.to = Len(msgs[f.msg]) THEN 128 ELSE 0) + (IF f.from = 0 THEN 2 ELSE 0)
      /\ out[2] = 128 + (IF n > 126 THEN 126 ELSE n)
      /\ n > 126 => out[3] = n \div 256 /\ out[4] = n % 256
      /\ \A i \in 1 .. 4 : out[(h - 4) + i] = f.key[i]
      /\ \A i \in 1 .. n : out[h + i] = Xor(msgs[f.msg][f.from + i], f.key[((i - 1) % 4) + 1])
  BY DEF IsBytesOf
<1> HIDE DEF n, h
<1>8. \A x, y, z \in Int : x + (y + z) = x + y + z
  OBVIOUS
<1>9. Header(all, f, msgs)
  <2>1. 1 \in 1 .. h + n /\ 2 \in 1 .. h + n /\ 3 \in 1 .. h + n /\ 4 \in 1 .. h + n
    BY <1>2, <1>3
  <2>2. /\ all[f.at + 1] = out[1] /\ all[f.at + 2] = out[2]
        /\ all[f.at + 3] = out[3] /\ all[f.at + 4] = out[4]
    BY <1>5, <2>1
  <2>3. ASSUME NEW i \in 1 .. 4 PROVE all[f.at + (h - 4) + i] = f.key[i]
    <3>1. (h - 4) + i \in 1 .. h + n
      BY <1>2, <1>3
    <3>2. f.at \in Int /\ h - 4 \in Int /\ i \in Int
      BY <1>1, <1>3
    <3>3. f.at + ((h - 4) + i) = f.at + (h - 4) + i
      BY <1>8, <3>2
    <3> QED
      BY <1>5, <1>7, <3>1, <3>3, ZenonT(60)
  <2> QED
    BY <1>7, <2>2, <2>3 DEF Header, h, n
<1>10. Payload(all, f, msgs)
  <2> SUFFICES ASSUME NEW i \in 1 .. n
               PROVE  all[f.at + h + i] =
                        Xor(msgs[f.msg][f.from + i], f.key[((i - 1) % 4) + 1])
    BY DEF Payload, h, n
  <2>1. h + i \in 1 .. h + n
    BY <1>2, <1>3
  <2>2. f.at \in Int /\ h \in Int /\ i \in Int
    BY <1>1, <1>3
  <2>3. f.at + (h + i) = f.at + h + i
    BY <1>8, <2>2
  <2>4. all[f.at + (h + i)] = out[h + i]
    BY <1>5, <2>1
  <2>5. out[h + i] = Xor(msgs[f.msg][f.from + i], f.key[((i - 1) % 4) + 1])
    BY <1>7
  <2> QED
    BY <2>3, <2>4, <2>5
<1>11. EndOf(f) <= Len(all)
  BY <1>4, <1>6
<1> QED
  BY <1>6, <1>9, <1>10, <1>11 DEF IsFrame, all

\* The first last frames are the same, and the next one begins at the same place.
Kept(frames, frames2, last) ==
  /\ \A i \in 1 .. last : frames2[i] = frames[i]
  /\ frames2[last + 1].msg = frames[last + 1].msg
  /\ frames2[last + 1].from = frames[last + 1].from
  /\ frames2[last + 1].at = frames[last + 1].at

\* One more frame is on the wire, with the beginning of the next.
OneMore(wire, frames, last) ==
  /\ \A i \in 1 .. last + 1 :
       IsFrame(wire, frames[i], sent) /\ Follows(frames[i], frames[i + 1], sent)
  /\ \A i, j \in 1 .. last + 2 : i < j => frames[i].at < frames[j].at

LEMMA WireGrows ==
  ASSUME NEW wire \in Seq(Byte), NEW out \in Seq(Byte), NEW wire2, wire2 = wire \o out,
         NEW frames \in [Nat -> FrameRecords], NEW frames2 \in [Nat -> FrameRecords],
         NEW last \in Nat, IsWire(wire, frames, last), sent \in Seq(Seq(Byte)),
         Kept(frames, frames2, last),
         IsFrame(wire2, frames2[last + 1], sent),
         Follows(frames2[last + 1], frames2[last + 2], sent),
         frames2[last + 2].at = Len(wire2), Len(out) > 0
  PROVE  OneMore(wire2, frames2, last)
<1>1. /\ \A i \in 1 .. last :
           IsFrame(wire, frames[i], sent) /\ Follows(frames[i], frames[i + 1], sent)
      /\ \A i, j \in 1 .. last + 1 : i < j => frames[i].at < frames[j].at
      /\ frames[last + 1].at = Len(wire)
  BY DEF IsWire
<1>2. /\ Len(wire) \in Nat /\ Len(wire2) \in Nat /\ Len(wire) < Len(wire2)
      /\ \A i \in 1 .. Len(wire) : wire2[i] = wire[i]
  <2>1. Len(wire) \in Nat /\ Len(out) \in Nat
    OBVIOUS
  <2>2. Len(wire2) = Len(wire) + Len(out)
    BY ConcatBytes
  <2>3. \A i \in 1 .. Len(wire) : wire2[i] = wire[i]
    BY ConcatFirst, Zenon
  <2> QED
    BY <2>1, <2>2, <2>3
<1>3. ASSUME NEW i \in 1 .. last + 1
      PROVE  /\ frames2[i].at = frames[i].at /\ frames2[i].msg = frames[i].msg
             /\ frames2[i].from = frames[i].from
  <2>1. i \in 1 .. last \/ i = last + 1
    OBVIOUS
  <2> QED
    BY <2>1 DEF Kept
<1>4. ASSUME NEW i \in 1 .. last + 1
      PROVE  IsFrame(wire2, frames2[i], sent) /\ Follows(frames2[i], frames2[i + 1], sent)
  <2>1. CASE i \in 1 .. last
    <3>1. IsFrame(wire, frames[i], sent) /\ Follows(frames[i], frames[i + 1], sent)
      BY <1>1, <2>1
    <3>2. i \in Nat
      OBVIOUS
    <3>3. frames2[i] = frames[i] /\ frames[i] \in FrameRecords
      BY <2>1, <3>2 DEF Kept
    <3>4. Len(wire) <= Len(wire2) /\ Len(sent) \in Nat /\ Len(sent) <= Len(sent)
      BY <1>2
    <3>5. IsFrame(wire2, frames[i], sent)
      BY <1>2, <3>1, <3>3, <3>4, FrameKept
    <3>6. i + 1 \in 1 .. last + 1
      BY <2>1
    <3>7. /\ frames2[i + 1].at = frames[i + 1].at /\ frames2[i + 1].msg = frames[i + 1].msg
          /\ frames2[i + 1].from = frames[i + 1].from
      BY <1>3, <3>6
    <3>8. Follows(frames[i], frames2[i + 1], sent)
      BY <3>1, <3>7 DEF Follows
    <3> QED
      BY <3>3, <3>5, <3>8
  <2>2. CASE i = last + 1
    <3>1. i + 1 = last + 2
      BY <2>2
    <3> QED
      BY <2>2, <3>1
  <2> QED
    BY <2>1, <2>2
<1>5. ASSUME NEW i \in 1 .. last + 2, NEW j \in 1 .. last + 2, i < j
      PROVE  frames2[i].at < frames2[j].at
  <2>1. i \in 1 .. last + 1 /\ i \in Nat
    BY <1>5
  <2>2. frames2[i].at = frames[i].at
    BY <1>3, <2>1
  <2>3. frames[i].at \in Nat
    BY <2>1, FrameFields
  <2>4. CASE j \in 1 .. last + 1
    <3>1. frames2[j].at = frames[j].at
      BY <1>3, <2>4
    <3> QED
      BY <1>1, <1>5, <2>1, <2>2, <2>4, <3>1
  <2>5. CASE j = last + 2
    <3>1. i = last + 1 \/ (i < last + 1 /\ last + 1 \in 1 .. last + 1)
      BY <2>1
    <3>2. frames[i].at = Len(wire) \/ frames[i].at < Len(wire)
      BY <1>1, <2>1, <3>1
    <3>3. frames2[j].at = Len(wire2)
      BY <2>5
    <3> QED
      BY <1>2, <2>2, <2>3, <3>2, <3>3
  <2>6. j \in 1 .. last + 1 \/ j = last + 2
    OBVIOUS
  <2> QED
    BY <2>4, <2>5, <2>6
<1> QED
  BY <1>4, <1>5 DEF OneMore

\* What was read stays where it was.
LEMMA ReadKept ==
  ASSUME TypeInv, NEW wire \in Seq(Byte), NEW out \in Seq(Byte), NEW wire2, wire2 = wire \o out,
         NEW frames \in [Nat -> FrameRecords], NEW frames2 \in [Nat -> FrameRecords],
         NEW last \in Nat, NEW cur \in 1 .. last + 1, frames[last + 1].at = Len(wire),
         IsRead(wire, frames, last, cur),
         Kept(frames, frames2, last),
         frames2[last + 2].at = Len(wire2), Len(out) > 0,
         stream' = stream \o out, ends' = ends \cup {Len(stream) + Len(out)},
         UNCHANGED <<sent, parser, phase, delivered>>
  PROVE  IsRead(wire2, frames2, last + 1, cur)'
<1> DEFINE f     == frames[cur]
           f2    == frames2[cur]
           cache == parser.m_inputCache
           read  == f.at + Len(cache)
<1>1. /\ cache \in Seq(Byte) /\ Len(cache) \in Nat /\ stream \in Seq(Byte) /\ Len(stream) \in Nat
      /\ Len(wire) \in Nat /\ Len(out) \in Nat /\ cur \in Nat
  <2>1. parser \in Parsers /\ stream \in Seq(Byte)
    BY DEF TypeInv, StateTyped
  <2>2. cache \in Seq(Byte)
    BY <2>1 DEF Parsers
  <2> QED
    BY <2>1, <2>2
<1>2. f.at \in Nat
  BY <1>1, FrameFields
<1>3. f2.at = f.at /\ f2.msg = f.msg /\ f2.from = f.from
  <2>1. cur \in 1 .. last \/ cur = last + 1
    OBVIOUS
  <2> QED
    BY <2>1 DEF Kept
<1>4. /\ read + Len(stream) = Len(wire)
      /\ \A i \in 1 .. Len(cache) : cache[i] = wire[f.at + i]
      /\ \A i \in 1 .. Len(stream) : stream[i] = wire[read + i]
      /\ ends = {frames[i].at - read : i \in cur + 1 .. last + 1}
      /\ cur <= last => read < frames[cur + 1].at
      /\ f.msg = Len(delivered) + 1
      /\ phase = "Read" => PartTaken(parser, f, sent) /\ (parser.m_headerComplete => cur <= last)
      /\ phase = "Respond" => f.from = 0 /\ parser.m_inputCache = <<>>
  BY DEF IsRead
<1>5. Len(wire2) = Len(wire) + Len(out) /\ Len(stream') = Len(stream) + Len(out)
  BY <1>1, ConcatBytes
<1>6. /\ \A i \in 1 .. Len(wire) : wire2[i] = wire[i]
      /\ \A i \in 1 .. Len(out) : wire2[Len(wire) + i] = out[i]
  BY ConcatFirst, ConcatSecond, Zenon
<1>7. /\ \A i \in 1 .. Len(stream) : stream'[i] = stream[i]
      /\ \A i \in 1 .. Len(out) : stream'[Len(stream) + i] = out[i]
  BY <1>1, ConcatFirst, ConcatSecond, Zenon
<1>8. frames2[last + 2].at = Len(wire) + Len(out)
  BY <1>5
<1>9. \A i \in 1 .. last + 1 : frames2[i].at = frames[i].at
  <2>1. \A i \in 1 .. last + 1 : i \in 1 .. last \/ i = last + 1
    OBVIOUS
  <2> QED
    BY <2>1 DEF Kept
<1>10. PartTaken(parser, f, sent) /\ (parser.m_headerComplete => cur <= last)
       => PartTaken(parser, f2, sent)
  <2>1. CASE cur <= last
    <3>1. cur \in 1 .. last
      BY <2>1
    <3>2. f2 = f
      BY <3>1 DEF Kept
    <3> QED
      BY <3>2
  <2>2. CASE ~(cur <= last)
    <3> HIDE DEF f, f2
    <3> QED
      BY <1>3, <2>2 DEF PartTaken, HasPart
  <2> QED
    BY <2>1, <2>2
<1>11. cur <= last \/ cur = last + 1
  BY <1>1
<1>12. frames[last + 1].at = Len(wire) /\ cur \in 1 .. last + 1
  OBVIOUS
<1>13. /\ \A i \in cur + 1 .. last + 1 : frames2[i].at = frames[i].at
       /\ cur <= last => frames2[cur + 1].at = frames[cur + 1].at
       /\ cur = last + 1 => frames2[cur + 1].at = Len(wire) + Len(out)
  <2>1. \A i \in cur + 1 .. last + 1 : i \in 1 .. last + 1
    BY <1>1
  <2>2. cur <= last => cur + 1 \in 1 .. last + 1
    BY <1>1
  <2>3. cur = last + 1 => cur + 1 = last + 2
    OBVIOUS
  <2> QED
    BY <1>8, <1>9, <2>1, <2>2, <2>3
<1>14. /\ ends' = ends \cup {Len(stream) + Len(out)} /\ Len(out) > 0
       /\ parser' = parser /\ phase' = phase /\ sent' = sent /\ delivered' = delivered
  OBVIOUS
<1>15. read \in Nat
  BY <1>1, <1>2, SMTT(40)
<1> HIDE DEF f, f2, cache, read
<1>16. read + Len(stream') = Len(wire2)
  <2>1. \A x, y, z \in Nat : x + (y + z) = (x + y) + z
    OBVIOUS
  <2>2. read + (Len(stream) + Len(out)) = (read + Len(stream)) + Len(out)
    BY <1>1, <1>15, <2>1
  <2> QED
    BY <1>4, <1>5, <2>2
<1>17. \A i \in 1 .. Len(cache) : cache[i] = wire2[f.at + i]
  <2> SUFFICES ASSUME NEW i \in 1 .. Len(cache) PROVE cache[i] = wire2[f.at + i]
    OBVIOUS
  <2>1. f.at + i \in 1 .. Len(wire)
    BY <1>1, <1>2, <1>4, SMTT(40) DEF read
  <2> QED
    BY <1>4, <1>6, <2>1
<1>18. \A i \in 1 .. Len(stream') : stream'[i] = wire2[read + i]
  <2> SUFFICES ASSUME NEW i \in 1 .. Len(stream') PROVE stream'[i] = wire2[read + i]
    OBVIOUS
  <2>1. CASE i <= Len(stream)
    <3>1. i \in 1 .. Len(stream) /\ read + i \in 1 .. Len(wire)
      BY <1>1, <1>4, <1>15, <2>1, SMTT(40)
    <3> QED
      BY <1>4, <1>6, <1>7, <3>1
  <2>2. CASE ~(i <= Len(stream))
    <3> DEFINE j == i - Len(stream)
    <3>1. j \in 1 .. Len(out) /\ i = Len(stream) + j
      BY <1>1, <1>5, <2>2
    <3> HIDE DEF j
    <3>2. read + i = Len(wire) + j
      <4>1. \A x, y, z \in Nat : x + (y + z) = (x + y) + z
        OBVIOUS
      <4>2. read + (Len(stream) + j) = (read + Len(stream)) + j
        BY <1>1, <1>15, <3>1, <4>1
      <4> QED
        BY <1>4, <3>1, <4>2
    <3> QED
      BY <1>6, <1>7, <3>1, <3>2
  <2> QED
    BY <2>1, <2>2
<1>19. ends' = {frames2[i].at - read : i \in cur + 1 .. (last + 1) + 1}
  <2> DEFINE set == {frames2[i].at - read : i \in cur + 1 .. (last + 1) + 1}
  <2>1. frames2[last + 2].at - read = Len(stream) + Len(out)
    <3>1. \A x, y, z \in Nat : ((x + y) + z) - x = y + z
      OBVIOUS
    <3>2. ((read + Len(stream)) + Len(out)) - read = Len(stream) + Len(out)
      BY <1>1, <1>15, <3>1
    <3> QED
      BY <1>4, <1>8, <3>2
  <2>2. (last + 1) + 1 = last + 2 /\ last + 2 \in cur + 1 .. (last + 1) + 1
    BY <1>1, <1>12
  <2>3. ASSUME NEW x \in ends' PROVE x \in set
    <3>1. CASE x \in ends
      <4>1. PICK i \in cur + 1 .. last + 1 : x = frames[i].at - read
        BY <1>4, <3>1
      <4>2. i \in cur + 1 .. (last + 1) + 1 /\ x = frames2[i].at - read
        BY <1>1, <1>13, <4>1
      <4> QED
        BY <4>2
    <3>2. CASE x = Len(stream) + Len(out)
      <4>1. x = frames2[last + 2].at - read
        BY <2>1, <3>2
      <4> QED
        BY <2>2, <4>1
    <3> QED
      BY <1>14, <2>3, <3>1, <3>2
  <2>4. ASSUME NEW x \in set PROVE x \in ends'
    <3>1. PICK i \in cur + 1 .. (last + 1) + 1 : x = frames2[i].at - read
      OBVIOUS
    <3>2. i \in cur + 1 .. last + 1 \/ i = last + 2
      BY <1>1, <2>2
    <3>3. CASE i \in cur + 1 .. last + 1
      <4>1. x = frames[i].at - read
        BY <1>13, <3>1, <3>3
      <4>2. x \in ends
        BY <1>4, <3>3, <4>1
      <4> QED
        BY <1>14, <4>2
    <3>4. CASE i = last + 2
      BY <1>14, <2>1, <3>1, <3>4
    <3> QED
      BY <3>2, <3>3, <3>4
  <2> QED
    BY <2>3, <2>4
<1>20. read < frames2[cur + 1].at
  BY <1>1, <1>4, <1>11, <1>13, <1>14, <1>15
<1>21. read = f2.at + Len(parser'.m_inputCache) /\ parser'.m_inputCache = cache
  BY <1>3, <1>14 DEF read, cache
<1>22. phase' = "Read" =>
         PartTaken(parser', f2, sent') /\ (parser'.m_headerComplete => cur <= last + 1)
  BY <1>4, <1>10, <1>11, <1>12, <1>14
<1>23. f2.msg = Len(delivered') + 1 /\ (phase' = "Respond" => f2.from = 0 /\ cache = <<>>)
  BY <1>3, <1>4, <1>14 DEF cache
<1>24. \A i \in 1 .. Len(cache) : cache[i] = wire2[f2.at + i]
  BY <1>3, <1>17
<1> DEFINE m == last + 1
<1>25. /\ ends' = {frames2[i].at - read : i \in cur + 1 .. m + 1}
       /\ phase' = "Read" =>
            PartTaken(parser', f2, sent') /\ (parser'.m_headerComplete => cur <= m)
  BY <1>19, <1>22
<1> HIDE DEF m
<1>26. IsRead(wire2, frames2, m, cur)'
  <2> DEFINE in  == parser'.m_inputCache
             now == frames2[cur].at + Len(in)
  <2>1. now = read /\ in = cache
    BY <1>21 DEF f2
  <2>2. now + Len(stream') = Len(wire2)
    BY <1>16, <2>1
  <2>3. \A i \in 1 .. Len(in) : in[i] = wire2[frames2[cur].at + i]
    BY <1>24, <2>1, Zenon DEF f2
  <2>4. \A i \in 1 .. Len(stream') : stream'[i] = wire2[now + i]
    BY <1>18, <2>1, Zenon
  <2>5. ends' = {frames2[i].at - now : i \in cur + 1 .. m + 1}
    BY <1>25, <2>1, Zenon
  <2>6. cur <= m => now < frames2[cur + 1].at
    BY <1>20, <2>1, Zenon
  <2>7. /\ frames2[cur].msg = Len(delivered') + 1
        /\ phase' = "Respond" => frames2[cur].from = 0 /\ in = <<>>
    BY <1>23, <2>1, Zenon DEF f2
  <2>8. phase' = "Read" =>
          PartTaken(parser', frames2[cur], sent') /\ (parser'.m_headerComplete => cur <= m)
    BY <1>25, Zenon DEF f2
  <2> QED
    BY <2>2, <2>3, <2>4, <2>5, <2>6, <2>7, <2>8, Zenon DEF IsRead
<1> QED
  BY <1>26 DEF m

\* The client writes a frame.
LEMMA DeliverySend ==
  ASSUME DeliveryInv, TypeInv', ServerIsServer', NEW key \in MaskKeys, ClientSendsFrame(key)
  PROVE  DeliveryInv'
<1> DEFINE offset == client.m_offset
           len    == client.m_len
           size   == client.m_frameSize
           n      == FrameBytes(client)
           out    == Frame(client, key)
           number == Len(sent)
           ended  == offset + n = len
<1>1. /\ ~EncoderComplete(client) /\ client' = Encode(client, key)
      /\ stream' = stream \o Encode(client, key).m_outputBuf
      /\ ends' = ends \cup {Len(stream) + Len(Encode(client, key).m_outputBuf)}
      /\ UNCHANGED <<sent, parser, server, phase, crossed, refused, delivered>>
  BY DEF ClientSendsFrame, Written
<1>2. /\ client \in Encoders /\ EncoderFits(client) /\ key \in Seq(Byte) /\ Len(key) = 4
      /\ sent \in Seq(Seq(Byte)) /\ TypeInv /\ ClientInv
  BY WebSocketAssumption DEF Byte, DeliveryInv, TypeInv, StateTyped
<1>3. /\ offset \in Nat /\ len \in Nat /\ size \in Nat \ {0} /\ offset < len
      /\ client.m_data \in Seq(Byte) /\ Len(client.m_data) = len - offset
  <2>1. /\ offset \in Nat /\ len \in Nat /\ size \in Nat \ {0} /\ client.m_data \in Seq(Byte)
    BY <1>2 DEF Encoders
  <2> QED
    BY <1>1, <1>2, <2>1 DEF EncoderComplete, EncoderFits
<1>4. /\ client.m_isClient /\ (offset = 0 => client.m_opCode = 2)
      /\ number > 0 /\ len = Len(sent[number])
      /\ \A i \in 1 .. Len(client.m_data) : client.m_data[i] = sent[number][offset + i]
      /\ Framable(len, size)
  BY <1>1, <1>2 DEF ClientInv
<1>5. PICK q \in 0 .. len : offset = q * size
  BY <1>1, <1>2 DEF ClientInv
<1>6. /\ client'.m_isClient = client.m_isClient /\ client'.m_len = len
      /\ client'.m_frameSize = size /\ client'.m_offset = offset + n
      /\ client'.m_data = SubSeq(client.m_data, n + 1, Len(client.m_data))
      /\ client'.m_outputBuf = out
  BY <1>1, <1>2, EncodeIs DEF Encoders
<1>7. stream' = stream \o out /\ ends' = ends \cup {Len(stream) + Len(out)}
  BY <1>1, <1>6
<1>8. n = IF size > len - offset THEN len - offset ELSE size
  BY DEF FrameBytes, IsLastFrame
<1>9. FinBit(client) = IF size > len - offset THEN 128 ELSE 0
  BY DEF FinBit, IsLastFrame
<1>10. FrameOpCode(client) = IF offset = 0 THEN 2 ELSE 0
  BY <1>4 DEF FrameOpCode, OpCodeType_Continue
<1>11. out \in Seq(Byte)
  <2>1. client' \in Encoders
    BY DEF TypeInv, StateTyped
  <2> QED
    BY <1>6, <2>1 DEF Encoders
<1> HIDE DEF offset, len, size, n
<1>12. /\ n \in Nat \ {0} /\ n # 126 /\ n <= MaxShort /\ offset + n <= len
       /\ size > len - offset <=> ended
       /\ ~ended => q + 1 \in 0 .. len /\ offset + n = (q + 1) * size
  <2>1. /\ len \in Nat /\ size \in Nat \ {0} /\ Framable(len, size) /\ q \in 0 .. len
        /\ offset \in Nat /\ offset = q * size /\ offset < len
    BY <1>3, <1>4, <1>5, Zenon
  <2> QED
    BY <1>8, <2>1, NextFrame
<1>13. /\ Len(out) = HeaderLen(n) + n
       /\ out[1] = (IF ended THEN 128 ELSE 0) + (IF offset = 0 THEN 2 ELSE 0)
       /\ out[2] = 128 + (IF n > 126 THEN 126 ELSE n)
       /\ n > 126 => out[3] = n \div 256 /\ out[4] = n % 256
       /\ \A i \in 1 .. 4 : out[(HeaderLen(n) - 4) + i] = key[i]
       /\ \A i \in 1 .. n : out[HeaderLen(n) + i] =
                              Xor(client.m_data[i], key[((i - 1) % 4) + 1])
  <2>1. n = FrameBytes(client)
    BY DEF n
  <2>2. Spells(out, client, key, n)
    <3>1. /\ client \in Encoders /\ EncoderFits(client) /\ client.m_isClient
          /\ key \in Seq(Byte) /\ Len(key) = 4 /\ n \in Nat \ {0} /\ n # 126 /\ n <= MaxShort
      BY <1>2, <1>4, <1>12
    <3> QED
      BY <2>1, <3>1, FrameOfClient
  <2>3. FinBit(client) + FrameOpCode(client) =
          (IF ended THEN 128 ELSE 0) + (IF offset = 0 THEN 2 ELSE 0)
    <3>1. FinBit(client) = IF ended THEN 128 ELSE 0
      BY <1>9, <1>12
    <3> HIDE DEF ended
    <3> QED
      BY <1>10, <3>1
  <2> HIDE DEF out, ended
  <2> QED
    BY <2>2, <2>3 DEF Spells
<1>14. /\ EncoderComplete(client)' <=> ended
       /\ NextMessage = number /\ NextByte = offset
       /\ NextMessage' = IF ended THEN number + 1 ELSE number
       /\ NextByte' = IF ended THEN 0 ELSE offset + n
  <2>1. EncoderComplete(client)' <=> ended
    BY <1>6 DEF EncoderComplete
  <2>2. NextMessage = number /\ NextByte = offset
    BY <1>1 DEF NextMessage, NextByte, offset
  <2> HIDE DEF ended
  <2> QED
    BY <1>1, <1>6, <2>1, <2>2 DEF NextMessage, NextByte
<1>15. ClientInv'
  <2> SUFFICES ASSUME ~ended
               PROVE  /\ client'.m_isClient /\ (client'.m_offset = 0 => client'.m_opCode = 2)
                      /\ Len(sent') > 0 /\ client'.m_len = Len(sent'[Len(sent')])
                      /\ \A i \in 1 .. Len(client'.m_data) :
                           client'.m_data[i] = sent'[Len(sent')][client'.m_offset + i]
                      /\ Framable(client'.m_len, client'.m_frameSize)
                      /\ \E k \in 0 .. client'.m_len : client'.m_offset = k * client'.m_frameSize
    BY <1>14 DEF ClientInv
  <2>1. client'.m_offset # 0
    BY <1>3, <1>6, <1>12
  <2>2. sent' = sent /\ client'.m_isClient /\ number > 0 /\ client'.m_len = Len(sent[number])
    BY <1>1, <1>4, <1>6
  <2>3. Framable(client'.m_len, client'.m_frameSize)
    BY <1>4, <1>6
  <2>4. \E k \in 0 .. client'.m_len : client'.m_offset = k * client'.m_frameSize
    BY <1>6, <1>12
  <2>5. ASSUME NEW i \in 1 .. Len(client'.m_data)
        PROVE  client'.m_data[i] = sent[number][client'.m_offset + i]
    <3> DEFINE data == client.m_data
    <3>1. n + 1 \in 1 .. Len(data) + 1 /\ Len(data) \in (n + 1) - 1 .. Len(data)
      BY <1>3, <1>12
    <3>2. data \in Seq(Byte) /\ Len(data) = len - offset
      BY <1>3
    <3>3. \A k \in 1 .. Len(data) : data[k] = sent[number][offset + k]
      BY <1>4
    <3>4. client'.m_data = SubSeq(data, n + 1, Len(data))
      BY <1>6
    <3> HIDE DEF data
    <3>5. /\ Len(client'.m_data) = Len(data) - (n + 1) + 1
          /\ \A k \in 1 .. Len(data) - (n + 1) + 1 : client'.m_data[k] = data[(n + 1) + k - 1]
      BY <3>1, <3>2, <3>4, SubSeqBytes
    <3>6. i \in 1 .. Len(data) - (n + 1) + 1
      BY <3>5
    <3>7. client'.m_data[i] = data[(n + 1) + i - 1]
      BY <3>5, <3>6
    <3>8. n + i \in 1 .. Len(data) /\ (n + 1) + i - 1 = n + i
      BY <1>3, <1>12, <3>2, <3>6
    <3>9. offset + (n + i) = client'.m_offset + i
      BY <1>3, <1>6, <1>12
    <3> QED
      BY <3>3, <3>7, <3>8, <3>9
  <2> QED
    BY <2>1, <2>2, <2>3, <2>4, <2>5
<1>16. ~crossed' => Prefix'
  BY <1>1 DEF DeliveryInv, Prefix
<1>17. ~crossed' /\ phase' # "closed" => InStep'
  <2> SUFFICES ASSUME ~crossed, phase # "closed" PROVE InStep'
    BY <1>1
  <2>1. InStep
    BY DEF DeliveryInv
  <2>2. PICK wire \in Seq(Byte), frames \in [Nat -> FrameRecords], last \in Nat, cur \in Nat :
          cur \in 1 .. last + 1 /\ IsWire(wire, frames, last) /\ IsRead(wire, frames, last, cur)
    BY <2>1 DEF InStep
  <2>3. /\ frames[last + 1].at = Len(wire) /\ frames[last + 1].msg = number
        /\ frames[last + 1].from = offset /\ Len(wire) \in Nat
    BY <1>14, <2>2 DEF IsWire
  <2>4. PICK bytes \in Seq(Byte), wire2 \in Seq(Byte) : bytes = out /\ wire2 = wire \o bytes
    BY <1>11, ConcatBytes
  <2>5. Len(bytes) \in Nat /\ Len(bytes) > 0 /\ Len(wire2) = Len(wire) + Len(bytes)
    <3>1. HeaderLen(n) \in {6, 8}
      BY DEF HeaderLen
    <3>2. Len(bytes) > 0
      BY <1>12, <1>13, <2>4, <3>1
    <3> QED
      BY <2>4, <3>2, ConcatBytes
  <2>6. PICK f \in FrameRecords :
          /\ f.msg = number /\ f.from = offset /\ f.to = offset + n
          /\ f.at = Len(wire) /\ f.key = key
    <3> DEFINE f == [msg |-> number, from |-> offset, to |-> offset + n, at |-> Len(wire),
                     key |-> key]
    <3>1. number \in Nat /\ offset \in Nat /\ offset + n \in Nat /\ Len(wire) \in Nat
      BY <1>2, <1>3, <1>12, <2>3
    <3>2. f \in FrameRecords
      BY <1>2, <3>1 DEF FrameRecords
    <3> QED
      BY <3>2
  <2>7. PICK g \in FrameRecords :
          /\ g.msg = (IF ended THEN number + 1 ELSE number)
          /\ g.from = (IF ended THEN 0 ELSE offset + n)
          /\ g.at = Len(wire2)
    <3> DEFINE msg  == IF ended THEN number + 1 ELSE number
               from == IF ended THEN 0 ELSE offset + n
               g    == [msg |-> msg, from |-> from, to |-> 0, at |-> Len(wire2), key |-> key]
    <3>1. msg \in Nat /\ from \in Nat /\ Len(wire2) \in Nat
      BY <1>2, <1>3, <1>12
    <3> HIDE DEF msg, from
    <3>2. g \in FrameRecords
      BY <1>2, <3>1 DEF FrameRecords
    <3> QED
      BY <3>2 DEF msg, from
  <2>8. PICK frames2 \in [Nat -> FrameRecords] :
          /\ \A i \in 1 .. last : frames2[i] = frames[i]
          /\ frames2[last + 1] = f /\ frames2[last + 2] = g
    <3> DEFINE all == [i \in Nat |-> IF i = last + 1 THEN f
                                     ELSE IF i = last + 2 THEN g ELSE frames[i]]
    <3>1. all \in [Nat -> FrameRecords]
      OBVIOUS
    <3>2. \A i \in 1 .. last : all[i] = frames[i]
      OBVIOUS
    <3>3. all[last + 1] = f /\ all[last + 2] = g
      OBVIOUS
    <3> QED
      BY <3>1, <3>2, <3>3
  <2>9. SizeOf(f) = n
    BY <1>3, <1>12, <2>6 DEF SizeOf
  <2>10. IsFrame(wire2, f, sent) /\ EndOf(f) = Len(wire2)
    <3>1. /\ f.msg \in 1 .. Len(sent) /\ f.from < f.to /\ f.to <= Len(sent[f.msg])
          /\ Len(f.key) = 4
      BY <1>2, <1>3, <1>4, <1>12, <2>6
    <3>2. Len(bytes) = HeaderLen(SizeOf(f)) + SizeOf(f)
      BY <1>13, <2>4, <2>9
    <3>3. bytes[1] = (IF f.to = Len(sent[f.msg]) THEN 128 ELSE 0) + (IF f.from = 0 THEN 2 ELSE 0)
      BY <1>4, <1>13, <2>4, <2>6
    <3>4. bytes[2] = 128 + (IF SizeOf(f) > 126 THEN 126 ELSE SizeOf(f))
      BY <1>13, <2>4, <2>9
    <3>5. SizeOf(f) > 126 => bytes[3] = SizeOf(f) \div 256 /\ bytes[4] = SizeOf(f) % 256
      BY <1>13, <2>4, <2>9
    <3>6. \A i \in 1 .. 4 : bytes[(HeaderLen(SizeOf(f)) - 4) + i] = f.key[i]
      BY <1>13, <2>4, <2>6, <2>9
    <3>7. \A i \in 1 .. SizeOf(f) : bytes[HeaderLen(SizeOf(f)) + i] =
                                      Xor(sent[f.msg][f.from + i], f.key[((i - 1) % 4) + 1])
      <4> SUFFICES ASSUME NEW i \in 1 .. n
                   PROVE  bytes[HeaderLen(n) + i] =
                            Xor(sent[number][offset + i], key[((i - 1) % 4) + 1])
        BY <2>6, <2>9
      <4>1. i \in 1 .. Len(client.m_data)
        BY <1>3, <1>12
      <4>2. client.m_data[i] = sent[number][offset + i]
        BY <1>4, <4>1
      <4> QED
        BY <1>13, <2>4, <4>2
    <3>8. SizeOf(f) # 126 /\ SizeOf(f) <= MaxShort /\ f.at = Len(wire)
      BY <1>12, <2>6, <2>9
    <3>9. IsFrame(wire \o bytes, f, sent) /\ EndOf(f) = Len(wire \o bytes)
      <4>1. IsBytesOf(bytes, f, sent)
        BY <3>2, <3>3, <3>4, <3>5, <3>6, <3>7, Zenon DEF IsBytesOf
      <4> QED
        BY <3>1, <3>8, <4>1, FrameWritten
    <3> QED
      BY <2>4, <3>9, Zenon
  <2>11. Follows(f, g, sent)
    <3>1. ended <=> f.to = Len(sent[f.msg])
      BY <1>4, <2>6
    <3> HIDE DEF ended
    <3> QED
      BY <2>6, <2>7, <2>10, <3>1 DEF Follows
  <2>12. Kept(frames, frames2, last) /\ frames2[last + 2].at = Len(wire2)
    <3>1. /\ frames2[last + 1].msg = frames[last + 1].msg
          /\ frames2[last + 1].at = frames[last + 1].at
          /\ frames2[last + 1].from = frames[last + 1].from
      BY <2>3, <2>6, <2>8
    <3> QED
      BY <2>7, <2>8, <3>1 DEF Kept
  <2>13. OneMore(wire2, frames2, last)
    <3>1. /\ IsFrame(wire2, frames2[last + 1], sent)
          /\ Follows(frames2[last + 1], frames2[last + 2], sent)
      BY <2>8, <2>10, <2>11
    <3>2. /\ wire2 = wire \o bytes /\ sent \in Seq(Seq(Byte)) /\ Len(bytes) > 0
          /\ IsWire(wire, frames, last)
      BY <1>2, <2>2, <2>4, <2>5
    <3> QED
      BY <2>12, <3>1, <3>2, WireGrows
  <2>14. IsWire(wire2, frames2, last + 1)'
    <3> DEFINE m == last + 1
    <3>1. m + 1 = last + 2 /\ m \in Nat
      OBVIOUS
    <3>2. sent' = sent
      BY <1>1
    <3>3. /\ frames2[m + 1].at = Len(wire2) /\ frames2[m + 1].msg = NextMessage'
          /\ frames2[m + 1].from = NextByte'
      BY <1>14, <2>7, <2>8, <3>1
    <3>4. /\ \A i \in 1 .. m : IsFrame(wire2, frames2[i], sent')
                               /\ Follows(frames2[i], frames2[i + 1], sent')
          /\ \A i, j \in 1 .. m + 1 : i < j => frames2[i].at < frames2[j].at
      BY <2>13, <3>1, <3>2 DEF OneMore
    <3> HIDE DEF m
    <3>5. IsWire(wire2, frames2, m)'
      BY <3>3, <3>4 DEF IsWire
    <3> QED
      BY <3>5 DEF m
  <2>15. IsRead(wire2, frames2, last + 1, cur)'
    <3>1. stream' = stream \o bytes /\ ends' = ends \cup {Len(stream) + Len(bytes)}
      BY <1>7, <2>4
    <3>2. UNCHANGED <<sent, parser, phase, delivered>>
      BY <1>1
    <3> QED
      BY <1>2, <2>2, <2>3, <2>4, <2>5, <2>12, <3>1, <3>2, ReadKept
  <2>16. last + 1 \in Nat /\ cur \in 1 .. (last + 1) + 1
    BY <2>2
  <2> QED
    BY <2>14, <2>15, <2>16 DEF InStep
<1> QED
  BY <1>15, <1>16, <1>17 DEF DeliveryInv

----------------------------------------------------------------------------
(* The theorem.                                                            *)

LEMMA DeliveryNext ==
  ASSUME \A t \in Transfers : Framable(Len(t.payload), t.frameSize),
         DeliveryInv, [Next]_vars
  PROVE  DeliveryInv'
<1>1. TypeInv' /\ ServerIsServer'
  BY TypeNext DEF DeliveryInv
<1>2. ASSUME NEW transfer \in Transfers, ClientBegins(transfer) PROVE DeliveryInv'
  BY <1>1, <1>2, DeliveryClientBegins
<1>3. CASE Sending
  BY <1>1, <1>3, DeliverySend DEF Sending
<1>4. CASE Reading
  <2>1. PICK n : n \in 1 .. Len(stream) /\ ProcessWebSocketData(n)
    BY <1>4 DEF Reading, Readable
  <2> QED
    BY <1>1, <2>1, DeliveryRead
<1>5. CASE Responding \/ ResponseFails
  <2>1. RespondFrame \/ ResponseFails \/ RespondEnd
    BY <1>5 DEF Responding
  <2> QED
    BY <1>1, <2>1, DeliveryRespond
<1>6. CASE UNCHANGED vars
  <2>1. UNCHANGED <<client, sent, stream, ends, parser, server, phase, crossed, delivered>>
    BY <1>6 DEF vars
  <2>2. ClientInv'
    BY <2>1 DEF DeliveryInv, ClientInv, EncoderComplete
  <2>3. Prefix' <=> Prefix
    BY <2>1 DEF Prefix
  <2>4. InStep' <=> InStep
    BY <2>1 DEF InStep, IsWire, IsRead, NextMessage, NextByte, EncoderComplete
  <2> QED
    BY <1>1, <2>1, <2>2, <2>3, <2>4 DEF DeliveryInv
<1> QED
  BY <1>2, <1>3, <1>4, <1>5, <1>6 DEF Next

\* For every set of messages, frame sizes, mask keys and sizes of reads: if each
\* message can be sent in its frames (see Framable), then what the handler gets
\* from WebSocketParser is what clients gave to WebSocketEncoder, message by
\* message and in order, as long as no read crosses the end of a frame.
THEOREM WebSocketDelivers ==
  ASSUME \A t \in Transfers : Framable(Len(t.payload), t.frameSize)
  PROVE  Spec => []DeliveredIsSent
<1>1. Init => DeliveryInv
  BY DeliveryInit
<1>2. DeliveryInv /\ [Next]_vars => DeliveryInv'
  BY DeliveryNext
<1>3. DeliveryInv => DeliveredIsSent
  <2> SUFFICES ASSUME DeliveryInv, ~crossed PROVE IsPrefix(delivered, sent)
    BY DEF DeliveredIsSent
  <2>1. delivered \in Seq(Seq(Byte)) /\ sent \in Seq(Seq(Byte)) /\ Prefix
    BY DEF DeliveryInv, TypeInv, StateTyped
  <2>2. SubSeq(delivered, 1, Len(delivered)) = SubSeq(sent, 1, Len(delivered))
    BY <2>1 DEF Prefix
  <2> QED
    BY <2>1, <2>2 DEF IsPrefix, Prefix
<1> QED
  BY <1>1, <1>2, <1>3, PTL DEF Spec

=============================================================================
