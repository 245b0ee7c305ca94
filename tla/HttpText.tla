------------------------------ MODULE HttpText ------------------------------
(***************************************************************************)
(* The text of HTTP messages.  A text is a sequence of numbers.  One below *)
(* 256 is the character of that code.  The names and the values of headers *)
(* are made of words, numbers from 256 on, each of which stands for        *)
(* several letters; every name and value the parser knows is two words, so *)
(* that the end of a read can fall inside it.  The letters of a word are   *)
(* compared without case, as http_parser does it.  Of the control          *)
(* characters, only CR and LF occur.                                       *)
(***************************************************************************)
EXTENDS Integers, Sequences, SequencesExt

LF        == 10
CR        == 13
SP        == 32
HASH      == 35
PERCENT   == 37
AMP       == 38
STAR      == 42
PLUS      == 43
COMMA     == 44
DOT       == 46
SLASH     == 47
COLON     == 58
SEMICOLON == 59
EQUALS    == 61
QUESTION  == 63
AT        == 64

IS_NUM(c)   == c \in 48 .. 57
IS_ALPHA(c) == c \in 65 .. 90 \/ c \in 97 .. 122
IS_ALPHANUM(c) == IS_NUM(c) \/ IS_ALPHA(c)

\* The characters -_.!~*'() and %;:&=+$, on top of letters and digits.
IS_USERINFO_CHAR(c) ==
  IS_ALPHANUM(c) \/ c \in {45, 95, 46, 33, 126, 42, 39, 40, 41, 37, 59, 58, 38, 61, 43, 36, 44}

\* Table normal_url_char.
IS_URL_CHAR(c) == c \in 33 .. 126 \ {HASH, QUESTION}

\* Table tokens: words are made of token characters.
TOKEN(c) ==
  c >= 256 \/ IS_ALPHANUM(c) \/ c \in {33, 35, 36, 37, 38, 39, 42, 43, 45, 46, 94, 95, 96, 124, 126}

\* Table unhex; -1 for what is no hexadecimal digit.
unhex(c) == CASE IS_NUM(c) -> c - 48
              [] c \in 65 .. 70 -> c - 55
              [] c \in 97 .. 102 -> c - 87
              [] OTHER -> -1

\* Names and values of headers.  Numbers from 300 on are other words.
Connection         == <<256, 257>>
ProxyConnection    == <<258, 257>>
ContentLength      == <<259, 260>>
TransferEncoding   == <<261, 262>>
Upgrade            == <<263, 264>>
KeepAlive          == <<265, 266>>
Close              == <<267, 268>>
Chunked            == <<269, 270>>
SecWebSocketKey    == <<271, 272>>
SecWebSocketAccept == <<271, 273>>
WebSocketProtocol  == <<274, 275>>

\* Methods: the ones that some client of the model uses, and DELETE, which is
\* number 0.
DELETE  == <<68, 69, 76, 69, 84, 69>>
GET     == <<71, 69, 84>>
HEAD    == <<72, 69, 65, 68>>
POST    == <<80, 79, 83, 84>>
PUT     == <<80, 85, 84>>
CONNECT == <<67, 79, 78, 78, 69, 67, 84>>
HTTP_METHOD_MAP == {DELETE, GET, HEAD, POST, PUT, CONNECT}

\* The word HTTP/, and the version with it.
HTTP     == 280
HTTP_1_1 == <<HTTP, 49, DOT, 49>>
CRLF == <<CR, LF>>

\* A number in decimal.
Decimal(n) ==
  LET digits[k \in Nat] == IF k < 10 THEN <<48 + k>> ELSE digits[k \div 10] \o <<48 + (k % 10)>>
  IN  digits[n]

\* A std::string made of a char pointer ends before the first NUL.
c_str(text) ==
  LET nul == {i \in 1 .. Len(text) : text[i] = 0}
  IN  IF nul = {} THEN text
      ELSE SubSeq(text, 1, (CHOOSE i \in nul : \A j \in nul : i <= j) - 1)

\* A std::map of texts with an entry set.
Put(map, key, value) ==
  [k \in DOMAIN map \cup {key} |-> IF k = key THEN value ELSE map[k]]

\* The map with the entries set, each in its turn.
PutAll(map, pairs) == FoldLeft(LAMBDA m, pair : Put(m, pair[1], pair[2]), map, pairs)
=============================================================================
