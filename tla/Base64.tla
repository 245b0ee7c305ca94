------------------------------- MODULE Base64 -------------------------------
(***************************************************************************)
(* 3rd/base64: base64_encode and base64_decode.  The accumulator is kept   *)
(* to the 16 bits that are still looked at.                                *)
(***************************************************************************)
EXTENDS Integers, Sequences, SequencesExt

\* The character that stands for six bits.
b64_table(x) == CASE x < 26 -> x + 65
                  [] x \in 26 .. 51 -> x + 71
                  [] x \in 52 .. 61 -> x - 4
                  [] x = 62 -> 43
                  [] x = 63 -> 47

\* 64 for a character that stands for nothing.
reverse_table(c) == CASE c \in 65 .. 90 -> c - 65
                      [] c \in 97 .. 122 -> c - 71
                      [] c \in 48 .. 57 -> c + 4
                      [] c = 43 -> 62
                      [] c = 47 -> 63
                      [] OTHER -> 64

\* The bytes or characters of text from i on, each of width bits, cut into
\* groups of size bits, each put out through table; bits are left in sum.  What
\* remains at the end is put out by rest.
Regroup(text, width, size, table(_), rest(_, _)) ==
  LET from[i \in Nat, sum \in Nat, bits \in Nat] ==
        CASE bits >= size ->
               <<table((sum \div 2 ^ (bits - size)) % 2 ^ size)>> \o from[i, sum, bits - size]
          [] bits < size /\ i <= Len(text) ->
               from[i + 1, (sum * 2 ^ width + text[i]) % 65536, bits + width]
          [] OTHER -> rest(sum, bits)
  IN  from[1, 0, 0]

\* Padded with = to a multiple of four characters.
Padded(text) == text \o [i \in 1 .. (-Len(text)) % 4 |-> 61]

\* Variant: the trailing bits are not shifted into place.
base64_encode_NoShift(bindata) ==
  Padded(Regroup(bindata, 8, 6, b64_table,
                 LAMBDA sum, bits : IF bits = 0 THEN <<>> ELSE <<b64_table(sum % 64)>>))

base64_encode(bindata) ==
  Padded(Regroup(bindata, 8, 6, b64_table,
                 LAMBDA sum, bits : IF bits = 0 THEN <<>>
                                    ELSE <<b64_table((sum * 2 ^ (6 - bits)) % 64)>>))

\* Characters that are skipped: white space and =.
Skipped == {9, 10, 11, 12, 13, 32, 61}

\* Whether base64_decode throws.
IsBase64(ascdata) == \A i \in DOMAIN ascdata : ascdata[i] \in Skipped \/ reverse_table(ascdata[i]) <= 63

base64_decode(ascdata) ==
  LET kept == SelectSeq(ascdata, LAMBDA c : c \notin Skipped)
  IN  Regroup([i \in 1 .. Len(kept) |-> reverse_table(kept[i])], 6, 8, LAMBDA x : x,
              LAMBDA sum, bits : <<>>)
=============================================================================
