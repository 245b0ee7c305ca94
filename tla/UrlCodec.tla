------------------------------ MODULE UrlCodec ------------------------------
(***************************************************************************)
(* namespace url_codec, on texts of characters.                            *)
(***************************************************************************)
EXTENDS HttpText, SequencesExt

ToHex(x) == IF x > 9 THEN x + 55 ELSE x + 48

FromHex(x) == CASE x \in 65 .. 90 -> x - 55
                [] x \in 97 .. 122 -> x - 87
                [] x \in 48 .. 57 -> x - 48
                [] OTHER -> 0

UrlEncode(str) ==
  FlattenSeq([i \in 1 .. Len(str) |->
    CASE IS_ALPHANUM(str[i]) \/ str[i] \in {45, 95, 46, 126} -> <<str[i]>>
      [] str[i] = SP -> <<PLUS>>
      [] OTHER -> <<PERCENT, ToHex(str[i] \div 16), ToHex(str[i] % 16)>>])

\* A % that two characters do not follow is dropped.
UrlDecode(str) ==
  LET decode[s \in Seq(Nat)] ==
        CASE s = <<>> -> <<>>
          [] s # <<>> /\ s[1] = PLUS -> <<SP>> \o decode[Tail(s)]
          [] s # <<>> /\ s[1] = PERCENT /\ Len(s) >= 3 ->
               <<(FromHex(s[2]) * 16 + FromHex(s[3])) % 256>> \o decode[SubSeq(s, 4, Len(s))]
          [] s # <<>> /\ s[1] = PERCENT /\ Len(s) < 3 -> decode[Tail(s)]
          [] OTHER -> <<s[1]>> \o decode[Tail(s)]
  IN  decode[str]
=============================================================================
