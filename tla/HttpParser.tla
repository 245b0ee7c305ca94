---------------------------- MODULE HttpParser ----------------------------
(***************************************************************************)
(* class HttpParser, which HttpDecoder wraps: the callbacks that gather    *)
(* what http_parser finds, and what is made of the URL at the end.  A      *)
(* parser is the record of http_parser; its data are the members here.     *)
(***************************************************************************)
EXTENDS HttpText, UrlCodec, SequencesExt

CONSTANTS HTTP_MAX_HEADER_SIZE, ULLONG_MAX

\* m_headerState is the set of the bits that are set.
NewMembers ==
  [m_complete |-> FALSE, m_headerState |-> {}, m_url |-> <<>>, m_urlAndParams |-> <<>>,
   m_method |-> <<>>, m_headerName |-> <<>>, m_headerValue |-> <<>>, m_headers |-> <<>>,
   m_parameters |-> <<>>, m_body |-> <<>>, m_status |-> 0]

OnUrl(m, text) == [m EXCEPT !.m_urlAndParams = @ \o text]

\* A bit of the header state is set; when both are, the header is kept.
WithHeaderState(m, bit) ==
  IF m.m_headerState \cup {bit} = {"HasName", "HasVaule"}
  THEN [m EXCEPT !.m_headerState = {}, !.m_headers = Put(@, m.m_headerName, m.m_headerValue)]
  ELSE [m EXCEPT !.m_headerState = @ \cup {bit}]

OnHeaderName(m, text) == WithHeaderState([m EXCEPT !.m_headerName = text], "HasName")

\* Variant: to what is left of the last header.
OnHeaderValue_Appends(m, text) == WithHeaderState([m EXCEPT !.m_headerValue = @ \o text], "HasVaule")

OnHeaderValue(m, text) == WithHeaderState([m EXCEPT !.m_headerValue = text], "HasVaule")

\* Variant: only the last piece is kept.
OnBody_Overwrites(m, text) == [m EXCEPT !.m_body = text]

OnBody(m, text) == [m EXCEPT !.m_body = @ \o text]

\* m_settings: the callbacks; each ignores an empty text.
OnData(m, for, text) ==
  CASE text = <<>> -> m
    [] text # <<>> /\ for = "url" -> OnUrl(m, text)
    [] text # <<>> /\ for = "header_field" -> OnHeaderName(m, text)
    [] text # <<>> /\ for = "header_value" -> OnHeaderValue(m, text)
    [] text # <<>> /\ for = "body" -> OnBody(m, text)
    [] OTHER -> m

\* What is in text from offset on (counted from 0), up to the flag.
GetStringBefore(flag, text, offset) ==
  LET pos == SelectInSubSeq(text, offset + 1, Len(text), LAMBDA c : c = flag)
  IN  SubSeq(text, offset + 1, IF pos = 0 THEN Len(text) ELSE pos - 1)

\* The loop of ParseUrlAndParam: the parameters in text from offset on, in
\* their order.  A value without a name is a name without a value.
ParseParam[text \in Seq(Nat), offset \in Nat] ==
  IF offset >= Len(text) THEN <<>>
  ELSE LET key   == GetStringBefore(EQUALS, text, offset)
           from  == offset + Len(key) + 1
           value == IF from < Len(text) THEN GetStringBefore(AMP, text, from) ELSE <<>>
           next  == IF from < Len(text) THEN from + Len(value) + 1 ELSE from
       IN  CASE key # <<>> -> <<<<key, value>>>> \o ParseParam[text, next]
             [] key = <<>> /\ value # <<>> -> <<<<value, <<>>>>>> \o ParseParam[text, next]
             [] OTHER -> ParseParam[text, next]

\* The text is decoded before it is split.
SplitUrl[text \in Seq(Nat)] ==
  LET url == GetStringBefore(QUESTION, text, 0)
  IN  [text |-> text, url |-> url, parameters |-> ParseParam[text, Len(url) + 1]]

ParseUrlAndParam(m) ==
  LET split == SplitUrl[UrlDecode(m.m_urlAndParams)]
  IN  [m EXCEPT !.m_urlAndParams = split.text, !.m_url = split.url,
                !.m_parameters = PutAll(@, split.parameters)]

OnComplete(m, parser) ==
  [ParseUrlAndParam([m EXCEPT !.m_method = parser.method, !.m_status = parser.status_code])
     EXCEPT !.m_complete = TRUE]

INSTANCE http_parser WITH on_data <- OnData, on_message_complete <- OnComplete

\* The constructor.
NewHttpParser == http_parser_init(NewMembers)

\* Everything is as new.
Reset(p) == http_parser_init(NewMembers)

\* The return value of http_parser_execute, how much it has parsed, is not used.
Parse(p, text) == http_parser_execute(p, text)

ParseOk(p) == p.http_errno = "OK"

IsComplete(p) == p.data.m_complete

GetHeader(p, name) == IF name \in DOMAIN p.data.m_headers THEN c_str(p.data.m_headers[name]) ELSE <<>>
=============================================================================
