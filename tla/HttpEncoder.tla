---------------------------- MODULE HttpEncoder ----------------------------
(***************************************************************************)
(* class HttpEncoder: requests and responses as text.  m_headers and       *)
(* m_parameters are the entries of the maps in their order.                *)
(***************************************************************************)
EXTENDS HttpText, SequencesExt

NewHttpEncoder ==
  [m_statusCode |-> 0, m_statusMessage |-> <<>>, m_closeConnection |-> FALSE, m_headers |-> <<>>,
   m_body |-> <<>>, m_method |-> <<>>, m_url |-> <<>>, m_parameters |-> <<>>]

HeaderLine(name, value) == name \o <<COLON, SP>> \o value \o CRLF

\* Variant: the lengths of requests and responses count the line end.
AppendToStream_LengthPlus2(e) ==
  HeaderLine(ContentLength, Decimal(Len(e.m_body) + 2))
    \o HeaderLine(Connection, IF e.m_closeConnection THEN Close ELSE KeepAlive)
    \o FlattenSeq([i \in 1 .. Len(e.m_headers) |-> HeaderLine(e.m_headers[i][1], e.m_headers[i][2])])
    \o CRLF \o e.m_body

AppendToStream(e) ==
  HeaderLine(ContentLength, Decimal(Len(e.m_body)))
    \o HeaderLine(Connection, IF e.m_closeConnection THEN Close ELSE KeepAlive)
    \o FlattenSeq([i \in 1 .. Len(e.m_headers) |-> HeaderLine(e.m_headers[i][1], e.m_headers[i][2])])
    \o CRLF \o e.m_body

GetReponseString(e) ==
  HTTP_1_1 \o <<SP>> \o Decimal(e.m_statusCode) \o <<SP>> \o e.m_statusMessage \o CRLF
    \o AppendToStream(e)

\* Nothing is encoded here.
GetRequestString(e) ==
  e.m_method \o <<SP>> \o e.m_url
    \o FlattenSeq([i \in 1 .. Len(e.m_parameters) |->
                     <<IF i = 1 THEN QUESTION ELSE AMP>> \o e.m_parameters[i][1] \o <<EQUALS>>
                       \o e.m_parameters[i][2]])
    \o <<SP>> \o HTTP_1_1 \o CRLF \o AppendToStream(e)
=============================================================================
