---------------------------- MODULE MCWebSocket ----------------------------
(* Model-checking instances of the WebSocket connection.                   *)
EXTENDS WebSocket

\* n bytes that show where each of them belongs, sent in frames of size bytes.
Transfer(n, size) == [payload |-> [i \in 1 .. n |-> (n + 5 * i) % 16], frameSize |-> size]

Key == {<<130, 2, 5, 8>>}

\* One frame whose length is the marker of a 16-bit length.
Frame126 == {Transfer(126, 1446)}
=============================================================================
