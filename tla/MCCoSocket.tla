---------------------------- MODULE MCCoSocket ----------------------------
(* Model-checking instances of the event loop: which calls the clients     *)
(* make on which descriptor in each run.                                   *)
EXTENDS CoSocket

\* A connection used by a reader and a writer, and a listener.
StreamAndListener == [fd \in {4, 5} |-> IF fd = 4 THEN {"Read", "Write"} ELSE {"Accept"}]

\* A socket being connected and a connection that is read.
Streams == [fd \in {4, 5} |-> IF fd = 4 THEN {"Connect"} ELSE {"Read"}]

OneStream == [fd \in {4} |-> {"Read"}]
=============================================================================
