------------------------------ MODULE MCTimer ------------------------------
(* A model-checking instance of a Timer beside another connection.         *)
EXTENDS Timer

\* The timer, and a connection that is read without a timeout, with one that may
\* be carried into the next second, and with a whole second.
TimerAndStream == [fd \in {4, 5} |-> {"Read"}]
NoneOrSome     == {-1, 2, 3}
=============================================================================
