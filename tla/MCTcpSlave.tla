---------------------------- MODULE MCTcpSlave ----------------------------
(* A model-checking instance: one listener and a few descriptors.          *)
EXTENDS TcpSlave

ProxyOps == [fd \in Fd |-> IF fd \in Listeners THEN {"Accept"} ELSE {"Connect", "Read", "Write"}]
NoneAndOne == {-1, 1}
=============================================================================
